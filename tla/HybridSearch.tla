---------------------------- MODULE HybridSearch ----------------------------
(***************************************************************************)
(* A hybrid search of the search server on its way through both caches and *)
(* the shared client: _hybrid_search in                                    *)
(* legal_mcp/services/legal_search_service.py looks up its result, its     *)
(* loader create_embedding looks up the query's vector, and the loader of  *)
(* that one leases a client.  A thread may thus wait for another thread's  *)
(* vector while others wait for its result, and the end of the server      *)
(* waits for the leases.  QueryCache is the result cache and, as an        *)
(* instance, the cache of the vectors; EmbeddingClients has the leases.    *)
(***************************************************************************)
EXTENDS QueryCache, EmbeddingClients

CONSTANTS
    Queries,        \* query texts
    QueryOf         \* the query in a result's key; filters are the rest of it

VARIABLES
    vectors, vectorLoads, embeddings,       \* _query_cache
    outcome         \* how the embedding request of a thread ended

\* The key of a vector: the text and the (model, dimension, hash of the API
\* key) that create_embedding reads from the environment.
VectorKeys == Queries \X Configurations

vectorVars == <<vectors, vectorLoads, embeddings>>
vars == <<cacheVars, vectorVars, clientVars, outcome>>

Vectors == INSTANCE QueryCache
    WITH values <- vectors, pending <- vectorLoads, calls <- embeddings,
         Keys <- VectorKeys

\* Every key of a result has a query, whose text is half of its key in
\* _query_cache.
ASSUME HybridAssumption ==
    /\ QueryOf \in [Keys -> Queries]
    /\ None \notin VectorKeys

Init ==
    /\ CacheInit
    /\ Vectors!CacheInit
    /\ LeasesInit
    /\ outcome = [t \in Threads |-> None]

-----------------------------------------------------------------------------

\* A search begins, and may find its result or share another search's.
Search(t, k) ==
    /\ Look(t, k)
    /\ UNCHANGED <<vectorVars, clientVars, outcome>>

\* Mutant: searches that miss a vector at the same time all embed the query.
LookUpVectorAlone(t) ==
    /\ calls[t].at = "loading"
    /\ \E m \in Configurations :
        LET k == <<QueryOf[calls[t].key], m>>
        IN  Vectors!Hit(t, k) \/ Vectors!MissAlone(t, k)
    /\ UNCHANGED <<cacheVars, clientVars, outcome>>

\* The loader of a result asks for the vector of its query, under the
\* configuration it reads at that moment.
LookUpVector(t) ==
    /\ calls[t].at = "loading"
    /\ \E m \in Configurations : Vectors!Look(t, <<QueryOf[calls[t].key], m>>)
    /\ UNCHANGED <<cacheVars, clientVars, outcome>>

\* It fails before that: the query is blank, or the configuration cannot be
\* read.
LoaderFails(t) ==
    /\ embeddings[t].at = "idle"
    /\ SetException(t)
    /\ UNCHANGED <<vectorVars, clientVars, outcome>>

\* The loader of a vector has neither sent its request nor failed.
Embeds(t) == embeddings[t].at = "loading" /\ outcome[t] = None

\* It gets a client of its configuration, or disposing of the one before
\* fails.
Acquire(t) ==
    /\ Embeds(t)
    /\ LET m == embeddings[t].key[2]
       IN  Reuse(t, m) \/ \E c \in Clients : Rotate(t, m, c)
    /\ outcome' = [outcome EXCEPT ![t] =
                      IF holds'[t] = None THEN "error" ELSE None]
    /\ UNCHANGED <<cacheVars, vectorVars>>

\* The server is closing, or a client cannot be created.
AcquireFails(t) ==
    /\ Embeds(t)
    /\ holds[t] = None
    /\ outcome' = [outcome EXCEPT ![t] = "error"]
    /\ UNCHANGED <<cacheVars, vectorVars, clientVars>>

\* The request ends one way or the other; the lease ends with it.  Closing the
\* client may raise, and the search fails then, too.
RequestEnds(t) ==
    /\ Release(t)
    /\ \E o \in {"value", "error"} :
        /\ outcome' = [outcome EXCEPT ![t] = o]
        /\ broken' # broken => o = "error"
    /\ UNCHANGED <<cacheVars, vectorVars>>

\* The vector is cached, or the failure passed on.
VectorLoaded(t) ==
    /\ \/ outcome[t] = "value" /\ Vectors!Store(t)
       \/ outcome[t] = "error" /\ Vectors!SetException(t)
    /\ outcome' = [outcome EXCEPT ![t] = None]
    /\ UNCHANGED <<cacheVars, clientVars>>

VectorProceeds(t) ==
    /\ Vectors!Proceed(t)
    /\ UNCHANGED <<cacheVars, clientVars, outcome>>

\* With a vector the database is searched, which may fail; without one the
\* search has failed.
ResultLoaded(t) ==
    /\ Vectors!Return(t)
    /\ \/ embeddings[t].outcome = "value" /\ Store(t)
       \/ SetException(t)
    /\ UNCHANGED <<vectors, vectorLoads, clientVars, outcome>>

ResultProceeds(t) ==
    /\ Proceed(t)
    /\ UNCHANGED <<vectorVars, clientVars, outcome>>

\* The search has answered; the thread may run another one.
Answered(t) ==
    /\ Return(t)
    /\ UNCHANGED <<vectorVars, clientVars, outcome>>

CloseServer(k) ==
    /\ Shut(k)
    /\ UNCHANGED <<cacheVars, vectorVars, outcome>>

EntryLapses ==
    \/ /\ \E i \in DOMAIN values : Lapse(i)
       /\ UNCHANGED <<vectorVars, clientVars, outcome>>
    \/ /\ \E i \in DOMAIN vectors : Vectors!Lapse(i)
       /\ UNCHANGED <<cacheVars, clientVars, outcome>>

\* What a search does on its own.
Advance(t) ==
    \/ LookUpVector(t) \/ LoaderFails(t)
    \/ Acquire(t) \/ AcquireFails(t) \/ RequestEnds(t)
    \/ VectorLoaded(t) \/ VectorProceeds(t)
    \/ ResultLoaded(t) \/ ResultProceeds(t)

Next ==
    \/ \E t \in Threads :
        \/ \E k \in Keys : Search(t, k)
        \/ Advance(t)
        \/ Answered(t)
    \/ \E k \in Closers : CloseServer(k)
    \/ EntryLapses

Spec == Init /\ [][Next]_vars

\* Threads run; embedding requests and database searches end (the client's
\* timeout is 20 s with one retry); a closing thread that was woken runs.
FairSpec ==
    /\ Spec
    /\ \A t \in Threads : WF_vars(Advance(t))
    /\ \A k \in Closers : WF_vars(CloseServer(k) /\ closer[k] # "idle")

-----------------------------------------------------------------------------
(* Properties *)

\* One request embeds a query under a configuration at a time, whatever
\* filters the searches for it have, and no lease outlives the load it was
\* taken for.
OneRequestPerQuery ==
    /\ \A t \in Threads : holds[t] # None =>
          Embeds(t) /\ embeddings[t].key[1] = QueryOf[calls[t].key]
    /\ \A t, u \in Threads :
          /\ holds[t] # None
          /\ holds[u] # None
          /\ embeddings[t].key = embeddings[u].key
          => t = u

\* Every search answers, although it may wait for a search that waits for
\* another one, fails or is refused a client.
EverySearchAnswers ==
    \A t \in Threads : calls[t].at # "idle" ~> calls[t].at = "answered"

=============================================================================
