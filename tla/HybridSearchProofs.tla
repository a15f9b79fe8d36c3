------------------------- MODULE HybridSearchProofs -------------------------
(***************************************************************************)
(* Proofs about HybridSearch, for any threads, filters, queries,           *)
(* configurations, clients and sizes of the caches: the two caches and the *)
(* leases together send one request for a query and configuration at a     *)
(* time, and nobody holds a client who is not loading a vector.  The       *)
(* lemmas about QueryCache are used twice.                                 *)
(***************************************************************************)
EXTENDS HybridSearch, SearchPartsProofs

VectorLoads == INSTANCE SearchPartsProofs
    WITH values <- vectors, pending <- vectorLoads, calls <- embeddings,
         Keys <- VectorKeys

\* The types of what the composition adds to its parts.
HandsTyped ==
    /\ current \in Clients \cup {None}
    /\ holds \in [Threads -> Clients \cup {None}]
    /\ outcome \in [Threads -> Outcomes \cup {None}]

\* A client is held by loaders of vectors whose request is not over.
HoldersEmbed == \A t \in Threads : holds[t] # None => Embeds(t)

\* A vector is looked up by the loader of a result, which asks for its query.
LoadersLookUp ==
    \A t \in Threads : embeddings[t].at # "idle" =>
        /\ calls[t].at = "loading"
        /\ embeddings[t].key[1] = QueryOf[calls[t].key]

\* The inductive invariant of the composition.
HybridInv ==
    /\ LoadsInv
    /\ VectorLoads!LoadsInv
    /\ HandsTyped
    /\ HoldersEmbed
    /\ LoadersLookUp

-----------------------------------------------------------------------------
(* The cache of the vectors *)

\* What the parts assume of their constants is true of the vectors' cache.
LEMMA VectorAssumption ==
    /\ MaxEntries \in Nat \ {0}
    /\ None \notin VectorKeys \cup VectorLoads!Futures \cup VectorLoads!Outcomes
    /\ VectorLoads!IsFiniteSet(Threads)
    /\ None \notin Clients \cup Configurations
  BY CacheAssumption, HybridAssumption, ClientsAssumption
     DEF Futures, Outcomes, VectorLoads!Futures, VectorLoads!Outcomes,
         IsFiniteSet, VectorLoads!IsFiniteSet

LEMMA VectorsInitInv == Vectors!CacheInit => VectorLoads!LoadsInv
  BY VectorLoads!CacheInitInv, VectorAssumption
     DEF Vectors!CacheInit, VectorLoads!CacheInit, Vectors!NoCall,
         VectorLoads!NoCall

\* A call keeps its place among the loads when only its outcome is there.
LEMMA VectorsAnswerInv ==
    ASSUME VectorLoads!LoadsInv, NEW t \in Threads, NEW k \in VectorKeys,
           NEW o \in Outcomes, embeddings[t].at = "idle",
           Vectors!Answer(t, k, o), vectorLoads' = vectorLoads
    PROVE  VectorLoads!LoadsInv'
  <1> DEFINE call == [at |-> "answered", key |-> k, outcome |-> o]
  <1>1. call \in VectorLoads!Calls /\ call.at = "answered" /\ call.key = k
    BY DEF VectorLoads!Calls, VectorLoads!Outcomes, Outcomes
  <1>2. embeddings' = [embeddings EXCEPT ![t] = call]
    BY DEF Vectors!Answer
  <1> HIDE DEF call
  <1> QED BY <1>1, <1>2, VectorLoads!BystanderInv, VectorAssumption

\* Looking a vector up keeps the loads of vectors sound.
LEMMA VectorsLookInv ==
    ASSUME VectorLoads!LoadsInv, NEW t \in Threads, NEW k \in VectorKeys,
           Vectors!Look(t, k)
    PROVE  VectorLoads!LoadsInv'
  <1>1. CASE Vectors!Hit(t, k)
    BY <1>1, VectorsAnswerInv DEF Vectors!Hit, Outcomes
  <1>2. CASE Vectors!Share(t, k) /\ vectorLoads[k].outcome = None
    BY <1>2, VectorLoads!WaitInv, VectorAssumption DEF Vectors!Share
  <1>3. CASE Vectors!Share(t, k) /\ vectorLoads[k].outcome # None
    <2>1. vectorLoads[k].outcome \in Outcomes
      BY <1>3 DEF Vectors!Share, VectorLoads!LoadsInv, VectorLoads!LoadsTypeOK,
         VectorLoads!Futures, VectorLoads!Outcomes, Outcomes
    <2> QED BY <1>3, <2>1, VectorsAnswerInv DEF Vectors!Share
  <1>4. CASE Vectors!Miss(t, k)
    <2>1. VectorLoads!Miss(t, k)
      BY <1>4 DEF Vectors!Miss, VectorLoads!Miss, Vectors!Cached,
         VectorLoads!Cached
    <2> QED BY <2>1, VectorLoads!MissInv, VectorAssumption
  <1> QED BY <1>1, <1>2, <1>3, <1>4 DEF Vectors!Look

\* A future of a vector gets its outcome.
LEMMA VectorsSettleInv ==
    ASSUME VectorLoads!LoadsInv, NEW t \in Threads, NEW o \in Outcomes,
           embeddings[t].at \in {"loading", "stored"}, Vectors!Settle(t, o)
    PROVE  VectorLoads!LoadsInv'
  <1>1. VectorLoads!Settle(t, o) /\ o \in VectorLoads!Outcomes
    BY DEF Vectors!Settle, VectorLoads!Settle, Outcomes, VectorLoads!Outcomes
  <1> QED BY <1>1, VectorLoads!SettleInv, VectorAssumption

\* So do the ends of a load.
LEMMA VectorsLoadedInv ==
    ASSUME VectorLoads!LoadsInv, NEW t \in Threads,
           Vectors!Store(t) \/ Vectors!SetException(t)
    PROVE  VectorLoads!LoadsInv'
  <1>1. CASE Vectors!Store(t)
    BY <1>1, VectorLoads!StoreInv, VectorAssumption
       DEF Vectors!Store, Vectors!Goto
  <1>2. CASE Vectors!SetException(t)
    BY <1>2, VectorsSettleInv DEF Vectors!SetException, Outcomes
  <1> QED BY <1>1, <1>2

LEMMA VectorsProceedInv ==
    ASSUME VectorLoads!LoadsInv, NEW t \in Threads, Vectors!Proceed(t)
    PROVE  VectorLoads!LoadsInv'
  <1>1. CASE Vectors!SetResult(t)
    BY <1>1, VectorsSettleInv DEF Vectors!SetResult, Outcomes
  <1>2. CASE Vectors!Pop(t)
    <2>1. VectorLoads!Pop(t)
      BY <1>2 DEF Vectors!Pop, VectorLoads!Pop, Vectors!Goto, VectorLoads!Goto
    <2> QED BY <2>1, VectorLoads!PopInv, VectorAssumption
  <1> QED BY <1>1, <1>2 DEF Vectors!Proceed

LEMMA VectorsReturnInv ==
    ASSUME VectorLoads!LoadsInv, NEW t \in Threads, Vectors!Return(t)
    PROVE  VectorLoads!LoadsInv'
  <1>1. Vectors!NoCall \in VectorLoads!Calls /\ Vectors!NoCall.at = "idle"
    BY DEF Vectors!NoCall, VectorLoads!Calls
  <1> QED BY <1>1, VectorLoads!BystanderInv, VectorAssumption
          DEF Vectors!Return

-----------------------------------------------------------------------------
(* How a call moves *)

\* A look-up that is not idle any more is one for its key, and no other call
\* has moved.
LEMMA VectorsLookMoves ==
    ASSUME VectorLoads!LoadsInv, NEW t \in Threads, NEW k \in VectorKeys,
           Vectors!Look(t, k)
    PROVE  /\ embeddings[t].at = "idle"
           /\ embeddings'[t].key = k
           /\ \A u \in Threads \ {t} : embeddings'[u] = embeddings[u]
  <1>1. embeddings \in [Threads -> VectorLoads!Calls]
    BY DEF VectorLoads!LoadsInv, VectorLoads!LoadsTypeOK
  <1> QED BY <1>1 DEF Vectors!Look, Vectors!Hit, Vectors!Share, Vectors!Miss,
          Vectors!Answer

\* Every other step of a vector's load keeps the keys; it wakes those who wait
\* and moves nobody else.
LEMMA VectorsLoadMoves ==
    ASSUME VectorLoads!LoadsInv, NEW t \in Threads,
           \/ Vectors!Store(t) \/ Vectors!SetException(t)
           \/ Vectors!Proceed(t)
    PROVE  /\ embeddings[t].at \in {"loading", "stored", "resolved"}
           /\ \A u \in Threads :
                 /\ embeddings'[u].key = embeddings[u].key
                 /\ embeddings[u].at = "idle" => embeddings'[u] = embeddings[u]
                 /\ u # t /\ embeddings[u].at = "loading" =>
                        embeddings'[u] = embeddings[u]
  <1>1. embeddings \in [Threads -> VectorLoads!Calls]
    BY DEF VectorLoads!LoadsInv, VectorLoads!LoadsTypeOK
  <1>2. CASE Vectors!Store(t)
    BY <1>1, <1>2 DEF Vectors!Store, Vectors!Goto, VectorLoads!Calls
  <1>3. CASE Vectors!SetException(t)
    BY <1>1, <1>3 DEF Vectors!SetException, Vectors!Settle, VectorLoads!Calls
  <1>4. CASE Vectors!SetResult(t)
    BY <1>1, <1>4 DEF Vectors!SetResult, Vectors!Settle, VectorLoads!Calls
  <1>5. CASE Vectors!Pop(t)
    BY <1>1, <1>5 DEF Vectors!Pop, Vectors!Goto, VectorLoads!Calls
  <1> QED BY <1>2, <1>3, <1>4, <1>5 DEF Vectors!Proceed

\* A step of a thread in the cache of the results leaves the loaders alone, but
\* the one that moves.
LEMMA LoadMoves ==
    ASSUME LoadsInv, NEW t \in Threads,
           \/ \E k \in Keys : Look(t, k)
           \/ Store(t) \/ SetException(t) \/ Proceed(t) \/ Return(t)
    PROVE  \A u \in Threads \ {t} :
               calls[u].at = "loading" => calls'[u] = calls[u]
  <1>1. calls \in [Threads -> Calls]
    BY DEF LoadsInv, LoadsTypeOK
  <1>2. CASE \E k \in Keys : Look(t, k)
    BY <1>1, <1>2 DEF Look, Hit, Share, Miss, Answer
  <1>3. CASE Store(t) \/ Return(t) \/ Pop(t)
    BY <1>1, <1>3 DEF Store, Return, Pop, Goto
  <1>4. CASE SetException(t) \/ SetResult(t)
    BY <1>1, <1>4 DEF SetException, SetResult, Settle
  <1> QED BY <1>2, <1>3, <1>4 DEF Proceed

\* Such a step keeps the loads of results sound, and what the loaders do.
LEMMA ResultStepInv ==
    ASSUME HybridInv, NEW t \in Threads,
           \/ \E k \in Keys : Look(t, k)
           \/ Store(t) \/ SetException(t) \/ Proceed(t) \/ Return(t),
           embeddings'[t].at = "idle",
           \A u \in Threads \ {t} : embeddings'[u] = embeddings[u]
    PROVE  LoadsInv' /\ LoadersLookUp'
  <1>1. CacheNext
    BY DEF CacheNext
  <1>2. LoadsInv'
    BY <1>1, CacheNextInv DEF HybridInv
  <1>3. \A u \in Threads \ {t} :
            calls[u].at = "loading" => calls'[u] = calls[u]
    BY LoadMoves DEF HybridInv
  <1>4. LoadersLookUp'
    BY <1>3 DEF HybridInv, LoadersLookUp
  <1> QED BY <1>2, <1>4

-----------------------------------------------------------------------------
(* Inductive steps *)

LEMMA HybridInitInv == Init => HybridInv
  <1> SUFFICES ASSUME Init PROVE HybridInv
    OBVIOUS
  <1>1. LoadsInv /\ VectorLoads!LoadsInv
    BY CacheInitInv, VectorsInitInv DEF Init
  <1>2. HandsTyped /\ HoldersEmbed
    BY DEF Init, LeasesInit, HandsTyped, HoldersEmbed
  <1>3. LoadersLookUp
    BY DEF Init, LoadersLookUp, Vectors!CacheInit, Vectors!NoCall
  <1> QED BY <1>1, <1>2, <1>3 DEF HybridInv

\* A step that leaves the loads and the hands alone keeps the invariant.
LEMMA LoadsUnchangedInv ==
    ASSUME HybridInv, UNCHANGED <<pending, calls, vectorLoads, embeddings>>
    PROVE  LoadsInv' /\ VectorLoads!LoadsInv' /\ LoadersLookUp'
  <1>1. LoadsInv'
    BY EntriesInv DEF HybridInv
  <1>2. VectorLoads!LoadsInv'
    BY VectorLoads!EntriesInv, VectorAssumption DEF HybridInv
  <1>3. LoadersLookUp'
    BY DEF HybridInv, LoadersLookUp
  <1> QED BY <1>1, <1>2, <1>3

LEMMA SearchInv ==
    ASSUME HybridInv, NEW t \in Threads, NEW k \in Keys, Search(t, k)
    PROVE  HybridInv'
  <1>1. Look(t, k) /\ UNCHANGED <<vectorVars, clientVars, outcome>>
    BY DEF Search
  <1>2. calls[t].at = "idle"
    BY <1>1 DEF Look, Hit, Share, Miss
  <1>3. embeddings[t].at = "idle"
    BY <1>2 DEF HybridInv, LoadersLookUp
  <1>4. LoadsInv' /\ LoadersLookUp'
    BY <1>1, <1>3, ResultStepInv DEF vectorVars
  <1>5. VectorLoads!LoadsInv'
    BY <1>1, VectorLoads!EntriesInv, VectorAssumption
       DEF HybridInv, vectorVars
  <1>6. HandsTyped' /\ HoldersEmbed'
    BY <1>1 DEF HybridInv, HandsTyped, HoldersEmbed, Embeds, clientVars, leaseVars,
       vectorVars
  <1> QED BY <1>4, <1>5, <1>6 DEF HybridInv

LEMMA LookUpVectorInv ==
    ASSUME HybridInv, NEW t \in Threads, LookUpVector(t)
    PROVE  HybridInv'
  <1>0. PICK m \in Configurations : Vectors!Look(t, <<QueryOf[calls[t].key], m>>)
    BY DEF LookUpVector
  <1> DEFINE q == <<QueryOf[calls[t].key], m>>
  <1>1. /\ calls[t].at = "loading" /\ Vectors!Look(t, q)
        /\ UNCHANGED <<cacheVars, clientVars, outcome>>
    BY <1>0 DEF LookUpVector
  <1>2. q \in VectorKeys /\ q[1] = QueryOf[calls[t].key]
    BY <1>1, LoadIsPending, HybridAssumption DEF HybridInv, VectorKeys
  <1> HIDE DEF q
  <1>3. /\ embeddings[t].at = "idle"
        /\ embeddings'[t].key = q
        /\ \A u \in Threads \ {t} : embeddings'[u] = embeddings[u]
    BY <1>1, <1>2, VectorsLookMoves DEF HybridInv
  <1>4. VectorLoads!LoadsInv'
    BY <1>1, <1>2, VectorsLookInv DEF HybridInv
  <1>5. LoadsInv'
    BY <1>1, EntriesInv DEF HybridInv, cacheVars
  <1>6. LoadersLookUp'
    BY <1>1, <1>2, <1>3 DEF HybridInv, LoadersLookUp, cacheVars
  <1>7. holds[t] = None
    BY <1>3 DEF HybridInv, HoldersEmbed, Embeds
  <1>8. HandsTyped' /\ HoldersEmbed'
    BY <1>1, <1>3, <1>7 DEF HybridInv, HandsTyped, HoldersEmbed, Embeds,
       clientVars, leaseVars
  <1> QED BY <1>4, <1>5, <1>6, <1>8 DEF HybridInv

\* A loader that fails before it looks a vector up.
LEMMA LoaderFailsInv ==
    ASSUME HybridInv, NEW t \in Threads, LoaderFails(t)
    PROVE  HybridInv'
  <1>1. /\ SetException(t) /\ embeddings[t].at = "idle"
        /\ UNCHANGED <<vectorVars, clientVars, outcome>>
    BY DEF LoaderFails
  <1>2. LoadsInv' /\ LoadersLookUp'
    BY <1>1, ResultStepInv DEF vectorVars
  <1>3. VectorLoads!LoadsInv'
    BY <1>1, VectorLoads!EntriesInv, VectorAssumption
       DEF HybridInv, vectorVars
  <1>4. HandsTyped' /\ HoldersEmbed'
    BY <1>1 DEF HybridInv, HandsTyped, HoldersEmbed, Embeds, clientVars, leaseVars,
       vectorVars
  <1> QED BY <1>2, <1>3, <1>4 DEF HybridInv

\* The configuration of a vector that is being loaded.
LEMMA LoadIsConfigured ==
    ASSUME HybridInv, NEW t \in Threads, Embeds(t)
    PROVE  embeddings[t].key[2] \in Configurations
  <1>1. embeddings[t].key \in VectorKeys
    BY VectorLoads!LoadIsPending, VectorAssumption DEF HybridInv, Embeds
  <1> QED BY <1>1 DEF VectorKeys

LEMMA AcquireInv ==
    ASSUME HybridInv, NEW t \in Threads, Acquire(t)
    PROVE  HybridInv'
  <1>1. PICK k \in Configurations :
            Reuse(t, k) \/ \E c \in Clients : Rotate(t, k, c)
    BY LoadIsConfigured DEF Acquire
  <1>2. /\ Embeds(t)
        /\ outcome' = [outcome EXCEPT ![t] =
                          IF holds'[t] = None THEN "error" ELSE None]
        /\ UNCHANGED <<cacheVars, vectorVars>>
    BY DEF Acquire
  <1>3. /\ current' \in Clients \cup {None}
        /\ \/ holds' = holds /\ holds[t] = None
           \/ \E c \in Clients : holds' = [holds EXCEPT ![t] = c]
    <2>1. CASE Reuse(t, k)
      BY <2>1 DEF Reuse, Serves, Lease, HybridInv,
         HandsTyped
    <2>2. ASSUME NEW c \in Clients, Rotate(t, k, c) PROVE <1>3!:
      BY <2>2 DEF Rotate, Lease
    <2> QED BY <1>1, <2>1, <2>2
  <1>4. holds' \in [Threads -> Clients \cup {None}]
        /\ \A u \in Threads \ {t} : holds'[u] = holds[u]
    BY <1>3 DEF HybridInv, HandsTyped
  <1>5. HandsTyped'
    BY <1>2, <1>3, <1>4 DEF HybridInv, HandsTyped, Outcomes
  <1>6. HoldersEmbed'
    BY <1>2, <1>4 DEF HybridInv, HandsTyped, HoldersEmbed, Embeds, vectorVars
  <1> QED BY <1>2, <1>5, <1>6, LoadsUnchangedInv
          DEF HybridInv, cacheVars, vectorVars

LEMMA AcquireFailsInv ==
    ASSUME HybridInv, NEW t \in Threads, AcquireFails(t)
    PROVE  HybridInv'
  <1>1. /\ holds[t] = None
        /\ outcome' = [outcome EXCEPT ![t] = "error"]
        /\ UNCHANGED <<cacheVars, vectorVars, clientVars>>
    BY DEF AcquireFails
  <1>2. HandsTyped' /\ HoldersEmbed'
    BY <1>1 DEF HybridInv, HandsTyped, HoldersEmbed, Embeds, Outcomes,
       clientVars, leaseVars, vectorVars
  <1> QED BY <1>1, <1>2, LoadsUnchangedInv
          DEF HybridInv, cacheVars, vectorVars

LEMMA RequestEndsInv ==
    ASSUME HybridInv, NEW t \in Threads, RequestEnds(t)
    PROVE  HybridInv'
  <1>1. PICK o \in {"value", "error"} : outcome' = [outcome EXCEPT ![t] = o]
    BY DEF RequestEnds
  <1>2. /\ holds' = [holds EXCEPT ![t] = None]
        /\ current' = current
        /\ UNCHANGED <<cacheVars, vectorVars>>
    BY DEF RequestEnds, Release
  <1>3. HandsTyped' /\ HoldersEmbed'
    BY <1>1, <1>2 DEF HybridInv, HandsTyped, HoldersEmbed, Embeds, Outcomes,
       vectorVars
  <1> QED BY <1>2, <1>3, LoadsUnchangedInv
          DEF HybridInv, cacheVars, vectorVars

\* A step of a vector's load after its request.
LEMMA VectorStepInv ==
    ASSUME HybridInv, NEW t \in Threads, holds[t] = None,
           \/ Vectors!Store(t) \/ Vectors!SetException(t)
           \/ Vectors!Proceed(t),
           \A u \in Threads \ {t} : outcome'[u] = outcome[u],
           outcome' \in [Threads -> Outcomes \cup {None}],
           UNCHANGED <<cacheVars, clientVars>>
    PROVE  HybridInv'
  <1>1. /\ embeddings[t].at \in {"loading", "stored", "resolved"}
        /\ \A u \in Threads :
              /\ embeddings'[u].key = embeddings[u].key
              /\ embeddings[u].at = "idle" => embeddings'[u] = embeddings[u]
              /\ u # t /\ embeddings[u].at = "loading" =>
                     embeddings'[u] = embeddings[u]
    BY VectorsLoadMoves DEF HybridInv
  <1>2. VectorLoads!LoadsInv'
    BY VectorsLoadedInv, VectorsProceedInv DEF HybridInv
  <1>3. LoadsInv'
    BY EntriesInv DEF HybridInv, cacheVars
  <1>4. HandsTyped'
    BY DEF HybridInv, HandsTyped, clientVars, leaseVars
  <1>5. LoadersLookUp'
    BY <1>1 DEF HybridInv, LoadersLookUp, cacheVars
  <1>6. HoldersEmbed'
    BY <1>1 DEF HybridInv, HoldersEmbed, Embeds, clientVars, leaseVars
  <1> QED BY <1>2, <1>3, <1>4, <1>5, <1>6 DEF HybridInv

LEMMA VectorLoadedInv ==
    ASSUME HybridInv, NEW t \in Threads, VectorLoaded(t)
    PROVE  HybridInv'
  <1>1. /\ outcome[t] # None
        /\ Vectors!Store(t) \/ Vectors!SetException(t)
        /\ outcome' = [outcome EXCEPT ![t] = None]
        /\ UNCHANGED <<cacheVars, clientVars>>
    BY CacheAssumption DEF VectorLoaded, Outcomes
  <1>2. holds[t] = None
    BY <1>1 DEF HybridInv, HoldersEmbed, Embeds
  <1>3. /\ \A u \in Threads \ {t} : outcome'[u] = outcome[u]
        /\ outcome' \in [Threads -> Outcomes \cup {None}]
    BY <1>1 DEF HybridInv, HandsTyped
  <1> QED BY <1>1, <1>2, <1>3, VectorStepInv

LEMMA VectorProceedsInv ==
    ASSUME HybridInv, NEW t \in Threads, VectorProceeds(t)
    PROVE  HybridInv'
  <1>1. /\ Vectors!Proceed(t)
        /\ UNCHANGED <<cacheVars, clientVars, outcome>>
    BY DEF VectorProceeds
  <1>2. embeddings[t].at # "loading"
    BY <1>1 DEF Vectors!Proceed, Vectors!SetResult, Vectors!Pop
  <1>3. holds[t] = None
    BY <1>2 DEF HybridInv, HoldersEmbed, Embeds
  <1>4. /\ \A u \in Threads \ {t} : outcome'[u] = outcome[u]
        /\ outcome' \in [Threads -> Outcomes \cup {None}]
    BY <1>1 DEF HybridInv, HandsTyped
  <1> QED BY <1>1, <1>3, <1>4, VectorStepInv

LEMMA ResultLoadedInv ==
    ASSUME HybridInv, NEW t \in Threads, ResultLoaded(t)
    PROVE  HybridInv'
  <1>1. /\ Vectors!Return(t)
        /\ Store(t) \/ SetException(t)
        /\ UNCHANGED <<vectors, vectorLoads, clientVars, outcome>>
    BY DEF ResultLoaded
  <1>2. embeddings[t].at = "answered"
        /\ embeddings' = [embeddings EXCEPT ![t] = Vectors!NoCall]
    BY <1>1 DEF Vectors!Return
  <1>3. embeddings'[t].at = "idle"
        /\ \A u \in Threads \ {t} : embeddings'[u] = embeddings[u]
    BY <1>2 DEF HybridInv, VectorLoads!LoadsInv, VectorLoads!LoadsTypeOK,
       Vectors!NoCall
  <1>4. LoadsInv' /\ LoadersLookUp'
    BY <1>1, <1>3, ResultStepInv
  <1>5. VectorLoads!LoadsInv'
    BY <1>1, VectorsReturnInv DEF HybridInv
  <1>6. holds[t] = None
    BY <1>2 DEF HybridInv, HoldersEmbed, Embeds
  <1>7. HandsTyped' /\ HoldersEmbed'
    BY <1>1, <1>3, <1>6 DEF HybridInv, HandsTyped, HoldersEmbed, Embeds,
       clientVars, leaseVars
  <1> QED BY <1>4, <1>5, <1>7 DEF HybridInv

\* The caller of a result that is loaded or known, or has its answer.
LEMMA ResultProceedsInv ==
    ASSUME HybridInv, NEW t \in Threads, ResultProceeds(t) \/ Answered(t)
    PROVE  HybridInv'
  <1>1. /\ Proceed(t) \/ Return(t)
        /\ UNCHANGED <<vectorVars, clientVars, outcome>>
    BY DEF ResultProceeds, Answered
  <1>2. calls[t].at # "loading"
    BY <1>1 DEF Proceed, SetResult, Pop, Return
  <1>3. embeddings[t].at = "idle"
    BY <1>2 DEF HybridInv, LoadersLookUp
  <1>4. LoadsInv' /\ LoadersLookUp'
    BY <1>1, <1>3, ResultStepInv DEF vectorVars
  <1>5. VectorLoads!LoadsInv'
    BY <1>1, VectorLoads!EntriesInv, VectorAssumption
       DEF HybridInv, vectorVars
  <1>6. HandsTyped' /\ HoldersEmbed'
    BY <1>1 DEF HybridInv, HandsTyped, HoldersEmbed, Embeds, clientVars, leaseVars,
       vectorVars
  <1> QED BY <1>4, <1>5, <1>6 DEF HybridInv

LEMMA CloseInv ==
    ASSUME HybridInv, NEW k \in Closers, CloseServer(k)
    PROVE  HybridInv'
  <1>1. Shut(k) /\ UNCHANGED <<cacheVars, vectorVars, outcome>>
    BY DEF CloseServer
  <1>2. holds' = holds /\ current' \in {current, None}
    BY <1>1 DEF Shut, Close, Drain, CloseAgain,
       Finish, Wait, leaseVars
  <1>3. HandsTyped' /\ HoldersEmbed'
    BY <1>1, <1>2 DEF HybridInv, HandsTyped, HoldersEmbed, Embeds, vectorVars
  <1> QED BY <1>1, <1>3, LoadsUnchangedInv
          DEF HybridInv, cacheVars, vectorVars

LEMMA EntryLapsesInv ==
    ASSUME HybridInv, EntryLapses
    PROVE  HybridInv'
  <1>1. UNCHANGED <<pending, calls, vectorLoads, embeddings>>
        /\ UNCHANGED <<clientVars, outcome>>
    BY DEF EntryLapses, Lapse, Vectors!Lapse, cacheVars, vectorVars
  <1>2. HandsTyped' /\ HoldersEmbed'
    BY <1>1 DEF HybridInv, HandsTyped, HoldersEmbed, Embeds, clientVars, leaseVars
  <1> QED BY <1>1, <1>2, LoadsUnchangedInv DEF HybridInv

LEMMA HybridStutterInv == HybridInv /\ UNCHANGED vars => HybridInv'
  <1> SUFFICES ASSUME HybridInv, UNCHANGED vars PROVE HybridInv'
    OBVIOUS
  <1>1. HandsTyped' /\ HoldersEmbed'
    BY DEF HybridInv, HandsTyped, HoldersEmbed, Embeds, vars, clientVars, leaseVars,
       vectorVars
  <1> QED BY <1>1, LoadsUnchangedInv
          DEF HybridInv, vars, cacheVars, vectorVars

LEMMA HybridNextInv == HybridInv /\ [Next]_vars => HybridInv'
  <1> SUFFICES ASSUME HybridInv, Next PROVE HybridInv'
    BY HybridStutterInv
  <1>1. ASSUME NEW t \in Threads, Advance(t) PROVE HybridInv'
    BY <1>1, LookUpVectorInv, LoaderFailsInv, AcquireInv, AcquireFailsInv, RequestEndsInv,
       VectorLoadedInv, VectorProceedsInv, ResultLoadedInv, ResultProceedsInv
       DEF Advance
  <1> QED BY <1>1, SearchInv, ResultProceedsInv, CloseInv, EntryLapsesInv
          DEF Next

-----------------------------------------------------------------------------
(* Theorems *)

\* The loads of results and vectors and the leases fit together, for any
\* threads, filters, queries and configurations (legal_search_service._hybrid_search).
THEOREM SearchesAreSound == Spec => []HybridInv
  BY HybridInitInv, HybridNextInv, PTL DEF Spec

\* One request embeds a query under a configuration at a time, for a search
\* that asks for it, and no
\* client is held beyond the load it was taken for.
THEOREM QueriesAreEmbeddedOnce == Spec => []OneRequestPerQuery
  <1>1. HybridInv => OneRequestPerQuery
    <2> SUFFICES ASSUME HybridInv PROVE OneRequestPerQuery
      OBVIOUS
    <2>1. ASSUME NEW t \in Threads, holds[t] # None
          PROVE  /\ Embeds(t)
                 /\ embeddings[t].key[1] = QueryOf[calls[t].key]
                 /\ vectorLoads[embeddings[t].key].owner = t
      BY <2>1, VectorLoads!LoadIsPending, VectorAssumption
         DEF HybridInv, HoldersEmbed, LoadersLookUp, Embeds
    <2> QED BY <2>1 DEF OneRequestPerQuery
  <1> QED BY <1>1, SearchesAreSound, PTL

\* In the composition, too, a result has one load, nobody waits for a load
\* that is over, and failures are forgotten.
THEOREM SharedResultsAreSound ==
    Spec => [](OneLoad /\ WaitersAreServed /\ FailuresAreForgotten)
  <1>1. HybridInv => OneLoad /\ WaitersAreServed /\ FailuresAreForgotten
    BY DEF HybridInv, LoadsInv
  <1> QED BY <1>1, SearchesAreSound, PTL

-----------------------------------------------------------------------------
(* The parts in the composition *)

\* What a thread does is a step of each part, or leaves the part alone.
LEMMA AdvanceOfParts ==
    ASSUME HybridInv, NEW t \in Threads, Advance(t)
    PROVE  /\ [CacheNext]_cacheVars
           /\ [Vectors!CacheNext]_vectorVars
           /\ [LeasesNext]_clientVars
  <1>1. CASE LookUpVector(t)
    <2>1. PICK m \in Configurations : Vectors!Look(t, <<QueryOf[calls[t].key], m>>)
      BY <1>1 DEF LookUpVector
    <2>2. <<QueryOf[calls[t].key], m>> \in VectorKeys
      BY <1>1, LoadIsPending, HybridAssumption
         DEF LookUpVector, HybridInv, VectorKeys
    <2> QED BY <1>1, <2>1, <2>2 DEF LookUpVector, Vectors!CacheNext
  <1>2. CASE Acquire(t)
    <2>1. Embeds(t)
      BY <1>2 DEF Acquire
    <2> QED BY <1>2, <2>1, LoadIsConfigured DEF Acquire, LeasesNext, Embed
  <1>9. CASE LoaderFails(t)
    BY <1>9 DEF LoaderFails, CacheNext
  <1>3. CASE AcquireFails(t)
    BY <1>3 DEF AcquireFails
  <1>4. CASE RequestEnds(t)
    BY <1>4 DEF RequestEnds, LeasesNext, Embed
  <1>5. CASE VectorLoaded(t)
    BY <1>5 DEF VectorLoaded, Vectors!CacheNext
  <1>6. CASE VectorProceeds(t)
    BY <1>6 DEF VectorProceeds, Vectors!CacheNext
  <1>7. CASE ResultLoaded(t)
    BY <1>7 DEF ResultLoaded, CacheNext, Vectors!CacheNext
  <1>8. CASE ResultProceeds(t)
    BY <1>8 DEF ResultProceeds, CacheNext
  <1> QED BY <1>1, <1>2, <1>3, <1>4, <1>5, <1>6, <1>7, <1>8, <1>9 DEF Advance

\* So is every other step.
LEMMA StepOfParts ==
    HybridInv /\ [Next]_vars => /\ [CacheNext]_cacheVars
                                /\ [Vectors!CacheNext]_(Vectors!cacheVars)
                                /\ [LeasesNext]_clientVars
  <1> DEFINE Parts == /\ [CacheNext]_cacheVars
                      /\ [Vectors!CacheNext]_vectorVars
                      /\ [LeasesNext]_clientVars
  <1> SUFFICES ASSUME HybridInv, [Next]_vars
               PROVE  /\ [CacheNext]_cacheVars
                      /\ [Vectors!CacheNext]_(Vectors!cacheVars)
                      /\ [LeasesNext]_clientVars
    OBVIOUS
  <1>1. ASSUME NEW t \in Threads, NEW k \in Keys, Search(t, k) PROVE Parts
    BY <1>1 DEF Search, CacheNext
  <1>2. ASSUME NEW t \in Threads, Advance(t) PROVE Parts
    BY <1>2, AdvanceOfParts
  <1>3. ASSUME NEW t \in Threads, Answered(t) PROVE Parts
    BY <1>3 DEF Answered, CacheNext
  <1>4. ASSUME NEW k \in Closers, CloseServer(k) PROVE Parts
    BY <1>4 DEF CloseServer, LeasesNext
  <1>5. ASSUME EntryLapses PROVE Parts
    BY <1>5 DEF EntryLapses, CacheNext, Vectors!CacheNext
  <1>6. ASSUME UNCHANGED vars PROVE Parts
    BY <1>6 DEF vars
  <1> HIDE DEF Parts
  <1>7. Parts
    BY <1>1, <1>2, <1>3, <1>4, <1>5, <1>6 DEF Next
  <1>8. UNCHANGED vectorVars => UNCHANGED Vectors!cacheVars
    BY DEF vectorVars, Vectors!cacheVars
  <1> QED BY <1>7, <1>8 DEF Parts

\* Both caches and the leases keep their specifications in a search, so that
\* what is proved of them alone is true of them there.
THEOREM PartsKeepTheirSpecs ==
    Spec => CacheSpec /\ Vectors!CacheSpec /\ LeasesSpec
  <1>1. Init => CacheInit /\ Vectors!CacheInit /\ LeasesInit
    BY DEF Init
  <1> QED BY <1>1, StepOfParts, SearchesAreSound, PTL
          DEF Spec, CacheSpec, Vectors!CacheSpec, LeasesSpec

\* So no client is closed under a search that uses it, and no client is kept
\* that is neither current nor in use.
THEOREM SearchesUseOpenClients == Spec => [](InUseIsOpen /\ NothingLeaks)
  <1>1. LeasesInv => InUseIsOpen /\ NothingLeaks
    BY DEF LeasesInv
  <1> QED BY <1>1, PartsKeepTheirSpecs, LeasesAreSound, PTL

=============================================================================
