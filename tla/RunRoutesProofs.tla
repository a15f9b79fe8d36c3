--------------------------- MODULE RunRoutesProofs ---------------------------
(***************************************************************************)
(* Proofs about the routes of a run (mock_api.py), the one that starts it  *)
(* and the one that follows it.                                            *)
(*                                                                         *)
(* RunAdmission, for any processes, requests, principals, bodies and runs: *)
(* a key starts one run while its reservation lasts, the answers to it     *)
(* agree and can be read, and every slot is given back once.               *)
(*                                                                         *)
(* EventStream, for any number of connections and repeated calls: a        *)
(* session shows the run's events once and in order, and says of the run   *)
(* what the run says.  The run is any that keeps RunLifecycle.             *)
(***************************************************************************)
EXTENDS RunAdmission, EventStream, FiniteSetTheorems, TLAPS

-----------------------------------------------------------------------------
(*                             RunAdmission                                *)

\* A run that was generated.
Known(r) == origin[r] # None

-----------------------------------------------------------------------------
(* The inductive invariant *)

\* What Redis holds of runs agrees with who asked for them.
RedisInv ==
    /\ \A k \in Keys : reservation[k] # None =>
          origin[reservation[k].run] = [key |-> k, body |-> reservation[k].body]
    /\ legacy # None =>
          /\ legacy.run = LegacyRun /\ Known(LegacyRun)
          /\ origin[LegacyRun].body = legacy.body
    /\ \A m \in late : origin[m.run] = [key |-> m.key, body |-> m.body]

\* What a request q knows at each of its awaits.
RequestInv(q) ==
    /\ q.run # None =>
          /\ origin[q.run] = [key |-> q.key, body |-> q.body]
          /\ q.run \notin launched \cup released
    /\ q.at \in {"reserve", "reread", "created"} => q.run # None
    /\ q.at \in {"read", "reread"} => q.found # None
    /\ q.at = "reread" => q.found.body = q.body
    /\ q.at = "created" => Stands(q.key, q.run)
    /\ q.found # None =>
          /\ Known(q.found.run) /\ origin[q.found.run].body = q.found.body
          /\ Stands(q.key, q.found.run)

\* Every request has its own run.
RequestsInv ==
    /\ \A c \in Clients : requests[c] # None => RequestInv(requests[c])
    /\ \A c, d \in Clients :
          (requests[c] # None /\ requests[d] # None /\ c # d
             /\ requests[c].run # None)
          => requests[c].run # requests[d].run

\* The tasks are started runs whose slot is held, each in one process.
TasksInv ==
    /\ \A r \in Runs : r \in launched \cup released => Known(r)
    /\ \A p \in Processes : tasks[p] \subseteq launched \ released
    /\ \A p1, p2 \in Processes : p1 # p2 => tasks[p1] \cap tasks[p2] = {}

\* A process remembers a request's run only if it handles that request.
LocalInv ==
    \A p \in Processes : \A r \in local[p] :
        /\ Known(r)
        /\ \A c \in Clients :
              requests[c] # None /\ requests[c].run = r => requests[c].process = p

\* The counters count.
SlotsInv ==
    \A p \in Processes :
        IsFiniteSet(Holders(p)) /\ used[p] = Cardinality(Holders(p))

AdmissionInv ==
    /\ TypeOK
    /\ RedisInv
    /\ RequestsInv
    /\ TasksInv
    /\ LocalInv
    /\ SlotsInv
    /\ StartedOncePerKey
    /\ AnswersAgree
    /\ ReservedRunReadable
    /\ LocalRunsAccounted

-----------------------------------------------------------------------------
(* Steps of Redis *)

\* A reservation ends only with the run it names marked as lapsed.
Lasting ==
    /\ lapsed \subseteq lapsed'
    /\ \A k \in Keys : reservation[k] # None =>
          reservation'[k] = reservation[k] \/ reservation[k].run \in lapsed'
    /\ legacy # None => legacy' = legacy \/ legacy.run \in lapsed'

\* What any step may do to Redis.
RedisStep ==
    /\ Lasting
    /\ reservation' \in [Keys -> Reservation \cup {None}]
    /\ legacy' \in Reservation \cup {None}
    /\ snapshots' \in SUBSET Runs
    /\ late' \in SUBSET [key: Keys, body: Bodies, run: Runs]
    /\ lapsed' \in SUBSET Runs
    /\ RedisInv' /\ ReservedRunReadable'

\* No run that is known is forgotten or asked for again.
Remembered == \A r \in Runs : Known(r) => origin'[r] = origin[r]

\* Stands and RequestInv after a step, of a key or a request named before it.
StandsNext(k, r) ==
    \/ r \in lapsed'
    \/ k \in Keys /\ reservation'[k] # None /\ reservation'[k].run = r
    \/ legacy' # None /\ legacy'.run = r

RequestNext(q) ==
    /\ q.run # None =>
          /\ origin'[q.run] = [key |-> q.key, body |-> q.body]
          /\ q.run \notin launched' \cup released'
    /\ q.at \in {"reserve", "reread", "created"} => q.run # None
    /\ q.at \in {"read", "reread"} => q.found # None
    /\ q.at = "reread" => q.found.body = q.body
    /\ q.at = "created" => StandsNext(q.key, q.run)
    /\ q.found # None =>
          /\ origin'[q.found.run] # None
          /\ origin'[q.found.run].body = q.found.body
          /\ StandsNext(q.key, q.found.run)

RequestsNext == \A c \in Clients : requests'[c] # None => RequestNext(requests'[c])

LEMMA RequestsNextIs ==
    ASSUME RequestsNext
    PROVE  \A c \in Clients : (requests[c] # None => RequestInv(requests[c]))'
  BY DEF RequestsNext, RequestNext, RequestInv, StandsNext, Stands, Known

LEMMA StandsLasts ==
    ASSUME Lasting, NEW k, NEW r, Stands(k, r)
    PROVE  StandsNext(k, r)
  BY DEF Lasting, Stands, StandsNext

LEMMA RequestLasts ==
    ASSUME Lasting, Remembered, NEW q \in Request, RequestInv(q),
           q.run # None => q.run \notin launched' \cup released'
    PROVE  RequestNext(q)
  <1>1. q.run \in Runs \cup {None} /\ q.found \in Reservation \cup {None}
        /\ q.key \in Keys /\ q.body \in Bodies
    BY DEF Request
  <1>2. q.run # None => origin'[q.run] = [key |-> q.key, body |-> q.body]
    <2> SUFFICES ASSUME q.run # None
                 PROVE  origin'[q.run] = [key |-> q.key, body |-> q.body]
      OBVIOUS
    <2>1. q.run \in Runs /\ origin[q.run] = [key |-> q.key, body |-> q.body]
      BY <1>1 DEF RequestInv
    <2>2. origin[q.run] # None
      BY <2>1, <1>1, NoneAssumption DEF Origins
    <2> QED BY <2>1, <2>2 DEF Remembered, Known
  <1>3. q.at = "created" => StandsNext(q.key, q.run)
    BY StandsLasts DEF RequestInv
  <1>4. q.found # None =>
            /\ origin'[q.found.run] # None /\ origin'[q.found.run].body = q.found.body
            /\ StandsNext(q.key, q.found.run)
    <2> SUFFICES ASSUME q.found # None
                 PROVE  /\ origin'[q.found.run] # None /\ origin'[q.found.run].body = q.found.body
                        /\ StandsNext(q.key, q.found.run)
      OBVIOUS
    <2>1. q.found.run \in Runs
      BY <1>1 DEF Reservation
    <2>2. Known(q.found.run) /\ origin[q.found.run].body = q.found.body
          /\ Stands(q.key, q.found.run)
      BY DEF RequestInv
    <2> QED BY <2>1, <2>2, StandsLasts DEF Remembered, Known
  <1> QED BY <1>2, <1>3, <1>4 DEF RequestInv, RequestNext

\* A step that leaves Redis alone.
LEMMA QuietIsRedisStep ==
    ASSUME AdmissionInv, UNCHANGED <<redisVars, lapsed, origin>>
    PROVE  RedisStep
  BY DEF AdmissionInv, TypeOK, RedisStep, Lasting, RedisInv, Known,
     ReservedRunReadable, redisVars

\* The reservation script, run now or late.
LEMMA WriteIsRedisStep ==
    ASSUME AdmissionInv, NEW k \in Keys, NEW b \in Bodies, NEW r \in Runs,
           origin[r] = [key |-> k, body |-> b], ReservationWritten(k, b, r),
           UNCHANGED <<legacy, lapsed, origin>>, late' \subseteq late
    PROVE  RedisStep
  <1> USE DEF AdmissionInv
  <1>0. reservation \in [Keys -> Reservation \cup {None}]
    BY DEF TypeOK
  <1>1. CASE reservation[k] # None
    <2>1. UNCHANGED <<reservation, snapshots>>
      BY <1>1 DEF ReservationWritten
    <2> QED BY <2>1 DEF TypeOK, RedisStep, Lasting, RedisInv, Known,
            ReservedRunReadable
  <1>2. CASE reservation[k] = None
    <2>1. /\ reservation' = [reservation EXCEPT ![k] = [run |-> r, body |-> b]]
          /\ snapshots' = snapshots \cup {r}
      BY <1>2 DEF ReservationWritten
    <2>2. [run |-> r, body |-> b] \in Reservation
      BY DEF Reservation
    <2>3. reservation' \in [Keys -> Reservation \cup {None}]
      BY <1>0, <2>1, <2>2
    <2>4. /\ reservation'[k] = [run |-> r, body |-> b]
          /\ \A j \in Keys \ {k} : reservation'[j] = reservation[j]
      BY <1>0, <2>1
    <2>5. Lasting
      BY <1>2, <2>4 DEF Lasting
    <2>6. RedisInv'
      BY <2>4 DEF RedisInv, Known
    <2>7. ReservedRunReadable'
      BY <2>1, <2>4 DEF ReservedRunReadable
    <2> QED BY <2>1, <2>3, <2>5, <2>6, <2>7 DEF RedisStep, TypeOK
  <1> QED BY <1>1, <1>2

LEMMA ExpiryIsRedisStep ==
    ASSUME AdmissionInv, NEW k \in Keys, ExpireReservation(k)
    PROVE  RedisStep
  <1> USE DEF AdmissionInv
  <1> DEFINE r == reservation[k].run
  <1>0. reservation \in [Keys -> Reservation \cup {None}] /\ reservation[k] # None
    BY DEF TypeOK, ExpireReservation
  <1>1. /\ reservation' = [reservation EXCEPT ![k] = None]
        /\ lapsed' = lapsed \cup {r}
        /\ snapshots' = snapshots \ {r} \/ snapshots' = snapshots
        /\ UNCHANGED <<legacy, late, origin>>
    BY DEF ExpireReservation
  <1>2. r \in Runs
    BY <1>0 DEF Reservation
  <1>3. /\ reservation'[k] = None
        /\ \A j \in Keys \ {k} : reservation'[j] = reservation[j]
    BY <1>0, <1>1
  <1>4. Lasting
    BY <1>1, <1>3 DEF Lasting
  <1>5. RedisInv'
    BY <1>1, <1>3 DEF RedisInv, Known
  <1>6. \A j \in Keys \ {k} : reservation[j] # None => reservation[j].run # r
    <2>1. ASSUME NEW j \in Keys \ {k}, reservation[j] # None, reservation[j].run = r
          PROVE  FALSE
      <3>1. origin[r] = [key |-> k, body |-> reservation[k].body]
        BY <1>0 DEF RedisInv
      <3>2. origin[r] = [key |-> j, body |-> reservation[j].body]
        BY <2>1 DEF RedisInv
      <3> QED BY <3>1, <3>2
    <2> QED BY <2>1
  <1>7. ReservedRunReadable'
    BY <1>1, <1>3, <1>6 DEF ReservedRunReadable
  <1>8. reservation' \in [Keys -> Reservation \cup {None}]
    BY <1>0, <1>1
  <1> QED BY <1>1, <1>2, <1>4, <1>5, <1>7, <1>8 DEF RedisStep, TypeOK

LEMMA LegacyExpiryIsRedisStep ==
    ASSUME AdmissionInv, ExpireLegacy
    PROVE  RedisStep
  BY AdmissionAssumption DEF AdmissionInv, ExpireLegacy, TypeOK, RedisStep, Lasting,
     RedisInv, Known, ReservedRunReadable

LEMMA SnapshotExpiryIsRedisStep ==
    ASSUME AdmissionInv, NEW r \in Runs, ExpireSnapshot(r)
    PROVE  RedisStep
  <1> USE DEF AdmissionInv
  <1>1. /\ snapshots' = snapshots \ {r}
        /\ \A k \in Keys : reservation[k] # None => reservation[k].run # r
        /\ UNCHANGED <<reservation, legacy, late, origin, lapsed>>
    BY DEF ExpireSnapshot, processVars, historyVars
  <1>2. ReservedRunReadable'
    BY <1>1 DEF ReservedRunReadable
  <1>3. RedisInv' /\ Lasting
    BY <1>1 DEF RedisInv, Known, Lasting
  <1> QED BY <1>1, <1>2, <1>3 DEF RedisStep, TypeOK

-----------------------------------------------------------------------------
(* Slots *)

\* A slot is held by a task or by a request with a run.
LEMMA InHolders ==
    /\ \A p, r : r \in Holders(p) <=>
          \/ r \in tasks[p]
          \/ r # None /\ \E c \in Clients :
                requests[c] # None /\ requests[c].process = p /\ requests[c].run = r
    /\ \A p, r : r \in Holders(p)' <=>
          \/ r \in tasks'[p]
          \/ r # None /\ \E c \in Clients :
                requests'[c] # None /\ requests'[c].process = p /\ requests'[c].run = r
  BY DEF Holders, Waiting

\* While everybody keeps what they hold the counters stay right.
LEMMA SameHolders ==
    ASSUME SlotsInv, UNCHANGED used,
           \A p \in Processes : Holders(p)' = Holders(p)
    PROVE  SlotsInv'
  BY DEF SlotsInv

\* A request's run is held by its process, and by no other.
LEMMA RequestHolds ==
    ASSUME AdmissionInv, NEW c \in Clients, requests[c] # None,
           requests[c].run # None
    PROVE  /\ requests[c].run \in Runs \ (launched \cup released)
           /\ requests[c].process \in Processes
           /\ \A p \in Processes :
                 requests[c].run \in Holders(p) <=> p = requests[c].process
  <1> USE DEF AdmissionInv
  <1>1. requests[c] \in Request
    BY DEF TypeOK
  <1>2. requests[c].run \in Runs \ (launched \cup released)
        /\ requests[c].process \in Processes
    BY <1>1 DEF Request, RequestsInv, RequestInv
  <1>3. \A p \in Processes : requests[c].run \notin tasks[p]
    BY <1>2 DEF TasksInv
  <1>4. \A d \in Clients : requests[d] # None /\ requests[d].run = requests[c].run
                           => d = c
    BY DEF RequestsInv
  <1>5. \A p \in Processes :
            requests[c].run \in Holders(p) <=> p = requests[c].process
    BY <1>3, <1>4, InHolders
  <1> QED BY <1>2, <1>5

\* One holder fewer.
LEMMA HolderLeaves ==
    ASSUME AdmissionInv, NEW p \in Processes, NEW r \in Holders(p), r \in Runs \ released,
           Release(p, r),
           \A s \in Processes : Holders(s)' =
               IF s = p THEN Holders(s) \ {r} ELSE Holders(s)
    PROVE  SlotsInv' /\ used' \in [Processes -> 0..Capacity]
  <1> USE DEF AdmissionInv
  <1>1. used \in [Processes -> 0..Capacity]
    BY DEF TypeOK
  <1>2. used' = [used EXCEPT ![p] = @ - 1]
    BY DEF Release
  <1>3. IsFiniteSet(Holders(p)) /\ used[p] = Cardinality(Holders(p))
    BY DEF SlotsInv
  <1>4. /\ IsFiniteSet(Holders(p) \ {r})
        /\ Cardinality(Holders(p) \ {r}) = Cardinality(Holders(p)) - 1
    BY <1>3, FS_RemoveElement
  <1>5. Cardinality(Holders(p) \ {r}) \in Nat
    BY <1>4, FS_CardinalityType
  <1>6. used'[p] = used[p] - 1 /\ used'[p] \in 0..Capacity
    BY <1>1, <1>2, <1>3, <1>4, <1>5, AdmissionAssumption
  <1>7. used' \in [Processes -> 0..Capacity]
    BY <1>1, <1>2, <1>6
  <1>8. SlotsInv'
    <2> SUFFICES ASSUME NEW s \in Processes
                 PROVE  IsFiniteSet(Holders(s)') /\ used'[s] = Cardinality(Holders(s)')
      BY DEF SlotsInv
    <2>1. CASE s = p
      BY <2>1, <1>3, <1>4, <1>6
    <2>2. CASE s # p
      <3>1. used'[s] = used[s] /\ Holders(s)' = Holders(s)
        BY <2>2, <1>1, <1>2
      <3> QED BY <3>1 DEF SlotsInv
    <2> QED BY <2>1, <2>2
  <1> QED BY <1>7, <1>8

-----------------------------------------------------------------------------
(* Steps that only change Redis *)

\* What was started and answered stays right.
LEMMA HistoryLasts ==
    ASSUME AdmissionInv, Lasting, UNCHANGED <<origin, launched, tasks>>
    PROVE  /\ StartedOncePerKey'
           /\ \A a \in answers : /\ origin'[a.run] = [key |-> a.key, body |-> a.body]
                                 /\ StandsNext(a.key, a.run)
  <1>1. StartedOncePerKey'
    <2>1. \A r \in launched : StandsNext(origin[r].key, r)
      BY StandsLasts DEF AdmissionInv, StartedOncePerKey
    <2> QED BY <2>1 DEF AdmissionInv, StartedOncePerKey, Stands, StandsNext
  <1>2. \A a \in answers : /\ origin'[a.run] = [key |-> a.key, body |-> a.body]
                           /\ StandsNext(a.key, a.run)
    BY StandsLasts DEF AdmissionInv, AnswersAgree
  <1> QED BY <1>1, <1>2

\* A process goes on remembering the right runs.
LEMMA LocalLasts ==
    ASSUME AdmissionInv, UNCHANGED launched, answers \subseteq answers',
           \A p \in Processes : local'[p] \subseteq local[p],
           \A p \in Processes : \A r \in local'[p] :
               r \in Holders(p) => r \in Holders(p)' \/ AnsweredUnstarted(r)'
    PROVE  LocalRunsAccounted'
  <1>1. \A r : AnsweredUnstarted(r) => AnsweredUnstarted(r)'
    BY DEF AnsweredUnstarted
  <1> QED BY <1>1 DEF AdmissionInv, LocalRunsAccounted

LEMMA RedisStepKeeps ==
    ASSUME AdmissionInv, RedisStep,
           UNCHANGED <<processVars, origin, launched, answers>>
    PROVE  AdmissionInv'
  <1> USE DEF AdmissionInv, processVars
  <1>0. Lasting /\ RedisInv' /\ ReservedRunReadable' /\ Remembered
    BY DEF RedisStep, Remembered
  <1>1. TypeOK'
    BY DEF RedisStep, TypeOK
  <1>2. RequestsInv'
    <2>1. RequestsNext
      <3> SUFFICES ASSUME NEW c \in Clients, requests[c] # None
                   PROVE  RequestNext(requests[c])
        BY DEF RequestsNext
      <3>1. requests[c] \in Request /\ RequestInv(requests[c])
        BY DEF TypeOK, RequestsInv
      <3>2. requests[c].run # None => requests[c].run \notin launched' \cup released'
        BY <3>1 DEF RequestInv
      <3> QED BY <3>1, <3>2, <1>0, RequestLasts
    <2> QED BY <2>1, RequestsNextIs DEF RequestsInv
  <1>3. TasksInv' /\ LocalInv'
    BY DEF TasksInv, LocalInv, Known
  <1>4. \A p : Holders(p)' = Holders(p)
    BY DEF Holders, Waiting
  <1>5. SlotsInv'
    BY <1>4, SameHolders
  <1>6. StartedOncePerKey' /\ AnswersAgree'
    BY <1>0, HistoryLasts DEF AnswersAgree, Stands, StandsNext
  <1>7. LocalRunsAccounted'
    BY <1>4, LocalLasts
  <1> QED BY <1>0, <1>1, <1>2, <1>3, <1>5, <1>6, <1>7

-----------------------------------------------------------------------------
(* Steps of a request *)

\* All requests keep what they know when one of them goes from one await to
\* another, or is over.
LEMMA OthersLast ==
    ASSUME AdmissionInv, Lasting, Remembered, NEW c \in Clients,
           \A d \in Clients \ {c} : requests'[d] = requests[d],
           \A d \in Clients \ {c} : requests[d] # None /\ requests[d].run # None
               => requests[d].run \notin launched' \cup released'
    PROVE  \A d \in Clients \ {c} : requests'[d] # None => RequestNext(requests'[d])
  <1> SUFFICES ASSUME NEW d \in Clients \ {c}, requests[d] # None
               PROVE  RequestNext(requests[d])
    OBVIOUS
  <1>1. requests[d] \in Request /\ RequestInv(requests[d])
    BY DEF AdmissionInv, TypeOK, RequestsInv
  <1> QED BY <1>1, RequestLasts

\* A request goes to its next await.
LEMMA GotoKeeps ==
    ASSUME AdmissionInv, RedisStep, NEW c \in Clients, NEW q \in Request,
           requests[c] # None, Goto(c, q),
           q.process = requests[c].process, q.key = requests[c].key,
           q.body = requests[c].body, q.run = requests[c].run,
           RequestNext(q),
           UNCHANGED <<used, local, tasks, released, origin, launched, answers>>
    PROVE  AdmissionInv'
  <1> USE DEF AdmissionInv
  <1>0. Lasting /\ RedisInv' /\ ReservedRunReadable' /\ Remembered
    BY DEF RedisStep, Remembered
  <1>1. requests \in [Clients -> Request \cup {None}] /\ q # None
    BY NoneAssumption DEF TypeOK
  <1>2. /\ requests' \in [Clients -> Request \cup {None}]
        /\ requests'[c] = q
        /\ \A d \in Clients \ {c} : requests'[d] = requests[d]
    BY <1>1 DEF Goto
  <1>3. TypeOK'
    BY <1>2 DEF RedisStep, TypeOK
  <1>4. RequestsInv'
    <2>1. \A d \in Clients \ {c} : requests[d] # None /\ requests[d].run # None
              => requests[d].run \notin launched' \cup released'
      BY DEF RequestsInv, RequestInv
    <2>2. \A d \in Clients \ {c} : requests'[d] # None => RequestNext(requests'[d])
      BY <1>0, <1>2, <2>1, OthersLast
    <2>3. RequestsNext
      BY <1>2, <2>2 DEF RequestsNext
    <2> QED BY <1>1, <1>2, <2>3, RequestsNextIs DEF RequestsInv
  <1>5. TasksInv'
    BY DEF TasksInv, Known
  <1>6. LocalInv'
    BY <1>1, <1>2 DEF LocalInv, Known
  <1>7. \A p \in Processes : Holders(p)' = Holders(p)
    <2> SUFFICES ASSUME NEW p \in Processes, NEW r
                 PROVE  r \in Holders(p)' <=> r \in Holders(p)
      OBVIOUS
    <2> QED BY <1>1, <1>2, InHolders
  <1>8. SlotsInv'
    BY <1>7, SameHolders
  <1>9. StartedOncePerKey' /\ AnswersAgree'
    BY <1>0, HistoryLasts DEF AnswersAgree, Stands, StandsNext
  <1>10. LocalRunsAccounted'
    BY <1>7, LocalLasts
  <1> QED BY <1>0, <1>3, <1>4, <1>5, <1>6, <1>8, <1>9, <1>10

\* A request is over; its run, if it has one, is forgotten or was answered.
LEMMA LeaveKeeps ==
    ASSUME AdmissionInv, RedisStep, NEW c \in Clients, requests[c] # None,
           NEW forgotten \in SUBSET (Runs \cup {None}), Leave(c, forgotten),
           UNCHANGED <<tasks, origin, launched>>,
           answers' \in SUBSET [key: Keys, body: Bodies, run: Runs], AnswersAgree',
           answers \subseteq answers',
           requests[c].run # None /\ requests[c].run \notin forgotten
               => \E a \in answers' : a.run = requests[c].run
    PROVE  AdmissionInv'
  <1> USE DEF AdmissionInv
  <1>0. Lasting /\ RedisInv' /\ ReservedRunReadable' /\ Remembered
    BY DEF RedisStep, Remembered
  <1>1. requests \in [Clients -> Request \cup {None}]
    BY DEF TypeOK
  <1>2. PICK q \in Request : q = requests[c]
    BY <1>1
  <1>3. /\ requests' = [requests EXCEPT ![c] = None]
        /\ local' = [local EXCEPT ![q.process] = @ \ forgotten]
        /\ Release(q.process, q.run)
        /\ released' = released \cup ({q.run} \ {None})
    BY <1>2 DEF Leave, Goto, Release
  <1>4. /\ requests' \in [Clients -> Request \cup {None}]
        /\ requests'[c] = None
        /\ \A d \in Clients \ {c} : requests'[d] = requests[d]
    BY <1>1, <1>3
  <1>5. /\ q.process \in Processes /\ q.run \in Runs \cup {None}
        /\ q.key \in Keys /\ q.body \in Bodies /\ RequestInv(q)
    BY <1>2 DEF Request, RequestsInv
  <1>6. local' \in [Processes -> SUBSET Runs]
        /\ \A p \in Processes : local'[p] \subseteq local[p]
        /\ local'[q.process] = local[q.process] \ forgotten
    BY <1>3, <1>5 DEF TypeOK
  <1>7. RequestsInv'
    <2>1. \A d \in Clients \ {c} : requests[d] # None /\ requests[d].run # None
              => requests[d].run \notin launched' \cup released'
      BY <1>2, <1>3 DEF RequestsInv, RequestInv
    <2>2. \A d \in Clients \ {c} : requests'[d] # None => RequestNext(requests'[d])
      BY <1>0, <1>4, <2>1, OthersLast
    <2>3. RequestsNext
      BY <1>4, <2>2 DEF RequestsNext
    <2> QED BY <1>4, <2>3, RequestsNextIs DEF RequestsInv
  <1>8. q.run # None => Known(q.run) /\ q.run \notin launched
    BY <1>5, NoneAssumption DEF RequestInv, Known, Origins
  <1>9. TasksInv'
    BY <1>3, <1>8 DEF TasksInv, Known
  <1>10. LocalInv'
    BY <1>4, <1>6 DEF LocalInv, Known
  <1>11. SlotsInv' /\ used' \in [Processes -> 0..Capacity]
    <2>1. CASE q.run = None
      <3>1. UNCHANGED used
        BY <2>1, <1>3, NoneAssumption DEF Release
      <3>2. \A p \in Processes : Holders(p)' = Holders(p)
        <4> SUFFICES ASSUME NEW p \in Processes, NEW r
                     PROVE  r \in Holders(p)' <=> r \in Holders(p)
          OBVIOUS
        <4> QED BY <2>1, <1>2, <1>4, InHolders
      <3> QED BY <3>1, <3>2, SameHolders DEF TypeOK
    <2>2. CASE q.run # None
      <3>1. /\ q.run \in Runs \ (launched \cup released)
            /\ \A p \in Processes : q.run \in Holders(p) <=> p = q.process
        BY <2>2, <1>2, RequestHolds
      <3>2. \A p \in Processes : Holders(p)' =
                IF p = q.process THEN Holders(p) \ {q.run} ELSE Holders(p)
        <4>1. ASSUME NEW p \in Processes, NEW r
              PROVE  r \in Holders(p)' <=> r \in Holders(p) /\ r # q.run
          <5>1. \A d \in Clients : requests[d] # None /\ requests[d].run = q.run => d = c
            BY <2>2, <1>2 DEF RequestsInv
          <5>2. q.run \notin tasks[p]
            BY <3>1 DEF TasksInv
          <5> QED BY <5>1, <5>2, <1>2, <1>4, InHolders
        <4>2. \A p \in Processes : Holders(p)' = Holders(p) \ {q.run}
          BY <4>1
        <4>3. \A p \in Processes \ {q.process} : Holders(p) \ {q.run} = Holders(p)
          BY <3>1
        <4> QED BY <4>2, <4>3
      <3> QED BY <3>1, <3>2, <1>3, <1>5, HolderLeaves
    <2> QED BY <2>1, <2>2
  <1>12. TypeOK'
    <2>1. released' \in SUBSET Runs
      BY <1>3, <1>5 DEF TypeOK
    <2> QED BY <2>1, <1>4, <1>6, <1>11 DEF RedisStep, TypeOK
  <1>13. StartedOncePerKey'
    BY <1>0, HistoryLasts
  <1>14. LocalRunsAccounted'
    <2>1. ASSUME NEW p \in Processes, NEW r \in local'[p], r \in Holders(p)
          PROVE  r \in Holders(p)' \/ AnsweredUnstarted(r)'
      <3>1. CASE r # q.run \/ q.run = None
        BY <2>1, <3>1, <1>2, <1>4, InHolders
      <3>2. CASE r = q.run /\ q.run # None
        <4>1. p = q.process
          BY <2>1, <3>2, <1>2, RequestHolds
        <4>2. q.run \notin forgotten
          BY <2>1, <3>2, <4>1, <1>6
        <4>3. \E a \in answers' : a.run = q.run
          BY <3>2, <4>2, <1>2
        <4> QED BY <3>2, <4>3, <1>8 DEF AnsweredUnstarted
      <3> QED BY <3>1, <3>2
    <2> QED BY <2>1, <1>6, LocalLasts
  <1> QED BY <1>0, <1>7, <1>9, <1>10, <1>11, <1>12, <1>13, <1>14

\* The two ways to be over.
LEMMA RejectKeeps ==
    ASSUME AdmissionInv, RedisStep, NEW c \in Clients, requests[c] # None,
           Reject(c), UNCHANGED <<tasks, origin, launched>>
    PROVE  AdmissionInv'
  <1>1. /\ requests[c].run \in Runs \cup {None}
        /\ answers' = answers /\ Leave(c, {requests[c].run})
    BY DEF AdmissionInv, TypeOK, Request, Reject
  <1>2. answers' \in SUBSET [key: Keys, body: Bodies, run: Runs] /\ AnswersAgree'
    BY <1>1, HistoryLasts
       DEF AdmissionInv, TypeOK, AnswersAgree, RedisStep, Stands, StandsNext
  <1>3. {requests[c].run} \in SUBSET (Runs \cup {None})
    BY <1>1
  <1> QED BY <1>1, <1>2, <1>3, LeaveKeeps

LEMMA AnswerKeeps ==
    ASSUME AdmissionInv, RedisStep, NEW c \in Clients, requests[c] # None,
           NEW r \in Runs, AnswerExisting(c, r), UNCHANGED <<tasks, origin, launched>>,
           origin[r] = [key |-> requests[c].key, body |-> requests[c].body],
           Stands(requests[c].key, r)
    PROVE  AdmissionInv'
  <1> DEFINE q == requests[c]
  <1>1. /\ q.run \in Runs \cup {None} /\ q.key \in Keys /\ q.body \in Bodies
        /\ Leave(c, {q.run} \ {r})
        /\ answers' = answers \cup {[key |-> q.key, body |-> q.body, run |-> r]}
    BY DEF AdmissionInv, TypeOK, Request, AnswerExisting
  <1>2. StandsNext(q.key, r)
    BY StandsLasts DEF RedisStep
  <1>3. answers' \in SUBSET [key: Keys, body: Bodies, run: Runs]
    BY <1>1 DEF AdmissionInv, TypeOK
  <1>4. AnswersAgree'
    <2>1. \A a \in answers' : /\ origin'[a.run] = [key |-> a.key, body |-> a.body]
                             /\ StandsNext(a.key, a.run)
      <3>1. \A a \in answers : /\ origin'[a.run] = [key |-> a.key, body |-> a.body]
                               /\ StandsNext(a.key, a.run)
        BY HistoryLasts DEF RedisStep
      <3>2. origin'[r] = [key |-> q.key, body |-> q.body]
        OBVIOUS
      <3>3. ASSUME NEW a \in answers'
            PROVE  /\ origin'[a.run] = [key |-> a.key, body |-> a.body]
                   /\ StandsNext(a.key, a.run)
        <4>1. CASE a \in answers
          BY <4>1, <3>1
        <4>2. CASE a = [key |-> q.key, body |-> q.body, run |-> r]
          <5>1. a.key = q.key /\ a.body = q.body /\ a.run = r
            BY <4>2
          <5> QED BY <5>1, <1>2, <3>2
        <4> QED BY <4>1, <4>2, <1>1
      <3> QED BY <3>3
    <2> QED BY <2>1 DEF AnswersAgree, Stands, StandsNext
  <1>5. {q.run} \ {r} \in SUBSET (Runs \cup {None})
    BY <1>1
  <1>6. answers \subseteq answers' /\ \E a \in answers' : a.run = r
    <2>1. [key |-> q.key, body |-> q.body, run |-> r] \in answers'
      BY <1>1
    <2>2. [key |-> q.key, body |-> q.body, run |-> r].run = r
      OBVIOUS
    <2> HIDE DEF q
    <2> QED BY <1>1, <2>1, <2>2
  <1>7. q.run # None /\ q.run \notin {q.run} \ {r} => \E a \in answers' : a.run = q.run
    BY <1>6
  <1> QED BY <1>1, <1>3, <1>4, <1>5, <1>6, <1>7, LeaveKeeps

-----------------------------------------------------------------------------
(* The actions *)

LEMMA InitAdmission == Init => AdmissionInv
  <1> SUFFICES ASSUME Init PROVE AdmissionInv
    OBVIOUS
  <1>1. PICK o \in Origins \cup {None} :
            /\ origin = [r \in Runs |-> IF r = LegacyRun THEN o ELSE None]
            /\ legacy = IF o = None THEN None
                        ELSE [run |-> LegacyRun, body |-> o.body]
            /\ snapshots = IF o = None THEN {} ELSE {LegacyRun}
            /\ launched = IF o = None THEN {} ELSE {LegacyRun}
    BY DEF Init
  <1>2. /\ reservation = [k \in Keys |-> None] /\ late = {} /\ released = {}
        /\ used = [p \in Processes |-> 0] /\ local = [p \in Processes |-> {}]
        /\ tasks = [p \in Processes |-> {}] /\ requests = [c \in Clients |-> None]
        /\ lapsed = {} /\ answers = {}
    BY DEF Init
  <1>3. o # None => o.body \in Bodies /\ [run |-> LegacyRun, body |-> o.body] \in Reservation
    BY AdmissionAssumption DEF Origins, Reservation
  <1>4. [run |-> LegacyRun, body |-> o.body] # None \/ o = None
    BY <1>3, NoneAssumption
  <1>5. TypeOK
    BY <1>1, <1>2, <1>3, AdmissionAssumption DEF TypeOK
  <1>6. RedisInv /\ RequestsInv
    BY <1>1, <1>2, <1>4, AdmissionAssumption DEF RedisInv, RequestsInv, Known
  <1>7. TasksInv /\ LocalInv /\ LocalRunsAccounted /\ ReservedRunReadable
    BY <1>1, <1>2, AdmissionAssumption
       DEF TasksInv, LocalInv, LocalRunsAccounted, ReservedRunReadable, Known
  <1>8. SlotsInv
    <2>1. \A p \in Processes : Holders(p) = {}
      BY <1>2 DEF Holders, Waiting
    <2> QED BY <2>1, <1>2, FS_EmptySet DEF SlotsInv
  <1>9. StartedOncePerKey /\ AnswersAgree
    BY <1>1, <1>2, <1>4 DEF StartedOncePerKey, AnswersAgree, Stands
  <1> QED BY <1>5, <1>6, <1>7, <1>8, <1>9 DEF AdmissionInv

LEMMA SubmitKeeps ==
    ASSUME AdmissionInv, NEW c \in Clients, NEW p \in Processes, NEW k \in Keys,
           NEW b \in Bodies, Submit(c, p, k, b)
    PROVE  AdmissionInv'
  <1> USE DEF AdmissionInv
  <1> DEFINE q == [at |-> "look", probe |-> "current", process |-> p, key |-> k,
                   body |-> b, run |-> None, found |-> None]
  <1>1. /\ requests[c] = None /\ Goto(c, q)
        /\ UNCHANGED <<redisVars, used, local, tasks, released, historyVars>>
    BY DEF Submit
  <1>2. UNCHANGED <<redisVars, used, local, tasks, released, origin, launched,
                    lapsed, answers>>
    BY <1>1 DEF historyVars
  <1>3. RedisStep
    BY <1>2, QuietIsRedisStep
  <1>4. Lasting /\ RedisInv' /\ ReservedRunReadable' /\ Remembered
    BY <1>2, <1>3 DEF RedisStep, Remembered
  <1>5. q \in Request
    BY DEF Request
  <1>6. /\ requests' \in [Clients -> Request \cup {None}]
        /\ requests'[c] = q /\ q # None
        /\ \A d \in Clients \ {c} : requests'[d] = requests[d]
    BY <1>1, <1>5, NoneAssumption DEF Goto, TypeOK
  <1>7. TypeOK'
    BY <1>2, <1>6 DEF TypeOK, redisVars
  <1>8. RequestsInv'
    <2>1. \A d \in Clients \ {c} : requests[d] # None /\ requests[d].run # None
              => requests[d].run \notin launched' \cup released'
      BY <1>2 DEF RequestsInv, RequestInv
    <2>2. \A d \in Clients \ {c} : requests'[d] # None => RequestNext(requests'[d])
      BY <1>4, <1>6, <2>1, OthersLast
    <2>3. RequestNext(q)
      BY DEF RequestNext
    <2>4. RequestsNext
      BY <1>6, <2>2, <2>3 DEF RequestsNext
    <2>5. requests'[c].run = None
      BY <1>6
    <2> QED BY <1>6, <2>4, <2>5, RequestsNextIs DEF RequestsInv
  <1>9. TasksInv'
    BY <1>2 DEF TasksInv, Known
  <1>10. LocalInv'
    <2>1. \A e \in Processes : \A r \in local[e] : r # None
      BY NoneAssumption DEF TypeOK
    <2>2. requests'[c].run = None
      BY <1>6
    <2> QED BY <1>2, <1>6, <2>1, <2>2 DEF LocalInv, Known
  <1>11. \A e \in Processes : Holders(e)' = Holders(e)
    <2> SUFFICES ASSUME NEW e \in Processes, NEW r
                 PROVE  r \in Holders(e)' <=> r \in Holders(e)
      OBVIOUS
    <2>1. requests'[c].run = None
      BY <1>6
    <2> QED BY <1>1, <1>2, <1>6, <2>1, InHolders
  <1>12. SlotsInv'
    BY <1>2, <1>11, SameHolders
  <1>13. StartedOncePerKey' /\ AnswersAgree'
    BY <1>2, <1>4, HistoryLasts DEF AnswersAgree, Stands, StandsNext
  <1>14. LocalRunsAccounted'
    BY <1>2, <1>11, LocalLasts
  <1> QED BY <1>4, <1>7, <1>8, <1>9, <1>10, <1>12, <1>13, <1>14

\* A request gets a slot and a run of its own.
LEMMA AdmitKeeps ==
    ASSUME AdmissionInv, NEW c \in Clients, requests[c] # None,
           requests[c].run = None, NEW r \in Runs \ {LegacyRun}, origin[r] = None,
           used[requests[c].process] < Capacity,
           origin' = [origin EXCEPT ![r] =
               [key |-> requests[c].key, body |-> requests[c].body]],
           local' = [local EXCEPT ![requests[c].process] = @ \cup {r}],
           Goto(c, [requests[c] EXCEPT !.at = "look", !.probe = "current",
                                       !.run = r, !.found = None]),
           used' = [used EXCEPT ![requests[c].process] = @ + 1],
           UNCHANGED <<redisVars, tasks, released, launched, lapsed, answers>>
    PROVE  AdmissionInv'
  <1> USE DEF AdmissionInv, redisVars
  <1>0. /\ origin \in [Runs -> Origins \cup {None}]
        /\ requests \in [Clients -> Request \cup {None}]
        /\ local \in [Processes -> SUBSET Runs] /\ used \in [Processes -> 0..Capacity]
        /\ tasks \in [Processes -> SUBSET Runs] /\ launched \in SUBSET Runs
    BY DEF TypeOK
  <1>1. PICK q \in Request : q = requests[c]
    BY <1>0
  <1>2. /\ q.process \in Processes /\ q.key \in Keys /\ q.body \in Bodies
        /\ q.run = None
    BY <1>1 DEF Request
  <1>3. [key |-> q.key, body |-> q.body] \in Origins
    BY <1>2 DEF Origins
  <1>4. [key |-> q.key, body |-> q.body] # None /\ r # None
    BY <1>3, NoneAssumption
  <1>5. /\ origin' \in [Runs -> Origins \cup {None}]
        /\ origin'[r] = [key |-> q.key, body |-> q.body]
        /\ \A s \in Runs \ {r} : origin'[s] = origin[s]
    BY <1>0, <1>1, <1>3
  <1>6. Remembered
    BY <1>5 DEF Remembered, Known
  <1>7. PICK n \in Request : n = [q EXCEPT !.at = "look", !.probe = "current",
                                           !.run = r, !.found = None]
    <2>1. [q EXCEPT !.at = "look", !.probe = "current", !.run = r, !.found = None]
              \in Request
      BY DEF Request
    <2> QED BY <2>1
  <1>8. /\ n.at = "look" /\ n.run = r /\ n.found = None /\ n.process = q.process
        /\ n.key = q.key /\ n.body = q.body
    BY <1>7 DEF Request
  <1>9. /\ requests' \in [Clients -> Request \cup {None}]
        /\ requests'[c] = n /\ n # None
        /\ \A d \in Clients \ {c} : requests'[d] = requests[d]
    BY <1>0, <1>1, <1>7, NoneAssumption DEF Goto
  <1>10. r \notin launched /\ r \notin released /\ \A p \in Processes : r \notin local[p]
    BY <1>0 DEF TasksInv, LocalInv, Known
  <1>11. \A d \in Clients : requests[d] # None => requests[d].run # r
    <2> SUFFICES ASSUME NEW d \in Clients, requests[d] # None, requests[d].run = r
                 PROVE  FALSE
      OBVIOUS
    <2>1. /\ requests[d].key \in Keys /\ requests[d].body \in Bodies
          /\ origin[r] = [key |-> requests[d].key, body |-> requests[d].body]
      <3>1. requests[d] \in Request /\ RequestInv(requests[d])
        BY <1>0 DEF RequestsInv
      <3>2. requests[d].run # None
        BY <1>4
      <3> QED BY <3>1, <3>2 DEF Request, RequestInv
    <2>2. origin[r] \in Origins
      BY <2>1 DEF Origins
    <2> QED BY <2>2, NoneAssumption
  <1>12. Lasting
    BY DEF Lasting
  <1>13. RedisInv'
    <2>1. ASSUME NEW k \in Keys, reservation[k] # None
          PROVE  origin'[reservation[k].run] = [key |-> k, body |-> reservation[k].body]
      <3>1. reservation[k] \in Reservation
        BY <2>1 DEF TypeOK
      <3>2. reservation[k].run \in Runs /\ [key |-> k, body |-> reservation[k].body] \in Origins
        BY <3>1 DEF Reservation, Origins
      <3>3. origin[reservation[k].run] = [key |-> k, body |-> reservation[k].body]
        BY <2>1 DEF RedisInv
      <3>4. reservation[k].run # r
        BY <3>2, <3>3, NoneAssumption
      <3> QED BY <3>2, <3>3, <3>4, <1>5
    <2>2. ASSUME NEW m \in late
          PROVE  origin'[m.run] = [key |-> m.key, body |-> m.body]
      <3>1. m.run \in Runs /\ [key |-> m.key, body |-> m.body] \in Origins
        BY DEF TypeOK, Origins
      <3>2. origin[m.run] = [key |-> m.key, body |-> m.body]
        BY DEF RedisInv
      <3>3. m.run # r
        BY <3>1, <3>2, NoneAssumption
      <3> QED BY <3>1, <3>2, <3>3, <1>5
    <2>3. legacy # None => /\ legacy.run = LegacyRun /\ origin'[LegacyRun] # None
                           /\ origin'[LegacyRun].body = legacy.body
      BY <1>5, AdmissionAssumption DEF RedisInv, Known
    <2> QED BY <2>1, <2>2, <2>3 DEF RedisInv, Known
  <1>14. ReservedRunReadable'
    BY DEF ReservedRunReadable
  <1>15. RequestsInv'
    <2>1. \A d \in Clients \ {c} : requests[d] # None /\ requests[d].run # None
              => requests[d].run \notin launched' \cup released'
      BY DEF RequestsInv, RequestInv
    <2>2. \A d \in Clients \ {c} : requests'[d] # None => RequestNext(requests'[d])
      BY <1>6, <1>9, <1>12, <2>1, OthersLast
    <2>3. RequestNext(n)
      BY <1>5, <1>8, <1>10 DEF RequestNext
    <2>4. RequestsNext
      BY <1>9, <2>2, <2>3 DEF RequestsNext
    <2> QED BY <1>8, <1>9, <1>11, <2>4, RequestsNextIs DEF RequestsInv
  <1>16. TasksInv'
    BY <1>0, <1>4, <1>5 DEF TasksInv, Known
  <1>17. /\ local' \in [Processes -> SUBSET Runs]
         /\ local'[q.process] = local[q.process] \cup {r}
         /\ \A p \in Processes \ {q.process} : local'[p] = local[p]
    BY <1>0, <1>1, <1>2
  <1>18. LocalInv'
    <2> SUFFICES ASSUME NEW p \in Processes, NEW s \in local'[p]
                 PROVE  /\ origin'[s] # None
                        /\ \A d \in Clients : requests'[d] # None /\ requests'[d].run = s
                               => requests'[d].process = p
      BY DEF LocalInv, Known
    <2>1. CASE s = r
      <3>1. p = q.process
        BY <2>1, <1>10, <1>17
      <3> QED BY <2>1, <3>1, <1>4, <1>5, <1>8, <1>9, <1>11
    <2>2. CASE s # r
      <3>1. s \in local[p] /\ s \in Runs
        BY <2>2, <1>0, <1>17
      <3> QED BY <2>2, <3>1, <1>5, <1>8, <1>9 DEF LocalInv, Known
    <2> QED BY <2>1, <2>2
  <1>19. /\ Holders(q.process)' = Holders(q.process) \cup {r}
         /\ r \notin Holders(q.process)
         /\ \A p \in Processes \ {q.process} : Holders(p)' = Holders(p)
    <2>1. \A p \in Processes : r \notin tasks[p]
      BY <1>10 DEF TasksInv
    <2>2. r \notin Holders(q.process)
      BY <1>2, <1>11, <2>1, InHolders
    <2>3. ASSUME NEW p \in Processes, NEW s
          PROVE  s \in Holders(p)' <=> s \in Holders(p) \/ (s = r /\ p = q.process)
      <3>1. ASSUME s \in Holders(p)
            PROVE  s \in Holders(p)'
        <4>1. CASE s \in tasks[p]
          BY <4>1, InHolders
        <4>2. CASE s \notin tasks[p]
          <5>1. PICK d \in Clients : /\ requests[d] # None /\ requests[d].process = p
                                     /\ requests[d].run = s /\ s # None
            BY <3>1, <4>2, InHolders
          <5>2. d # c
            BY <5>1, <1>1, <1>2
          <5> QED BY <5>1, <5>2, <1>9, InHolders
        <4> QED BY <4>1, <4>2
      <3>2. ASSUME s = r, p = q.process
            PROVE  s \in Holders(p)'
        BY <3>2, <1>4, <1>8, <1>9, InHolders
      <3>3. ASSUME s \in Holders(p)'
            PROVE  s \in Holders(p) \/ (s = r /\ p = q.process)
        <4>1. CASE s \in tasks[p]
          BY <4>1, InHolders
        <4>2. CASE s \notin tasks[p]
          <5>1. PICK d \in Clients : /\ requests'[d] # None /\ requests'[d].process = p
                                     /\ requests'[d].run = s /\ s # None
            BY <3>3, <4>2, InHolders
          <5>2. CASE d = c
            BY <5>1, <5>2, <1>8, <1>9
          <5>3. CASE d # c
            BY <5>1, <5>3, <1>9, InHolders
          <5> QED BY <5>2, <5>3
        <4> QED BY <4>1, <4>2
      <3> QED BY <3>1, <3>2, <3>3
    <2>4. Holders(q.process)' = Holders(q.process) \cup {r}
      BY <1>2, <2>3
    <2>5. \A p \in Processes \ {q.process} : Holders(p)' = Holders(p)
      BY <2>3
    <2> QED BY <2>2, <2>4, <2>5
  <1>20. SlotsInv' /\ used' \in [Processes -> 0..Capacity]
    <2>1. IsFiniteSet(Holders(q.process)) /\ used[q.process] = Cardinality(Holders(q.process))
      BY <1>2 DEF SlotsInv
    <2>2. /\ IsFiniteSet(Holders(q.process)')
          /\ Cardinality(Holders(q.process)') = Cardinality(Holders(q.process)) + 1
      BY <1>19, <2>1, FS_AddElement
    <2>3. used'[q.process] = used[q.process] + 1 /\ used'[q.process] \in 0..Capacity
      BY <1>0, <1>1, <1>2, AdmissionAssumption
    <2>4. \A p \in Processes \ {q.process} : used'[p] = used[p]
      BY <1>0, <1>1, <1>2
    <2>5. used' \in [Processes -> 0..Capacity]
      BY <1>0, <1>1, <1>2, <2>3
    <2>6. SlotsInv'
      <3> SUFFICES ASSUME NEW p \in Processes
                   PROVE  IsFiniteSet(Holders(p)') /\ used'[p] = Cardinality(Holders(p)')
        BY DEF SlotsInv
      <3>1. CASE p = q.process
        <4>1. Holders(p)' = Holders(q.process)'
          BY <3>1
        <4> QED BY <3>1, <4>1, <2>1, <2>2, <2>3
      <3>2. CASE p # q.process
        BY <3>2, <1>19, <2>4 DEF SlotsInv
      <3> QED BY <3>1, <3>2
    <2> QED BY <2>5, <2>6
  <1>21. TypeOK'
    BY <1>5, <1>9, <1>17, <1>20 DEF TypeOK
  <1>22. StartedOncePerKey'
    <2>1. \A s \in launched : origin'[s] = origin[s]
      BY <1>0, <1>5, <1>10
    <2>2. \A s \in launched : StandsNext(origin'[s].key, s)
      BY <2>1, <1>12, StandsLasts DEF StartedOncePerKey
    <2> QED BY <2>2 DEF StartedOncePerKey, Stands, StandsNext
  <1>23. AnswersAgree'
    <2> SUFFICES ASSUME NEW a \in answers
                 PROVE  /\ origin'[a.run] = [key |-> a.key, body |-> a.body]
                        /\ StandsNext(a.key, a.run)
      BY DEF AnswersAgree, Stands, StandsNext
    <2>1. a.run \in Runs /\ [key |-> a.key, body |-> a.body] \in Origins
      BY DEF TypeOK, Origins
    <2>2. origin[a.run] = [key |-> a.key, body |-> a.body] /\ Stands(a.key, a.run)
      BY DEF AnswersAgree
    <2>3. a.run # r
      BY <2>1, <2>2, NoneAssumption
    <2> QED BY <2>1, <2>2, <2>3, <1>5, <1>12, StandsLasts
  <1>24. LocalRunsAccounted'
    <2> SUFFICES ASSUME NEW p \in Processes, NEW s \in local'[p]
                 PROVE  s \in Holders(p)' \/ AnsweredUnstarted(s)'
      BY DEF LocalRunsAccounted
    <2>1. CASE s = r
      <3>1. p = q.process
        BY <2>1, <1>10, <1>17
      <3> QED BY <2>1, <3>1, <1>4, <1>8, <1>9, InHolders
    <2>2. CASE s # r
      <3>1. s \in local[p] /\ s \in Runs
        BY <2>2, <1>0, <1>17
      <3>2. CASE s \in Holders(p)
        <4>1. s \in Holders(p)'
          BY <3>2, <1>2, <1>19
        <4> QED BY <4>1
      <3>3. CASE AnsweredUnstarted(s)
        BY <3>3, <1>5 DEF AnsweredUnstarted
      <3> QED BY <3>1, <3>2, <3>3 DEF LocalRunsAccounted
    <2> QED BY <2>1, <2>2
  <1> QED BY <1>13, <1>14, <1>15, <1>16, <1>18, <1>20, <1>21, <1>22, <1>23, <1>24

\* The slot goes from the request to its task.
LEMMA LaunchKeeps ==
    ASSUME AdmissionInv, NEW c \in Clients, Launch(c)
    PROVE  AdmissionInv'
  <1> USE DEF AdmissionInv
  <1>0. /\ requests[c] # None /\ requests[c].at = "created"
        /\ requests \in [Clients -> Request \cup {None}]
        /\ tasks \in [Processes -> SUBSET Runs] /\ local \in [Processes -> SUBSET Runs]
    BY DEF Launch, TypeOK
  <1>1. PICK q \in Request : q = requests[c]
    BY <1>0
  <1>2. /\ q.process \in Processes /\ q.key \in Keys /\ q.body \in Bodies
        /\ q.run \in Runs \cup {None} /\ RequestInv(q) /\ q.run # None
    BY <1>0, <1>1 DEF Request, RequestsInv, RequestInv
  <1>3. /\ q.run \in Runs /\ q.run \notin launched /\ q.run \notin released
        /\ origin[q.run] = [key |-> q.key, body |-> q.body]
        /\ Stands(q.key, q.run)
    BY <1>0, <1>1, <1>2 DEF RequestInv
  <1>4. /\ local' = [local EXCEPT ![q.process] = @ \cup {q.run}]
        /\ tasks' = [tasks EXCEPT ![q.process] = @ \cup {q.run}]
        /\ launched' = launched \cup {q.run}
        /\ answers' = answers \cup {[key |-> q.key, body |-> q.body, run |-> q.run]}
        /\ requests' = [requests EXCEPT ![c] = None]
        /\ UNCHANGED <<redisVars, used, released, origin, lapsed>>
    BY <1>1 DEF Launch, Goto
  <1>5. RedisStep
    BY <1>4, QuietIsRedisStep
  <1>6. Lasting /\ RedisInv' /\ ReservedRunReadable' /\ Remembered
    BY <1>4, <1>5 DEF RedisStep, Remembered
  <1>7. /\ requests' \in [Clients -> Request \cup {None}]
        /\ requests'[c] = None
        /\ \A d \in Clients \ {c} : requests'[d] = requests[d]
    BY <1>0, <1>4
  <1>8. /\ tasks' \in [Processes -> SUBSET Runs]
        /\ tasks'[q.process] = tasks[q.process] \cup {q.run}
        /\ \A p \in Processes \ {q.process} : tasks'[p] = tasks[p]
    BY <1>0, <1>2, <1>3, <1>4
  <1>9. /\ local' \in [Processes -> SUBSET Runs]
        /\ local'[q.process] = local[q.process] \cup {q.run}
        /\ \A p \in Processes \ {q.process} : local'[p] = local[p]
    BY <1>0, <1>2, <1>3, <1>4
  <1>10. \A d \in Clients : requests[d] # None /\ requests[d].run = q.run => d = c
    BY <1>0, <1>1, <1>2 DEF RequestsInv
  <1>11. \A p \in Processes : q.run \notin tasks[p]
    BY <1>3 DEF TasksInv
  <1>12. TypeOK'
    <2>1. answers' \in SUBSET [key: Keys, body: Bodies, run: Runs]
      BY <1>2, <1>3, <1>4 DEF TypeOK
    <2>2. launched' \in SUBSET Runs
      BY <1>3, <1>4 DEF TypeOK
    <2> QED BY <2>1, <2>2, <1>4, <1>7, <1>8, <1>9 DEF TypeOK, redisVars
  <1>13. RequestsInv'
    <2>1. \A d \in Clients \ {c} : requests[d] # None /\ requests[d].run # None
              => requests[d].run \notin launched' \cup released'
      BY <1>4, <1>10 DEF RequestsInv, RequestInv
    <2>2. \A d \in Clients \ {c} : requests'[d] # None => RequestNext(requests'[d])
      BY <1>6, <1>7, <2>1, OthersLast
    <2>3. RequestsNext
      BY <1>7, <2>2 DEF RequestsNext
    <2> QED BY <1>7, <2>3, RequestsNextIs DEF RequestsInv
  <1>14. TasksInv'
    <2>1. Known(q.run)
      <3>1. origin[q.run] \in Origins
        BY <1>2, <1>3 DEF Origins
      <3> QED BY <3>1, NoneAssumption DEF Known
    <2>2. \A r \in Runs : r \in launched' \cup released' => origin'[r] # None
      BY <1>4, <2>1 DEF TasksInv, Known
    <2>3. \A p \in Processes : tasks'[p] \subseteq launched' \ released'
      BY <1>3, <1>4, <1>8 DEF TasksInv
    <2>4. \A p1, p2 \in Processes : p1 # p2 => tasks'[p1] \cap tasks'[p2] = {}
      BY <1>8, <1>11 DEF TasksInv
    <2> QED BY <2>2, <2>3, <2>4 DEF TasksInv, Known
  <1>15. LocalInv'
    <2>1. origin[q.run] \in Origins
      BY <1>2, <1>3 DEF Origins
    <2>2. \A p \in Processes : \A r \in local'[p] :
              /\ origin'[r] # None
              /\ \A d \in Clients :
                    requests'[d] # None /\ requests'[d].run = r => requests'[d].process = p
      BY <2>1, <1>4, <1>7, <1>9, <1>10, NoneAssumption DEF LocalInv, Known
    <2> QED BY <2>2 DEF LocalInv, Known
  <1>16. \A p \in Processes : Holders(p)' = Holders(p)
    <2> SUFFICES ASSUME NEW p \in Processes, NEW r
                 PROVE  r \in Holders(p)' <=> r \in Holders(p)
      OBVIOUS
    <2>1. CASE r = q.run
      <3>1. r \in Holders(p) <=> p = q.process
        BY <2>1, <1>0, <1>1, <1>2, RequestHolds
      <3>2. \A d \in Clients : requests'[d] # None => requests'[d].run # q.run
        BY <1>7, <1>10
      <3>3. r \in Holders(p)' <=> r \in tasks'[p]
        BY <2>1, <3>2, InHolders
      <3> QED BY <2>1, <3>1, <3>3, <1>8, <1>11
    <2>2. CASE r # q.run
      <3>1. r \in tasks'[p] <=> r \in tasks[p]
        BY <2>2, <1>8
      <3> QED BY <2>2, <3>1, <1>1, <1>7, InHolders
    <2> QED BY <2>1, <2>2
  <1>17. SlotsInv'
    BY <1>4, <1>16, SameHolders
  <1>18. StandsNext(q.key, q.run)
    BY <1>3, <1>6, StandsLasts
  <1>19. StartedOncePerKey'
    <2>1. \A r \in launched' : StandsNext(origin'[r].key, r)
      <3>1. \A r \in launched : StandsNext(origin[r].key, r)
        BY <1>6, StandsLasts DEF StartedOncePerKey
      <3>2. origin[q.run].key = q.key
        BY <1>3
      <3> QED BY <3>1, <3>2, <1>4, <1>18
    <2> QED BY <2>1, <1>14 DEF StartedOncePerKey, TasksInv, Stands, StandsNext
  <1>20. AnswersAgree'
    <2> SUFFICES ASSUME NEW a \in answers'
                 PROVE  /\ origin'[a.run] = [key |-> a.key, body |-> a.body]
                        /\ StandsNext(a.key, a.run)
      BY DEF AnswersAgree, Stands, StandsNext
    <2>1. CASE a \in answers
      BY <2>1, <1>4, <1>6, StandsLasts DEF AnswersAgree
    <2>2. CASE a = [key |-> q.key, body |-> q.body, run |-> q.run]
      BY <2>2, <1>3, <1>4, <1>18
    <2> QED BY <2>1, <2>2, <1>4
  <1>21. LocalRunsAccounted'
    <2> SUFFICES ASSUME NEW p \in Processes, NEW r \in local'[p]
                 PROVE  r \in Holders(p)' \/ AnsweredUnstarted(r)'
      BY DEF LocalRunsAccounted
    <2>1. CASE r = q.run
      <3>1. p = q.process
        BY <2>1, <1>0, <1>1, <1>2, <1>9 DEF LocalInv
      <3>2. r \in tasks'[p]
        BY <2>1, <3>1, <1>8
      <3> QED BY <3>2, InHolders
    <2>2. CASE r # q.run
      <3>1. r \in local[p]
        BY <2>2, <1>9
      <3>2. CASE r \in Holders(p)
        BY <3>2, <1>16
      <3>3. CASE AnsweredUnstarted(r)
        BY <2>2, <3>3, <1>4 DEF AnsweredUnstarted
      <3> QED BY <3>1, <3>2, <3>3 DEF LocalRunsAccounted
    <2> QED BY <2>1, <2>2
  <1> QED BY <1>6, <1>12, <1>13, <1>14, <1>15, <1>17, <1>19, <1>20, <1>21

\* A task ends and gives its slot back.
LEMMA TaskEndsKeeps ==
    ASSUME AdmissionInv, NEW p \in Processes, NEW r \in tasks[p], TaskEnds(p, r)
    PROVE  AdmissionInv'
  <1> USE DEF AdmissionInv
  <1>0. /\ tasks \in [Processes -> SUBSET Runs] /\ local \in [Processes -> SUBSET Runs]
        /\ r \in Runs
    BY DEF TypeOK
  <1>1. /\ tasks' = [tasks EXCEPT ![p] = @ \ {r}]
        /\ local' = [local EXCEPT ![p] = @ \ {r}]
        /\ Release(p, r) /\ released' = released \cup ({r} \ {None})
        /\ UNCHANGED <<redisVars, requests, origin, launched, lapsed, answers>>
    BY DEF TaskEnds, Release, historyVars
  <1>2. r \in launched /\ r \in Runs \ released
    BY <1>0 DEF TasksInv
  <1>3. RedisStep
    BY <1>1, QuietIsRedisStep
  <1>4. Lasting /\ RedisInv' /\ ReservedRunReadable' /\ Remembered
    BY <1>1, <1>3 DEF RedisStep, Remembered
  <1>5. /\ tasks' \in [Processes -> SUBSET Runs]
        /\ tasks'[p] = tasks[p] \ {r}
        /\ \A e \in Processes \ {p} : tasks'[e] = tasks[e]
    BY <1>0, <1>1
  <1>6. /\ local' \in [Processes -> SUBSET Runs]
        /\ local'[p] = local[p] \ {r}
        /\ \A e \in Processes : local'[e] \subseteq local[e]
    BY <1>0, <1>1
  <1>7. \A d \in Clients : requests[d] # None => requests[d].run # r
    BY <1>0, <1>2, NoneAssumption DEF RequestsInv, RequestInv
  <1>8. RequestsInv'
    <2>1. ASSUME NEW d \in Clients, requests[d] # None
          PROVE  RequestNext(requests[d])
      <3>1. requests[d] \in Request /\ RequestInv(requests[d])
        BY <2>1 DEF TypeOK, RequestsInv
      <3>2. requests[d].run # None => requests[d].run \notin launched' \cup released'
        BY <2>1, <3>1, <1>1, <1>7 DEF RequestInv
      <3> QED BY <3>1, <3>2, <1>4, RequestLasts
    <2>2. RequestsNext
      BY <1>1, <2>1 DEF RequestsNext
    <2> QED BY <1>1, <2>2, RequestsNextIs DEF RequestsInv
  <1>9. TasksInv'
    <2>1. \A e \in Processes : r \in tasks[e] => e = p
      BY DEF TasksInv
    <2> QED BY <2>1, <1>1, <1>5, <1>2 DEF TasksInv, Known
  <1>10. LocalInv'
    BY <1>1, <1>6 DEF LocalInv, Known
  <1>11. \A e \in Processes :
             Holders(e)' = IF e = p THEN Holders(e) \ {r} ELSE Holders(e)
    <2>1. ASSUME NEW e \in Processes, NEW s
          PROVE  s \in Holders(e)' <=> s \in Holders(e) /\ (e = p => s # r)
      <3>1. s \in tasks'[e] <=> s \in tasks[e] /\ (e = p => s # r)
        BY <1>5
      <3> QED BY <3>1, <1>1, <1>7, InHolders
    <2> QED BY <2>1
  <1>12. SlotsInv' /\ used' \in [Processes -> 0..Capacity]
    <2>1. r \in Holders(p)
      BY InHolders
    <2> QED BY <2>1, <1>1, <1>2, <1>11, HolderLeaves
  <1>13. TypeOK'
    <2>1. released' \in SUBSET Runs
      BY <1>0, <1>1 DEF TypeOK
    <2> QED BY <2>1, <1>1, <1>5, <1>6, <1>12 DEF TypeOK, redisVars
  <1>14. StartedOncePerKey'
    <2>1. \A s \in launched : StandsNext(origin[s].key, s)
      BY <1>4, StandsLasts DEF StartedOncePerKey
    <2> QED BY <2>1, <1>1, <1>9 DEF StartedOncePerKey, TasksInv, Stands, StandsNext
  <1>15. AnswersAgree'
    <2>1. \A a \in answers : StandsNext(a.key, a.run)
      BY <1>4, StandsLasts DEF AnswersAgree
    <2> QED BY <2>1, <1>1 DEF AnswersAgree, Stands, StandsNext
  <1>16. LocalRunsAccounted'
    <2>1. ASSUME NEW e \in Processes, NEW s \in local'[e], s \in Holders(e)
          PROVE  s \in Holders(e)'
      BY <2>1, <1>6, <1>11
    <2> QED BY <2>1, <1>1, <1>6, LocalLasts
  <1> QED BY <1>4, <1>8, <1>9, <1>10, <1>12, <1>13, <1>14, <1>15, <1>16

\* A process starts again with nothing.
LEMMA CrashKeeps ==
    ASSUME AdmissionInv, NEW p \in Processes, Crash(p)
    PROVE  AdmissionInv'
  <1> USE DEF AdmissionInv
  <1>0. /\ tasks \in [Processes -> SUBSET Runs] /\ local \in [Processes -> SUBSET Runs]
        /\ used \in [Processes -> 0..Capacity]
        /\ requests \in [Clients -> Request \cup {None}]
    BY DEF TypeOK
  <1>1. UNCHANGED <<redisVars, released, origin, launched, lapsed, answers>>
    BY DEF Crash, historyVars
  <1>2. RedisStep
    BY <1>1, QuietIsRedisStep
  <1>3. Lasting /\ RedisInv' /\ ReservedRunReadable' /\ Remembered
    BY <1>1, <1>2 DEF RedisStep, Remembered
  <1>4. /\ tasks' \in [Processes -> SUBSET Runs] /\ tasks'[p] = {}
        /\ \A e \in Processes \ {p} : tasks'[e] = tasks[e]
    BY <1>0 DEF Crash
  <1>5. /\ local' \in [Processes -> SUBSET Runs] /\ local'[p] = {}
        /\ \A e \in Processes \ {p} : local'[e] = local[e]
    BY <1>0 DEF Crash
  <1>6. /\ used' \in [Processes -> 0..Capacity] /\ used'[p] = 0
        /\ \A e \in Processes \ {p} : used'[e] = used[e]
    BY <1>0, AdmissionAssumption DEF Crash
  <1>7. /\ requests' \in [Clients -> Request \cup {None}]
        /\ \A d \in Clients : requests'[d] # None =>
              requests'[d] = requests[d] /\ requests[d] # None /\ requests[d].process # p
        /\ \A d \in Clients : requests[d] # None /\ requests[d].process # p
              => requests'[d] = requests[d]
    BY <1>0 DEF Crash
  <1>8. TypeOK'
    BY <1>1, <1>4, <1>5, <1>6, <1>7 DEF TypeOK, redisVars
  <1>9. RequestsInv'
    <2>1. ASSUME NEW d \in Clients, requests[d] # None
          PROVE  RequestNext(requests[d])
      <3>1. requests[d] \in Request /\ RequestInv(requests[d])
        BY <2>1 DEF TypeOK, RequestsInv
      <3>2. requests[d].run # None => requests[d].run \notin launched' \cup released'
        BY <3>1, <1>1 DEF RequestInv
      <3> QED BY <3>1, <3>2, <1>3, RequestLasts
    <2>2. RequestsNext
      BY <1>7, <2>1 DEF RequestsNext
    <2> QED BY <1>7, <2>2, RequestsNextIs DEF RequestsInv
  <1>10. TasksInv'
    BY <1>1, <1>4 DEF TasksInv, Known
  <1>11. LocalInv'
    BY <1>1, <1>5, <1>7 DEF LocalInv, Known
  <1>12. Holders(p)' = {} /\ \A e \in Processes \ {p} : Holders(e)' = Holders(e)
    <2>1. ASSUME NEW s PROVE s \notin Holders(p)'
      BY <1>4, <1>7, InHolders
    <2>2. ASSUME NEW e \in Processes \ {p}, NEW s
          PROVE  s \in Holders(e)' <=> s \in Holders(e)
      BY <1>4, <1>7, InHolders
    <2> QED BY <2>1, <2>2
  <1>13. SlotsInv'
    <2> SUFFICES ASSUME NEW e \in Processes
                 PROVE  IsFiniteSet(Holders(e)') /\ used'[e] = Cardinality(Holders(e)')
      BY DEF SlotsInv
    <2>1. CASE e = p
      BY <2>1, <1>6, <1>12, FS_EmptySet
    <2>2. CASE e # p
      BY <2>2, <1>6, <1>12 DEF SlotsInv
    <2> QED BY <2>1, <2>2
  <1>14. StartedOncePerKey'
    <2>1. \A s \in launched : StandsNext(origin[s].key, s)
      BY <1>3, StandsLasts DEF StartedOncePerKey
    <2> QED BY <2>1, <1>1, <1>10 DEF StartedOncePerKey, TasksInv, Stands, StandsNext
  <1>15. AnswersAgree'
    <2>1. \A a \in answers : StandsNext(a.key, a.run)
      BY <1>3, StandsLasts DEF AnswersAgree
    <2> QED BY <2>1, <1>1 DEF AnswersAgree, Stands, StandsNext
  <1>16. LocalRunsAccounted'
    BY <1>1, <1>5, <1>12, LocalLasts
  <1> QED BY <1>3, <1>8, <1>9, <1>10, <1>11, <1>13, <1>14, <1>15, <1>16

\* A request reads, is refused, or gets its answer (find_reserved_run,
\* reserve_run).
LEMMA NothingFoundKeeps ==
    ASSUME AdmissionInv, NEW c \in Clients, requests[c] # None, NothingFound(c),
           UNCHANGED <<redisVars, tasks, launched, lapsed>>
    PROVE  AdmissionInv'
  <1> USE DEF AdmissionInv
  <1>1. PICK q \in Request : q = requests[c]
    BY DEF TypeOK
  <1>2. q.run \in Runs \cup {None} /\ q.process \in Processes /\ RequestInv(q)
    BY <1>1 DEF Request, RequestsInv
  <1>3. ASSUME UNCHANGED <<used, local, released, origin, answers>>,
               NEW n \in Request, Goto(c, n), n.at \in {"look", "reserve"},
               n.at = "reserve" => q.run # None, n.found = None,
               n.process = q.process, n.key = q.key, n.body = q.body, n.run = q.run
        PROVE  AdmissionInv'
    <2>1. RedisStep
      BY <1>3, QuietIsRedisStep
    <2>2. RequestNext(n)
      BY <1>2, <1>3 DEF RequestNext, RequestInv
    <2> QED BY <1>1, <1>3, <2>1, <2>2, GotoKeeps
  <1>4. CASE /\ q.probe = "current"
             /\ Goto(c, [q EXCEPT !.at = "look", !.probe = "legacy", !.found = None])
             /\ UNCHANGED <<used, local, released, origin, answers>>
    <2>1. PICK n \in Request :
              n = [q EXCEPT !.at = "look", !.probe = "legacy", !.found = None]
      <3>1. [q EXCEPT !.at = "look", !.probe = "legacy", !.found = None] \in Request
        BY DEF Request
      <3> QED BY <3>1
    <2>2. /\ n.at = "look" /\ n.found = None /\ n.process = q.process
          /\ n.key = q.key /\ n.body = q.body /\ n.run = q.run
      BY <2>1 DEF Request
    <2> QED BY <1>3, <1>4, <2>1, <2>2
  <1>5. CASE /\ q.run # None
             /\ Goto(c, [q EXCEPT !.at = "reserve", !.found = None])
             /\ UNCHANGED <<used, local, released, origin, answers>>
    <2>1. PICK n \in Request : n = [q EXCEPT !.at = "reserve", !.found = None]
      <3>1. [q EXCEPT !.at = "reserve", !.found = None] \in Request
        BY DEF Request
      <3> QED BY <3>1
    <2>2. /\ n.at = "reserve" /\ n.found = None /\ n.process = q.process
          /\ n.key = q.key /\ n.body = q.body /\ n.run = q.run
      BY <2>1 DEF Request
    <2> QED BY <1>3, <1>5, <2>1, <2>2
  <1>6. CASE q.run = None /\ Admit(c)
    <2>1. CASE Reject(c) /\ UNCHANGED origin
      <3>1. RedisStep
        BY <2>1, QuietIsRedisStep
      <3> QED BY <2>1, <3>1, RejectKeeps
    <2>2. CASE ~(Reject(c) /\ UNCHANGED origin)
      <3>1. /\ used[requests[c].process] < Capacity
            /\ \E r \in Runs \ {LegacyRun} :
                /\ origin[r] = None
                /\ origin' = [origin EXCEPT ![r] =
                       [key |-> requests[c].key, body |-> requests[c].body]]
                /\ local' = [local EXCEPT ![requests[c].process] = @ \cup {r}]
                /\ Goto(c, [requests[c] EXCEPT !.at = "look", !.probe = "current",
                                               !.run = r, !.found = None])
            /\ used' = [used EXCEPT ![requests[c].process] = @ + 1]
            /\ UNCHANGED <<released, answers>>
        BY <1>6, <2>2 DEF Admit
      <3> QED BY <1>1, <1>6, <3>1, AdmitKeeps
    <2> QED BY <2>1, <2>2
  <1> QED BY <1>1, <1>4, <1>5, <1>6 DEF NothingFound

LEMMA LookKeeps ==
    ASSUME AdmissionInv, NEW c \in Clients, Look(c)
    PROVE  AdmissionInv'
  <1> USE DEF AdmissionInv
  <1>1. requests[c] # None /\ UNCHANGED <<redisVars, tasks, launched, lapsed>>
    BY DEF Look
  <1>2. PICK q \in Request : q = requests[c]
    BY <1>1 DEF TypeOK
  <1>3. q.key \in Keys /\ RequestInv(q)
    BY <1>1, <1>2 DEF Request, RequestsInv
  <1> DEFINE held == IF q.probe = "current" THEN reservation[q.key] ELSE legacy
  <1>4. CASE held = None
    <2>1. NothingFound(c)
      BY <1>2, <1>4 DEF Look
    <2> QED BY <1>1, <2>1, NothingFoundKeeps
  <1>5. CASE held # None
    <2>1. PICK h \in Reservation : h = held
      BY <1>3, <1>5 DEF TypeOK
    <2>2. /\ Goto(c, [q EXCEPT !.at = "read", !.found = h])
          /\ UNCHANGED <<used, local, released, origin, answers>>
      BY <1>2, <1>5, <2>1 DEF Look
    <2>3. PICK n \in Request : n = [q EXCEPT !.at = "read", !.found = h]
      <3>1. [q EXCEPT !.at = "read", !.found = h] \in Request
        BY DEF Request
      <3> QED BY <3>1
    <2>4. /\ n.at = "read" /\ n.found = h /\ n.process = q.process
          /\ n.key = q.key /\ n.body = q.body /\ n.run = q.run
      BY <2>3 DEF Request
    <2>5. Known(h.run) /\ origin[h.run].body = h.body /\ Stands(q.key, h.run)
      <3>1. CASE q.probe = "current"
        <4>1. /\ reservation[q.key] = h /\ h # None
              /\ origin[h.run] = [key |-> q.key, body |-> h.body]
          BY <1>3, <1>5, <2>1, <3>1 DEF RedisInv
        <4>2. origin[h.run] \in Origins
          BY <4>1, <1>3, <2>1 DEF Origins, Reservation
        <4> QED BY <4>1, <4>2, <1>3, NoneAssumption DEF Known, Stands
      <3>2. CASE q.probe # "current"
        BY <1>5, <2>1, <3>2 DEF RedisInv, Stands
      <3> QED BY <3>1, <3>2
    <2>6. RedisStep
      BY <1>1, <2>2, QuietIsRedisStep
    <2>7. h # None
      BY <2>1, <1>5
    <2>8. RequestNext(n)
      <3>1. StandsNext(q.key, h.run)
        BY <2>5, <2>6, StandsLasts DEF RedisStep
      <3> QED BY <3>1, <1>1, <1>3, <2>2, <2>4, <2>5, <2>7
              DEF RequestNext, RequestInv, Known
    <2> QED BY <1>1, <1>2, <2>2, <2>3, <2>4, <2>6, <2>8, GotoKeeps
  <1> QED BY <1>4, <1>5

\* A request that found the run of its own principal for the same body.
LEMMA FoundIsAnswer ==
    ASSUME AdmissionInv, NEW c \in Clients, requests[c] # None,
           requests[c].found # None,
           Owned(requests[c], requests[c].found.run),
           SameBody(requests[c], requests[c].found)
    PROVE  /\ requests[c].found.run \in Runs
           /\ origin[requests[c].found.run] =
                 [key |-> requests[c].key, body |-> requests[c].body]
           /\ Stands(requests[c].key, requests[c].found.run)
  <1> USE DEF AdmissionInv
  <1>1. PICK q \in Request : q = requests[c]
    BY DEF TypeOK
  <1>2. q.found \in Reservation /\ RequestInv(q)
    BY <1>1 DEF Request, RequestsInv
  <1>3. PICK r \in Runs : r = q.found.run
    BY <1>2 DEF Reservation
  <1>4. /\ Known(r) /\ origin[r].body = q.found.body /\ Stands(q.key, r)
    BY <1>1, <1>2, <1>3 DEF RequestInv
  <1>5. origin[r] \in Origins
    BY <1>4 DEF TypeOK, Known
  <1>6. origin[r].key = q.key /\ q.found.body = q.body
    BY <1>1, <1>3 DEF Owned, SameBody
  <1>7. origin[r] = [key |-> q.key, body |-> q.body]
    BY <1>4, <1>5, <1>6 DEF Origins
  <1> QED BY <1>1, <1>3, <1>4, <1>7

LEMMA ReadKeeps ==
    ASSUME AdmissionInv, NEW c \in Clients, Read(c)
    PROVE  AdmissionInv'
  <1>1. /\ requests[c] # None /\ UNCHANGED <<redisVars, tasks, launched, lapsed>>
        /\ requests[c].found # None
    BY DEF Read, AdmissionInv, RequestsInv, RequestInv
  <1>2. CASE NothingFound(c)
    BY <1>1, <1>2, NothingFoundKeeps
  <1>3. CASE UNCHANGED origin
    <2>1. RedisStep
      BY <1>1, <1>3, QuietIsRedisStep
    <2>2. CASE Reject(c)
      BY <1>1, <1>3, <2>1, <2>2, RejectKeeps
    <2>3. CASE /\ Owned(requests[c], requests[c].found.run)
               /\ SameBody(requests[c], requests[c].found)
               /\ AnswerExisting(c, requests[c].found.run)
      BY <1>1, <1>3, <2>1, <2>3, FoundIsAnswer, AnswerKeeps
    <2> QED BY <1>2, <1>3, <2>2, <2>3 DEF Read
  <1> QED BY <1>2, <1>3 DEF Read

LEMMA RereadKeeps ==
    ASSUME AdmissionInv, NEW c \in Clients, Reread(c)
    PROVE  AdmissionInv'
  <1>1. /\ requests[c] # None
        /\ UNCHANGED <<redisVars, tasks, origin, launched, lapsed>>
    BY DEF Reread
  <1>2. RedisStep
    BY <1>1, QuietIsRedisStep
  <1>3. CASE Reject(c)
    BY <1>1, <1>2, <1>3, RejectKeeps
  <1>4. CASE /\ Owned(requests[c], requests[c].found.run)
             /\ AnswerExisting(c, requests[c].found.run)
    <2>1. requests[c].found # None /\ SameBody(requests[c], requests[c].found)
      BY <1>1 DEF Reread, AdmissionInv, RequestsInv, RequestInv, SameBody
    <2> QED BY <1>1, <1>2, <1>4, <2>1, FoundIsAnswer, AnswerKeeps
  <1> QED BY <1>3, <1>4 DEF Reread

\* The reservation script and its reply.
LEMMA ReserveExecutesKeeps ==
    ASSUME AdmissionInv, NEW c \in Clients, ReserveExecutes(c)
    PROVE  AdmissionInv'
  <1>0. AdmissionInv
    OBVIOUS
  <1> USE DEF AdmissionInv
  <1>1. /\ requests[c] # None /\ requests[c].at = "reserve"
        /\ UNCHANGED <<legacy, late, tasks, origin, launched, lapsed>>
    BY DEF ReserveExecutes
  <1>2. PICK q \in Request : q = requests[c]
    BY <1>1 DEF TypeOK
  <1>3. /\ q.key \in Keys /\ q.body \in Bodies /\ q.run \in Runs /\ q.run # None
        /\ RequestInv(q) /\ q.run \notin launched \cup released
        /\ origin[q.run] = [key |-> q.key, body |-> q.body]
    BY <1>1, <1>2 DEF Request, RequestsInv, RequestInv
  <1>4. ReservationWritten(q.key, q.body, q.run)
    BY <1>2 DEF ReserveExecutes
  <1>5. RedisStep
    BY <1>1, <1>3, <1>4, WriteIsRedisStep
  <1> DEFINE old == reservation[q.key]
  <1>6. CASE UNCHANGED <<used, local, released, requests, answers>>
    BY <1>1, <1>5, <1>6, RedisStepKeeps DEF processVars
  <1>7. CASE Reject(c)
    BY <1>1, <1>5, <1>7, RejectKeeps
  <1>8. CASE /\ old = None
             /\ Goto(c, [q EXCEPT !.at = "created"])
             /\ UNCHANGED <<used, local, released, answers>>
    <2>1. PICK n \in Request : n = [q EXCEPT !.at = "created"]
      <3>1. [q EXCEPT !.at = "created"] \in Request
        BY DEF Request
      <3> QED BY <3>1
    <2>2. /\ n.at = "created" /\ n.found = q.found /\ n.process = q.process
          /\ n.key = q.key /\ n.body = q.body /\ n.run = q.run
      BY <2>1 DEF Request
    <2>3. StandsNext(q.key, q.run)
      <3>1. reservation' = [reservation EXCEPT ![q.key] = [run |-> q.run, body |-> q.body]]
        BY <1>4, <1>8 DEF ReservationWritten
      <3>2. [run |-> q.run, body |-> q.body] \in Reservation
        BY <1>3 DEF Reservation
      <3>3. /\ reservation'[q.key] = [run |-> q.run, body |-> q.body]
            /\ reservation'[q.key] # None
        BY <1>3, <3>1, <3>2, NoneAssumption DEF TypeOK
      <3> QED BY <1>3, <3>3 DEF StandsNext
    <2>4. q.found # None => StandsNext(q.key, q.found.run)
      BY <1>3, <1>5, StandsLasts DEF RequestInv, RedisStep
    <2>5. RequestNext(n)
      BY <1>1, <1>3, <1>8, <2>2, <2>3, <2>4 DEF RequestNext, RequestInv, Known
    <2>7. /\ Goto(c, n) /\ requests[c] # None
          /\ UNCHANGED <<used, local, tasks, released, origin, launched, answers>>
      BY <1>1, <1>8, <2>1
    <2>8. /\ n.process = requests[c].process /\ n.key = requests[c].key
          /\ n.body = requests[c].body /\ n.run = requests[c].run
      BY <1>2, <2>2
    <2> HIDE DEF AdmissionInv
    <2> QED BY <1>0, <1>5, <2>5, <2>7, <2>8, GotoKeeps
  <1>9. CASE /\ old # None /\ SameBody(q, old)
             /\ Goto(c, [q EXCEPT !.at = "reread", !.found = old])
             /\ UNCHANGED <<used, local, released, answers>>
    <2>0. PICK h \in Reservation : h = old
      BY <1>3, <1>9 DEF TypeOK
    <2>1. PICK n \in Request : n = [q EXCEPT !.at = "reread", !.found = h]
      <3>1. [q EXCEPT !.at = "reread", !.found = h] \in Request
        BY DEF Request
      <3> QED BY <3>1
    <2>2. /\ n.at = "reread" /\ n.found = h /\ n.process = q.process
          /\ n.key = q.key /\ n.body = q.body /\ n.run = q.run
      BY <2>1 DEF Request
    <2>3. /\ h # None /\ h.body = q.body
          /\ origin[h.run] = [key |-> q.key, body |-> h.body]
          /\ Stands(q.key, h.run)
      BY <1>3, <1>9, <2>0 DEF RedisInv, SameBody, Stands
    <2>4. origin[h.run] \in Origins
      BY <1>3, <2>3 DEF Origins
    <2>5. StandsNext(q.key, h.run)
      BY <1>5, <2>3, StandsLasts DEF RedisStep
    <2>6. RequestNext(n)
      BY <1>1, <1>3, <1>9, <2>2, <2>3, <2>4, <2>5, NoneAssumption DEF RequestNext
    <2>7. /\ Goto(c, n) /\ requests[c] # None
          /\ UNCHANGED <<used, local, tasks, released, origin, launched, answers>>
      BY <1>1, <1>9, <2>0, <2>1
    <2>8. /\ n.process = requests[c].process /\ n.key = requests[c].key
          /\ n.body = requests[c].body /\ n.run = requests[c].run
      BY <1>2, <2>2
    <2> HIDE DEF AdmissionInv
    <2> QED BY <1>0, <1>5, <2>6, <2>7, <2>8, GotoKeeps
  <1> QED BY <1>2, <1>6, <1>7, <1>8, <1>9 DEF ReserveExecutes

LEMMA RequestFailsKeeps ==
    ASSUME AdmissionInv, NEW c \in Clients, RequestFails(c)
    PROVE  AdmissionInv'
  <1> USE DEF AdmissionInv
  <1>1. /\ requests[c] # None /\ Reject(c)
        /\ UNCHANGED <<reservation, legacy, snapshots, tasks, origin, launched, lapsed>>
    BY DEF RequestFails
  <1>2. CASE UNCHANGED late
    <2>1. RedisStep
      BY <1>1, <1>2, QuietIsRedisStep DEF redisVars
    <2> QED BY <1>1, <2>1, RejectKeeps
  <1>3. CASE ~UNCHANGED late
    <2>1. PICK q \in Request : q = requests[c]
      BY <1>1 DEF TypeOK
    <2>2. /\ q.at = "reserve"
          /\ late' = late \cup {[key |-> q.key, body |-> q.body, run |-> q.run]}
      BY <1>3, <2>1 DEF RequestFails
    <2>3. /\ q.key \in Keys /\ q.body \in Bodies /\ q.run \in Runs
          /\ origin[q.run] = [key |-> q.key, body |-> q.body]
      BY <1>1, <2>1, <2>2 DEF Request, RequestsInv, RequestInv
    <2>4. late' \in SUBSET [key: Keys, body: Bodies, run: Runs]
      BY <2>2, <2>3 DEF TypeOK
    <2>5. \A m \in late' : origin'[m.run] = [key |-> m.key, body |-> m.body]
      <3> SUFFICES ASSUME NEW m \in late'
                   PROVE  origin[m.run] = [key |-> m.key, body |-> m.body]
        BY <1>1
      <3>1. CASE m \in late
        BY <3>1 DEF RedisInv
      <3>2. CASE m = [key |-> q.key, body |-> q.body, run |-> q.run]
        <4>1. m.key = q.key /\ m.body = q.body /\ m.run = q.run
          BY <3>2
        <4> QED BY <4>1, <2>3
      <3> QED BY <2>2, <3>1, <3>2
    <2>6. RedisInv' /\ ReservedRunReadable' /\ Lasting
      <3>1. RedisInv'
        BY <1>1, <2>5 DEF RedisInv, Known
      <3>2. ReservedRunReadable' /\ Lasting
        BY <1>1 DEF ReservedRunReadable, Lasting
      <3> QED BY <3>1, <3>2
    <2>7. RedisStep
      BY <1>1, <2>4, <2>6 DEF RedisStep, TypeOK
    <2> QED BY <1>1, <2>7, RejectKeeps
  <1> QED BY <1>2, <1>3

LEMMA LateReserveKeeps ==
    ASSUME AdmissionInv, NEW m \in late, LateReserve(m)
    PROVE  AdmissionInv'
  <1>1. /\ ReservationWritten(m.key, m.body, m.run) /\ late' \subseteq late
        /\ UNCHANGED <<legacy, processVars, origin, launched, lapsed, answers>>
    BY DEF LateReserve, historyVars
  <1>2. /\ m.key \in Keys /\ m.body \in Bodies /\ m.run \in Runs
        /\ origin[m.run] = [key |-> m.key, body |-> m.body]
    BY DEF AdmissionInv, TypeOK, RedisInv
  <1>3. RedisStep
    BY <1>1, <1>2, WriteIsRedisStep
  <1> QED BY <1>1, <1>3, RedisStepKeeps

\* The three ways to expire.
LEMMA ExpiryKeeps ==
    ASSUME AdmissionInv,
           \/ \E k \in Keys : ExpireReservation(k)
           \/ ExpireLegacy
           \/ \E r \in Runs : ExpireSnapshot(r)
    PROVE  AdmissionInv'
  <1>1. CASE \E k \in Keys : ExpireReservation(k)
    BY <1>1, ExpiryIsRedisStep, RedisStepKeeps DEF ExpireReservation
  <1>2. CASE ExpireLegacy
    BY <1>2, LegacyExpiryIsRedisStep, RedisStepKeeps DEF ExpireLegacy
  <1>3. CASE \E r \in Runs : ExpireSnapshot(r)
    BY <1>3, SnapshotExpiryIsRedisStep, RedisStepKeeps DEF ExpireSnapshot, historyVars
  <1> QED BY <1>1, <1>2, <1>3

\* A step that changes nothing.
LEMMA StutterKeeps ==
    ASSUME AdmissionInv, UNCHANGED vars
    PROVE  AdmissionInv'
  <1>1. UNCHANGED <<redisVars, processVars, origin, launched, lapsed, answers>>
    BY DEF vars, historyVars
  <1>2. RedisStep
    BY <1>1, QuietIsRedisStep
  <1> QED BY <1>1, <1>2, RedisStepKeeps

-----------------------------------------------------------------------------
(* Theorems *)

LEMMA NextAdmission == AdmissionInv /\ [Next]_vars => AdmissionInv'
  <1> SUFFICES ASSUME AdmissionInv, [Next]_vars PROVE AdmissionInv'
    OBVIOUS
  <1>1. ASSUME NEW c \in Clients, Handler(c)
        PROVE  AdmissionInv'
    BY <1>1, SubmitKeeps, LookKeeps, ReadKeeps, ReserveExecutesKeeps, RereadKeeps,
       LaunchKeeps, RequestFailsKeeps DEF Handler
  <1>2. CASE Environment
    BY <1>2, CrashKeeps, TaskEndsKeeps, LateReserveKeeps, ExpiryKeeps DEF Environment
  <1>3. CASE UNCHANGED vars
    BY <1>3, StutterKeeps
  <1> QED BY <1>1, <1>2, <1>3 DEF Next

\* Redis, the processes and the answers always fit together
\* (create_agent_run, run_capacity, agent_run_store).
THEOREM AdmissionIsSound == Spec => []AdmissionInv
  BY InitAdmission, NextAdmission, PTL DEF Spec

\* The state has its type; in particular no process uses more slots than it
\* has (RunCapacity).
THEOREM AdmissionTyped == Spec => []TypeOK
  <1>1. AdmissionInv => TypeOK
    BY DEF AdmissionInv
  <1> QED BY <1>1, AdmissionIsSound, PTL

\* A key starts one run while its reservation lasts, in one process
\* (reserve_run).
THEOREM OneStartPerKey == Spec => []StartedOncePerKey
  <1>1. AdmissionInv => StartedOncePerKey
    BY DEF AdmissionInv
  <1> QED BY <1>1, AdmissionIsSound, PTL

\* All answers to a key name the same run, of the same principal and question
\* (find_reserved_run, owns_run).
THEOREM AnswersNameOneRun == Spec => []AnswersAgree
  <1>1. AdmissionInv => AnswersAgree
    BY DEF AdmissionInv
  <1> QED BY <1>1, AdmissionIsSound, PTL

\* A reservation never names a run without a snapshot (the reservation script
\* writes both).
THEOREM ReservationsAreReadable == Spec => []ReservedRunReadable
  <1>1. AdmissionInv => ReservedRunReadable
    BY DEF AdmissionInv
  <1> QED BY <1>1, AdmissionIsSound, PTL

\* An entry of store.agent_runs is that of a request being handled or of a
\* running task, or names a run that was answered with 202 and never started:
\* no other exit of the handler or of the task leaves one.
THEOREM LocalRunsAreAccounted == Spec => []LocalRunsAccounted
  <1>1. AdmissionInv => LocalRunsAccounted
    BY DEF AdmissionInv
  <1> QED BY <1>1, AdmissionIsSound, PTL

\* Every slot is given back, and once (RunSlot.release).
THEOREM SlotsAreCounted == Spec => []SlotsAccounted
  <1>1. AdmissionInv => SlotsAccounted
    BY DEF AdmissionInv, SlotsInv, SlotsAccounted
  <1> QED BY <1>1, AdmissionIsSound, PTL

-----------------------------------------------------------------------------
(*                             EventStream                                 *)

Statuses == {"queued", "running", "failed", "gone"} \cup Final

Active == status \in {"queued", "running"}

\* What the types contribute.
Typed ==
    /\ status \in Statuses
    /\ log \in Seq(EventNames) /\ told \in Seq(EventNames)
    /\ wire \in Seq([id: Nat, name: EventNames])
    /\ shown \in Seq([id: Nat, name: EventNames])
    /\ lastId \in Nat /\ sent \in Nat

\* The log is remembered, and an active run has not announced an outcome.
LogIsTold ==
    /\ status # "gone" => log = told
    /\ Active => \A i \in 1..Len(told) : told[i] \notin Run!Outcomes

\* What is on its way continues what was shown, and the generator of an open
\* stream continues what is on its way.
WireContinues ==
    /\ pc = "reading" =>
        /\ lastId + Len(wire) <= Len(told)
        /\ \A i \in 1..Len(wire) :
              wire[i] = [id |-> lastId + i, name |-> told[lastId + i]]
        /\ stream = "open" => sent = lastId + Len(wire)
    /\ pc # "reading" => stream = "none" /\ wire = <<>>

\* A terminal event was shown only if the run is over.
FinalIsOver == pc = "final" => ~Active

\* The inductive invariant.
StreamInv ==
    /\ Typed
    /\ LogIsTold
    /\ WireContinues
    /\ ShownInOrder
    /\ FinalIsOver
    /\ SessionAgrees

-----------------------------------------------------------------------------
(* Sequences *)

\* What a concatenation holds at each place.
LEMMA ConcatFacts ==
    ASSUME NEW S, NEW s \in Seq(S), NEW t \in Seq(S)
    PROVE  /\ s \o t \in Seq(S) /\ Len(s \o t) = Len(s) + Len(t)
           /\ \A i \in 1..Len(s) : (s \o t)[i] = s[i]
           /\ \A i \in Len(s) + 1 .. Len(s \o t) : (s \o t)[i] = t[i - Len(s)]
  OBVIOUS

\* A function on 1..n is a sequence.
LEMMA FunctionIsSeq ==
    ASSUME NEW S, NEW n \in Nat, NEW f \in [1..n -> S]
    PROVE  f \in Seq(S) /\ Len(f) = n
  OBVIOUS

\* What one more element adds.
LEMMA AppendFacts ==
    ASSUME NEW S, NEW s \in Seq(S), NEW x \in S
    PROVE  /\ Append(s, x) \in Seq(S)
           /\ Len(Append(s, x)) = Len(s) + 1
           /\ DOMAIN Append(s, x) = 1..(Len(s) + 1)
           /\ Append(s, x)[Len(s) + 1] = x
           /\ \A i \in 1..Len(s) : Append(s, x)[i] = s[i]
  OBVIOUS

\* What a beginning holds.
LEMMA PrefixFacts ==
    ASSUME NEW S, NEW s \in Seq(S), NEW n \in 0..Len(s)
    PROVE  /\ SubSeq(s, 1, n) \in Seq(S) /\ Len(SubSeq(s, 1, n)) = n
           /\ \A i \in 1..n : SubSeq(s, 1, n)[i] = s[i]
  OBVIOUS

\* The first event on the wire, and the rest.
LEMMA HeadFacts ==
    ASSUME NEW S, NEW s \in Seq(S), s # <<>>
    PROVE  /\ Len(s) \in Nat /\ Len(s) > 0
           /\ Head(s) = s[1] /\ Head(s) \in S
           /\ Tail(s) \in Seq(S) /\ Len(Tail(s)) = Len(s) - 1
           /\ \A i \in 1..Len(Tail(s)) : Tail(s)[i] = s[i + 1]
  OBVIOUS

-----------------------------------------------------------------------------
(* The run *)

\* At the beginning nothing has happened.
LEMMA InitStream == StreamInit => StreamInv
  <1> SUFFICES ASSUME StreamInit PROVE StreamInv
    OBVIOUS
  <1> USE DEF StreamInit, Run!Init
  <1>1. Typed
    BY DEF Typed, Statuses, Final
  <1>2. LogIsTold /\ WireContinues /\ ShownInOrder
    BY DEF LogIsTold, WireContinues, ShownInOrder
  <1>3. FinalIsOver /\ SessionAgrees
    BY DEF FinalIsOver, SessionAgrees
  <1> QED BY <1>1, <1>2, <1>3 DEF StreamInv

\* The run adds events to its log and ends at most once.
LEMMA RunMovesKeeps ==
    ASSUME StreamInv, RunMoves
    PROVE  StreamInv'
  <1> USE DEF StreamInv
  <1>1. PICK news \in Additions :
            /\ log' = log \o news
            /\ Run!Work \/ Run!Finish \/ Run!Fail
    BY DEF RunMoves
  <1>2. news \in Seq(EventNames)
    BY StreamAssumption DEF Additions
  <1>3. Active /\ log = told /\ told' = told \o news
    BY <1>1 DEF RunMoves, Run!Work, Run!Finish, Run!Fail, LogIsTold, Active
  <1>4. UNCHANGED <<sent, stream, wire, pc, attempt, overdue, lastId, outcome, shown>>
    BY DEF RunMoves, streamVars, clientVars
  <1>5. /\ status' \in Statuses \ {"gone", "queued"}
        /\ Active' => \A i \in 1..Len(told') : told'[i] \notin Run!Outcomes
    BY <1>1, <1>3 DEF RunMoves, Run!Work, Run!Finish, Run!Fail, Active,
       Run!SilentUpTo, Statuses, Final
  <1>6. /\ told' \in Seq(EventNames) /\ Len(told) <= Len(told')
        /\ \A i \in 1..Len(told) : told'[i] = told[i]
    BY <1>2, <1>3 DEF Typed
  <1>7. Typed' /\ LogIsTold'
    BY <1>1, <1>3, <1>4, <1>5, <1>6 DEF Typed, LogIsTold, RunMoves
  <1>8. WireContinues'
    <2>1. lastId \in Nat /\ Len(wire) \in Nat /\ Len(told) \in Nat
      BY DEF Typed
    <2>2. Len(told') \in Nat
      BY <1>6
    <2>3. CASE pc = "reading"
      <3>1. \A i \in 1..Len(wire) : told'[lastId + i] = told[lastId + i]
        BY <1>6, <2>1, <2>3 DEF WireContinues
      <3>2. lastId + Len(wire) <= Len(told')
        BY <1>6, <2>1, <2>2, <2>3 DEF WireContinues
      <3> QED BY <1>4, <2>3, <3>1, <3>2 DEF WireContinues
    <2> QED BY <1>4, <2>3 DEF WireContinues
  <1>9. ShownInOrder'
    <2>1. Len(shown) \in Nat /\ Len(told) \in Nat /\ DOMAIN shown = 1..Len(shown)
      BY DEF Typed
    <2>2. Len(told') \in Nat
      BY <1>6
    <2>3. \A i \in DOMAIN shown : told'[i] = told[i]
      BY <1>6, <2>1 DEF ShownInOrder
    <2> QED BY <1>4, <1>6, <2>1, <2>2, <2>3 DEF ShownInOrder
  <1>10. FinalIsOver' /\ SessionAgrees'
    BY <1>3, <1>4 DEF FinalIsOver, SessionAgrees, Active, Final
  <1> QED BY <1>7, <1>8, <1>9, <1>10

\* The run expires; what it told stays told.
LEMMA RunExpiresKeeps ==
    ASSUME StreamInv, RunExpires
    PROVE  StreamInv'
  <1> USE DEF StreamInv
  <1>1. status' = "gone" /\ log' = <<>>
    BY DEF RunExpires, Run!Expire
  <1>2. UNCHANGED <<told, sent, stream, wire, pc, lastId, outcome, shown>>
    BY DEF RunExpires, streamVars, clientVars
  <1>3. Typed' /\ LogIsTold'
    BY <1>1, <1>2 DEF Typed, LogIsTold, Active, Statuses
  <1>4. WireContinues' /\ ShownInOrder'
    BY <1>2 DEF WireContinues, ShownInOrder
  <1>5. FinalIsOver' /\ SessionAgrees'
    BY <1>1, <1>2 DEF FinalIsOver, SessionAgrees, Active, Final
  <1> QED BY <1>3, <1>4, <1>5

-----------------------------------------------------------------------------
(* The connection *)

\* The pending events carry the ids that follow.
LEMMA UnsentFacts ==
    ASSUME Typed, Len(log) > sent
    PROVE  /\ Unsent \in Seq([id: Nat, name: EventNames])
           /\ Len(Unsent) = Len(log) - sent
           /\ \A j \in 1..Len(Unsent) :
                 Unsent[j] = [id |-> sent + j, name |-> log[sent + j]]
  <1>1. Len(log) \in Nat /\ sent \in Nat
    BY DEF Typed
  <1>2. \A j \in 1..(Len(log) - sent) :
            EventAt(sent + j) \in [id: Nat, name: EventNames]
    BY <1>1 DEF EventAt, Typed
  <1>3. Unsent = [j \in 1..(Len(log) - sent) |-> EventAt(sent + j)]
    BY DEF Unsent
  <1>4. Len(log) - sent \in Nat
    BY <1>1
  <1>5. Unsent \in Seq([id: Nat, name: EventNames]) /\ Len(Unsent) = Len(log) - sent
    <2>1. Unsent \in [1..(Len(log) - sent) -> [id: Nat, name: EventNames]]
      BY <1>2, <1>3
    <2> QED BY <2>1, <1>4, FunctionIsSeq
  <1> QED BY <1>3, <1>5 DEF EventAt

\* A round of the generator goes on where the last one ended.
LEMMA PollKeeps ==
    ASSUME StreamInv, Poll
    PROVE  StreamInv'
  <1> USE DEF StreamInv
  <1>1. pc = "reading" /\ sent = lastId + Len(wire)
    BY DEF Poll, WireContinues
  <1>2. UNCHANGED <<status, log, version, told, pc, attempt, overdue, lastId,
                    outcome, shown>>
    BY DEF Poll, runVars, clientVars
  <1>3. LogIsTold' /\ ShownInOrder' /\ FinalIsOver' /\ SessionAgrees'
    BY <1>2 DEF LogIsTold, ShownInOrder, FinalIsOver, SessionAgrees, Active
  <1>4. CASE UNCHANGED wire
    <2>1. UNCHANGED sent \/ stream' # "open"
      <3>1. CASE status = "gone"
        BY <3>1 DEF Poll
      <3>2. CASE status # "gone" /\ Len(log) <= sent
        BY <3>2, <1>1 DEF Poll, Typed
      <3>3. CASE status # "gone" /\ Len(log) > sent
        <4>1. Len(Unsent) = Len(log) - sent
          BY <3>3 DEF Unsent, Typed
        <4>2. wire' = wire \o Unsent
          BY <3>3 DEF Poll
        <4>3. Unsent \in Seq([id: Nat, name: EventNames])
          BY <3>3, UnsentFacts
        <4>4. Len(wire') = Len(wire) + Len(Unsent)
          BY <4>2, <4>3, ConcatFacts DEF Typed
        <4> QED BY <4>1, <4>4, <3>3, <1>4 DEF Typed
      <3> QED BY <3>1, <3>2, <3>3 DEF Typed
    <2>2. sent' \in Nat
      BY DEF Poll, Typed
    <2>3. Typed'
      BY <1>2, <1>4, <2>2 DEF Typed
    <2>4. WireContinues'
      BY <1>1, <1>2, <1>4, <2>1 DEF WireContinues
    <2> QED BY <1>3, <2>3, <2>4
  <1>5. CASE ~UNCHANGED wire
    <2>1. /\ status # "gone" /\ Len(log) > sent
          /\ wire' = wire \o Unsent /\ sent' = Len(log)
      BY <1>5 DEF Poll
    <2>2. log = told
      BY <2>1 DEF LogIsTold
    <2>3. /\ Unsent \in Seq([id: Nat, name: EventNames])
          /\ Len(Unsent) = Len(log) - sent
          /\ \A j \in 1..Len(Unsent) :
                Unsent[j] = [id |-> sent + j, name |-> log[sent + j]]
      BY <2>1, UnsentFacts
    <2>4. /\ wire' \in Seq([id: Nat, name: EventNames])
          /\ Len(wire') = Len(wire) + Len(Unsent)
          /\ \A i \in 1..Len(wire) : wire'[i] = wire[i]
          /\ \A i \in Len(wire) + 1 .. Len(wire') :
                wire'[i] = Unsent[i - Len(wire)]
      <3> DEFINE Events == [id: Nat, name: EventNames]
      <3>1. wire \in Seq(Events)
        BY DEF Typed
      <3>2. Unsent \in Seq(Events)
        BY <2>3
      <3> HIDE DEF Events, StreamInv
      <3>3. /\ wire \o Unsent \in Seq(Events)
            /\ Len(wire \o Unsent) = Len(wire) + Len(Unsent)
            /\ \A i \in 1..Len(wire) : (wire \o Unsent)[i] = wire[i]
            /\ \A i \in Len(wire) + 1 .. Len(wire \o Unsent) :
                  (wire \o Unsent)[i] = Unsent[i - Len(wire)]
        BY <3>1, <3>2, ConcatFacts
      <3> QED BY <2>1, <3>3 DEF Events
    <2>5. lastId + Len(wire') = Len(told)
      BY <1>1, <2>2, <2>3, <2>4 DEF Typed
    <2>6. \A i \in 1..Len(wire') :
              wire'[i] = [id |-> lastId + i, name |-> told[lastId + i]]
      <3> SUFFICES ASSUME NEW i \in 1..Len(wire')
                   PROVE  wire'[i] = [id |-> lastId + i, name |-> told[lastId + i]]
        OBVIOUS
      <3>1. CASE i <= Len(wire)
        <4>1. i \in 1..Len(wire)
          BY <3>1, <2>4 DEF Typed
        <4> QED BY <4>1, <1>1, <2>4 DEF WireContinues
      <3>2. CASE i > Len(wire)
        <4>1. /\ i - Len(wire) \in 1..Len(Unsent)
              /\ sent + (i - Len(wire)) = lastId + i
          BY <3>2, <1>1, <2>3, <2>4 DEF Typed
        <4>2. wire'[i] = Unsent[i - Len(wire)]
          <5>1. i \in Len(wire) + 1 .. Len(wire')
            BY <3>2, <2>4 DEF Typed
          <5> QED BY <5>1, <2>4
        <4> QED BY <4>1, <4>2, <2>2, <2>3
      <3> QED BY <3>1, <3>2, <2>4 DEF Typed
    <2>7. Typed'
      BY <1>2, <2>1, <2>4 DEF Typed
    <2>8. WireContinues'
      BY <1>1, <1>2, <2>1, <2>2, <2>5, <2>6 DEF WireContinues, Typed
    <2> QED BY <1>3, <2>7, <2>8
  <1> QED BY <1>4, <1>5

\* A break leaves a beginning of what was on its way.
LEMMA BreakKeeps ==
    ASSUME StreamInv, Break
    PROVE  StreamInv'
  <1> USE DEF StreamInv
  <1>1. PICK n \in 0..Len(wire) : wire' = SubSeq(wire, 1, n)
    BY DEF Break
  <1>2. /\ wire' \in Seq([id: Nat, name: EventNames]) /\ Len(wire') = n
        /\ \A i \in 1..n : wire'[i] = wire[i]
    BY <1>1, PrefixFacts DEF Typed
  <1>3. UNCHANGED <<status, log, version, told, sent, pc, lastId, outcome, shown>>
    BY DEF Break, runVars, clientVars
  <1>4. pc = "reading" /\ stream' = "broken"
    BY DEF Break, WireContinues
  <1>5. Typed'
    BY <1>2, <1>3 DEF Typed
  <1>6. WireContinues'
    <2>1. n \in Nat /\ n <= Len(wire) /\ Len(wire) \in Nat /\ lastId \in Nat
          /\ Len(told) \in Nat
      BY DEF Typed
    <2>2. lastId + n <= Len(told)
      BY <2>1, <1>4 DEF WireContinues
    <2>3. \A i \in 1..n :
              wire'[i] = [id |-> lastId + i, name |-> told[lastId + i]]
      <3>1. 1..n \subseteq 1..Len(wire)
        BY <2>1
      <3> QED BY <3>1, <1>2, <1>4 DEF WireContinues
    <2> QED BY <2>2, <2>3, <1>2, <1>3, <1>4 DEF WireContinues
  <1>7. LogIsTold' /\ ShownInOrder' /\ FinalIsOver' /\ SessionAgrees'
    BY <1>3 DEF LogIsTold, ShownInOrder, FinalIsOver, SessionAgrees, Active
  <1> QED BY <1>5, <1>6, <1>7

-----------------------------------------------------------------------------
(* receive_run *)

\* With the connection closed the client may be anywhere but at "reading",
\* and at "final" or done only if the run allows it.
LEMMA ClosedKeeps ==
    ASSUME StreamInv, Disconnected, UNCHANGED <<status, log, version, told>>,
           UNCHANGED <<lastId, shown>>,
           pc' # "reading", pc' = "final" => ~Active,
           SessionAgrees'
    PROVE  StreamInv'
  <1> USE DEF StreamInv
  <1>1. Typed'
    BY DEF Typed, Disconnected
  <1>2. LogIsTold' /\ ShownInOrder' /\ FinalIsOver'
    BY DEF LogIsTold, ShownInOrder, FinalIsOver, Active
  <1>3. WireContinues'
    BY DEF WireContinues, Disconnected
  <1> QED BY <1>1, <1>2, <1>3

\* Leaving with a disconnection or an error, and finishing with what the run
\* says.
LEMMA LeaveCallKeeps ==
    ASSUME StreamInv, NEW said \in {"error", "disconnected"}, LeaveCall(said)
    PROVE  StreamInv'
  BY ClosedKeeps DEF LeaveCall, runVars, SessionAgrees

LEMMA FinishedKeeps ==
    ASSUME StreamInv, NEW said, Finished(said),
           \/ said = "result" /\ status \in Final
           \/ said = "failed" /\ status = "failed"
    PROVE  StreamInv'
  <1>1. SessionAgrees'
    BY DEF Finished, runVars, SessionAgrees
  <1> QED BY <1>1, ClosedKeeps DEF Finished, runVars

LEMMA TryAgainKeeps ==
    ASSUME StreamInv, TryAgain
    PROVE  StreamInv'
  <1>1. SessionAgrees'
    BY DEF StreamInv, TryAgain, runVars, SessionAgrees
  <1>2. pc' \in {"check", "last"}
    BY DEF TryAgain
  <1> QED BY <1>1, <1>2, ClosedKeeps DEF TryAgain, runVars

LEMMA ContinueKeeps ==
    ASSUME StreamInv, NEW p \in {"last", "connect"}, Continue(p)
    PROVE  StreamInv'
  <1>1. SessionAgrees'
    BY DEF StreamInv, Continue, runVars, SessionAgrees
  <1> QED BY <1>1, ClosedKeeps DEF Continue, runVars

\* The three questions for the snapshot.
LEMMA CheckKeeps ==
    ASSUME StreamInv, Check \/ CheckFinal \/ CheckLast \/ CheckFails
    PROVE  StreamInv'
  <1>1. CASE Check
    <2>1. CASE Answers /\ Finished("result")
      BY <2>1, FinishedKeeps DEF Answers
    <2>2. CASE status = "failed" /\ Finished("failed")
      BY <2>2, FinishedKeeps
    <2>3. CASE LeaveCall("error")
      BY <2>3, LeaveCallKeeps
    <2>4. CASE Continue(IF overdue THEN "last" ELSE "connect")
      <3>1. (IF overdue THEN "last" ELSE "connect") \in {"last", "connect"}
        OBVIOUS
      <3> QED BY <2>4, <3>1, ContinueKeeps
    <2> QED BY <1>1, <2>1, <2>2, <2>3, <2>4 DEF Check, Snapshot
  <1>2. CASE CheckFinal
    <2>1. CASE Answers /\ Finished("result")
      BY <2>1, FinishedKeeps DEF Answers
    <2>2. CASE status = "failed" /\ Finished("failed")
      BY <2>2, FinishedKeeps
    <2>3. CASE LeaveCall("error")
      BY <2>3, LeaveCallKeeps
    <2>4. status \in {"queued", "running"} \cup Final => Answers
      BY <1>2 DEF CheckFinal, StreamInv, FinalIsOver, Active, Answers
    <2> QED BY <1>2, <2>1, <2>2, <2>3, <2>4 DEF CheckFinal, Snapshot
  <1>3. CASE CheckLast
    <2>1. CASE Answers /\ Finished("result")
      BY <2>1, FinishedKeeps DEF Answers
    <2>2. CASE status = "failed" /\ Finished("failed")
      BY <2>2, FinishedKeeps
    <2>3. CASE LeaveCall("error") \/ LeaveCall("disconnected")
      BY <2>3, LeaveCallKeeps
    <2> QED BY <1>3, <2>1, <2>2, <2>3 DEF CheckLast, Snapshot
  <1>4. CASE CheckFails
    BY <1>4, LeaveCallKeeps DEF CheckFails
  <1> QED BY <1>1, <1>2, <1>3, <1>4

\* A connection starts after the last event that was shown.
LEMMA ConnectKeeps ==
    ASSUME StreamInv, Connect
    PROVE  StreamInv'
  <1> USE DEF StreamInv
  <1>1. UNCHANGED <<status, log, version, told, lastId, outcome, shown>>
    BY DEF Connect, runVars
  <1>2. pc' = "reading" /\ sent' = lastId /\ wire' = <<>>
    BY DEF Connect, LastEventId
  <1>3. Typed'
    BY <1>1, <1>2 DEF Typed
  <1>4. WireContinues'
    BY <1>1, <1>2 DEF WireContinues, Typed, ShownInOrder
  <1>5. LogIsTold' /\ ShownInOrder' /\ FinalIsOver' /\ SessionAgrees'
    BY <1>1, <1>2 DEF LogIsTold, ShownInOrder, FinalIsOver, SessionAgrees, Active
  <1> QED BY <1>3, <1>4, <1>5

\* The next event is the one after the last that was shown; if it is terminal
\* the run is over.
LEMMA ReceiveKeeps ==
    ASSUME StreamInv, Receive
    PROVE  StreamInv'
  <1> USE DEF StreamInv
  <1> DEFINE e == Head(wire)
  <1>1. wire \in Seq([id: Nat, name: EventNames]) /\ wire # <<>> /\ Len(wire) > 0
    BY DEF Receive, Typed
  <1>2. /\ e = [id |-> lastId + 1, name |-> told[lastId + 1]]
        /\ e \in [id: Nat, name: EventNames]
        /\ lastId + 1 <= Len(told)
    <2>1. e = wire[1] /\ e \in [id: Nat, name: EventNames]
      BY <1>1, HeadFacts
    <2>2. lastId \in Nat /\ Len(told) \in Nat
      BY DEF Typed
    <2>3. pc = "reading" /\ 1 \in 1..Len(wire)
      BY <1>1 DEF Receive
    <2>4. wire[1] = [id |-> lastId + 1, name |-> told[lastId + 1]]
      BY <2>3 DEF WireContinues
    <2>5. Len(wire) \in Nat /\ lastId + Len(wire) <= Len(told)
      BY <1>1, <2>3, HeadFacts DEF WireContinues
    <2> QED BY <1>1, <2>1, <2>2, <2>4, <2>5
  <1>3. Show(e)
    BY <1>2 DEF Receive, Typed
  <1>4. UNCHANGED <<status, log, version, told, outcome>>
    BY DEF Receive, runVars
  <1>5. lastId' = lastId + 1 /\ shown' = Append(shown, e)
    BY <1>2, <1>3 DEF Show
  <1>6. shown' \in Seq([id: Nat, name: EventNames]) /\ lastId' \in Nat
    <2>1. lastId \in Nat /\ shown \in Seq([id: Nat, name: EventNames])
      BY DEF Typed
    <2>2. Append(shown, e) \in Seq([id: Nat, name: EventNames])
      BY <2>1, <1>2, AppendFacts
    <2> QED BY <2>1, <2>2, <1>5
  <1>7. ShownInOrder'
    <2>1. /\ Len(shown') = Len(shown) + 1 /\ shown'[Len(shown) + 1] = e
          /\ \A i \in 1..Len(shown) : shown'[i] = shown[i]
          /\ DOMAIN shown' = 1..(Len(shown) + 1)
      BY <1>2, <1>5, AppendFacts DEF Typed
    <2>2. Len(shown) = lastId
      BY DEF ShownInOrder
    <2>3. lastId \in Nat
      BY DEF Typed
    <2>4. \A i \in 1..Len(shown) : shown[i] = [id |-> i, name |-> told[i]]
      BY DEF ShownInOrder, Typed
    <2>5. \A i \in DOMAIN shown' : shown'[i] = [id |-> i, name |-> told[i]]
      <3> SUFFICES ASSUME NEW i \in 1..(lastId + 1)
                   PROVE  shown'[i] = [id |-> i, name |-> told[i]]
        BY <2>1, <2>2
      <3>1. CASE i = lastId + 1
        BY <3>1, <2>1, <2>2, <1>2
      <3>2. CASE i # lastId + 1
        BY <3>2, <2>1, <2>2, <2>3, <2>4
      <3> QED BY <3>1, <3>2
    <2> QED BY <2>1, <2>2, <2>3, <2>5, <1>2, <1>4, <1>5 DEF ShownInOrder
  <1>8. e.name = told[lastId + 1]
    BY <1>2
  <1>9. LogIsTold' /\ SessionAgrees'
    BY <1>4 DEF LogIsTold, SessionAgrees, Active
  <1>10. CASE e.name \in Run!Outcomes
    <2>1. pc' = "final" /\ Disconnected
      BY <1>2, <1>10 DEF Receive, Typed
    <2>2. ~Active
      BY <1>2, <1>8, <1>10 DEF LogIsTold, Typed
    <2>3. Typed' /\ FinalIsOver' /\ WireContinues'
      BY <1>4, <1>6, <2>1, <2>2
         DEF Typed, Disconnected, FinalIsOver, WireContinues, Active
    <2> QED BY <1>7, <1>9, <2>3
  <1>11. CASE e.name \notin Run!Outcomes
    <2>1. wire' = Tail(wire) /\ UNCHANGED <<pc, sent, stream>>
      BY <1>2, <1>11 DEF Receive, Typed
    <2>2. /\ wire' \in Seq([id: Nat, name: EventNames])
          /\ Len(wire') = Len(wire) - 1
          /\ \A i \in 1..Len(wire') : wire'[i] = wire[i + 1]
      BY <1>1, <2>1, HeadFacts
    <2>3. Typed' /\ FinalIsOver'
      BY <1>4, <1>6, <2>1, <2>2 DEF Typed, FinalIsOver, Active
    <2>4. pc = "reading" /\ pc' = "reading"
      BY <2>1 DEF Receive
    <2>5. \A i \in 1..Len(wire') :
              wire'[i] = [id |-> lastId' + i, name |-> told'[lastId' + i]]
      <3> SUFFICES ASSUME NEW i \in 1..Len(wire')
                   PROVE  wire'[i] = [id |-> lastId' + i, name |-> told'[lastId' + i]]
        OBVIOUS
      <3>1. i + 1 \in 1..Len(wire) /\ lastId' + i = lastId + (i + 1)
        BY <1>1, <1>5, <2>2 DEF Typed
      <3>2. wire[i + 1] = [id |-> lastId + (i + 1), name |-> told[lastId + (i + 1)]]
        BY <3>1, <2>4 DEF WireContinues
      <3> QED BY <3>1, <3>2, <2>2, <1>4
    <2>6. lastId' + Len(wire') = lastId + Len(wire)
      BY <1>1, <1>5, <2>2 DEF Typed
    <2>7. WireContinues'
      BY <1>4, <2>1, <2>4, <2>5, <2>6 DEF WireContinues
    <2> QED BY <1>7, <1>9, <2>3, <2>7
  <1> QED BY <1>10, <1>11

-----------------------------------------------------------------------------
(* Theorems *)

\* Every step keeps the invariant.
LEMMA NextKeeps == StreamInv /\ [StreamNext]_followVars => StreamInv'
  <1> SUFFICES ASSUME StreamInv, [StreamNext]_followVars PROVE StreamInv'
    OBVIOUS
  <1>1. CASE RunMoves \/ RunExpires
    BY <1>1, RunMovesKeeps, RunExpiresKeeps
  <1>2. CASE Poll \/ Break
    BY <1>2, PollKeeps, BreakKeeps
  <1>3. CASE Ask
    <2>1. UNCHANGED <<status, log, version, told, sent, stream, wire, lastId,
                      outcome, shown>> /\ pc = "idle" /\ pc' = "check"
      BY <1>3 DEF Ask, runVars, streamVars
    <2> QED BY <2>1 DEF StreamInv, Typed, LogIsTold, WireContinues, ShownInOrder,
            FinalIsOver, SessionAgrees, Active
  <1>4. CASE Check \/ CheckFinal \/ CheckLast \/ CheckFails
    BY <1>4, CheckKeeps
  <1>5. CASE Connect \/ ConnectFails
    BY <1>5, ConnectKeeps, LeaveCallKeeps, TryAgainKeeps DEF ConnectFails
  <1>6. CASE Receive \/ StopReading
    BY <1>6, ReceiveKeeps, TryAgainKeeps DEF StopReading
  <1>7. CASE Tick \/ UNCHANGED followVars
    <2>1. UNCHANGED <<status, log, version, told, sent, stream, wire, pc, lastId,
                      outcome, shown>>
      BY <1>7 DEF Tick, followVars, runVars, streamVars, clientVars
    <2> QED BY <2>1 DEF StreamInv, Typed, LogIsTold, WireContinues, ShownInOrder,
            FinalIsOver, SessionAgrees, Active
  <1> QED BY <1>1, <1>2, <1>3, <1>4, <1>5, <1>6, <1>7 DEF StreamNext, Receiver

\* The session, the connection and the run always fit together (receive_run
\* and get_agent_run_events, for any number of attempts and events).
THEOREM StreamIsSound == StreamSpec => []StreamInv
  BY InitStream, NextKeeps, PTL DEF StreamSpec

\* Every event is shown at most once, in order, and none is skipped, however
\* often the stream breaks or the question is asked again (last_id in
\* receive_run, Last-Event-ID in get_agent_run_events).
THEOREM EventsShownInOrder == StreamSpec => []ShownInOrder
  <1>1. StreamInv => ShownInOrder
    BY DEF StreamInv
  <1> QED BY <1>1, StreamIsSound, PTL

\* The session never reports a contract error, nor an outcome that is not the
\* run's (final_result).
THEOREM OutcomeIsTheRuns == StreamSpec => []SessionAgrees
  <1>1. StreamInv => SessionAgrees
    BY DEF StreamInv
  <1> QED BY <1>1, StreamIsSound, PTL

==============================================================================
