------------------------------ MODULE Histories ------------------------------
(***************************************************************************)
(* The history of one user: the temporary one of a guest in Redis or the   *)
(* saved one of members in PostgreSQL.  The routes and the worker choose   *)
(* by value["role"], which a run keeps from the request that created it.   *)
(***************************************************************************)
EXTENDS GuestHistory, SavedConversations

VARIABLE role       \* "GUEST" or "USER"

allVars == <<role, vars, memberVars>>

\* No call of a guest has begun.
GuestIdle ==
    /\ Init
    /\ \A s, t \in Savers : saves[s].run = saves[t].run

HistoryInit ==
    /\ MemberInit
    /\ \/ role = "GUEST" /\ Init
       \/ role = "USER" /\ GuestIdle

HistoryNext ==
    \/ role = "GUEST" /\ Next /\ UNCHANGED <<role, memberVars>>
    \/ role = "USER" /\ MemberNext /\ UNCHANGED <<role, vars>>

HistorySpec == HistoryInit /\ [][HistoryNext]_allVars

=============================================================================
