------------------------------ MODULE WebProofs ------------------------------
(***************************************************************************)
(* Proofs about Web, for any pages, accounts, tokens, records and requests *)
(* at one time: a page keeps only what it fetched as its present user, one *)
(* email has one account, and what was removed stays away.                 *)
(***************************************************************************)
EXTENDS Web, FiniteSetTheorems, TLAPS

-----------------------------------------------------------------------------
(* The inductive invariant *)

SignIns  == {"register", "login"}
OffBoard == SignIns \cup {"logout", "me", "fetch", "list", "add"}

\* What a page waits for acts as the page's own user.
PageCall(c) ==
    (c.page # None /\ c.op \notin SignIns) =>
        /\ c.token = pages[c.page].token
        /\ c.op = "me" => c.token # None
        /\ c.op # "logout" /\ c.pc = "sent" /\ c.token = None => c.as = c.page
        /\ (c.op # "logout" /\ c.pc # "sent" /\ (c.pc = "answered" => c.status = "ok"))
              => c.as = pages[c.page].user

\* A login that succeeded carries a token of its user.
SignInCall(c) ==
    /\ c.pc \in {"hashed", "verified"} => c.op \in SignIns
    /\ c.op \in SignIns =>
          /\ c.pc \in {"sent", "hashed", "verified", "answered"}
          /\ c.pc = "verified" => c.as \in Users
          /\ (c.pc = "answered" /\ c.status = "ok") =>
                /\ c.token \in Tokens /\ c.as \in Users
                /\ sessions[c.token] # None => sessions[c.token].user = c.as

\* A request for a record that was removed before finds nothing.
LateCall(c) ==
    c.late => IF c.pc = "answered" THEN c.status # "ok"
              ELSE /\ c.pc \in {"sent", "known", "admitted"}
                   /\ c.item \in removed /\ c.op \notin OffBoard

\* A request about a record names one that was made.
ItemCall(c) ==
    /\ c.pc \in {"found", "pending", "linking"} => c.op \notin OffBoard
    /\ (c.op \notin OffBoard /\ c.pc # "answered") =>
          c.item \in Items /\ items[c.item] # None

CallInv(c) == PageCall(c) /\ SignInCall(c) /\ LateCall(c) /\ ItemCall(c)

CallsInv == \A s \in Threads : calls[s] # None => CallInv(calls[s])

\* A page waits for one request at a time.
OneRequest ==
    \A s, u \in Threads :
        (calls[s] # None /\ calls[u] # None /\ calls[s].page # None
           /\ calls[s].page = calls[u].page) => s = u

\* The session of a page's token is the session of its user.
TokensInv ==
    \A p \in Pages, t \in Tokens :
        pages[p].token = t /\ sessions[t] # None => sessions[t].user = pages[p].user

BoardInv ==
    /\ \A i \in stored \cup removed : items[i] # None
    /\ removed \cap stored = {}

WebInv == /\ TypeOK
          /\ CallsInv
          /\ OneRequest
          /\ TokensInv
          /\ BoardInv
          /\ PageShowsItsUser
          /\ OneAccountPerEmail

-----------------------------------------------------------------------------
(* What a step may do to the state without disturbing the invariant *)

\* A token that has no session, and that nobody holds.
Unheld(t) ==
    /\ \A p \in Pages : pages[p].token # t
    /\ \A s \in Threads : calls[s] # None => calls[s].token # t

\* Sessions end, or begin with a token that nobody holds.
SessionsMove ==
    /\ sessions' \in [Tokens -> Session \cup {None}]
    /\ \A t \in Tokens : sessions'[t] # None =>
          \/ sessions[t] # None /\ sessions'[t].user = sessions[t].user
          \/ Unheld(t)

\* Records are made, taken out of their dict, and never put back.
BoardMoves ==
    /\ items' \in [Items -> Record \cup {None}]
    /\ stored' \subseteq Items /\ removed' \subseteq Items
    /\ \A i \in Items : items[i] # None => items'[i] # None
    /\ removed \subseteq removed'
    /\ BoardInv'

\* No email comes to a second account.
AccountsMove ==
    /\ accounts' \in [Users -> Emails \cup {AdminEmail, None}]
    /\ inactive' \subseteq Users
    /\ OneAccountPerEmail'

\* Each call goes on with its page, or with none.
CallsMove ==
    /\ calls' \in [Threads -> Call \cup {None}]
    /\ \A s \in Threads : calls'[s] = calls[s] \/ calls'[s] = None \/
          /\ CallInv(calls[s])'
          /\ calls'[s].page = None \/ (calls[s] # None /\ calls'[s].page = calls[s].page)

\* A call keeps its invariant while others move.
LEMMA CallStays ==
  ASSUME WebInv, NEW c \in Call, CallInv(c),
         SessionsMove, BoardMoves, c.page # None => pages'[c.page] = pages[c.page],
         \A t \in Tokens : c.token = t => ~Unheld(t)
  PROVE  CallInv(c)'
  <1>1. PageCall(c)'
    BY DEF CallInv, PageCall
  <1>2. SignInCall(c)'
    BY DEF CallInv, SignInCall, SessionsMove
  <1>3. LateCall(c)'
    BY DEF CallInv, LateCall, BoardMoves
  <1>4. ItemCall(c)'
    BY DEF CallInv, ItemCall, BoardMoves
  <1> QED BY <1>1, <1>2, <1>3, <1>4 DEF CallInv

\* A handler's step.
LEMMA HandlerStep ==
  ASSUME WebInv, SessionsMove, BoardMoves, AccountsMove, CallsMove,
         scene' = scene, pages' = pages, sent' = sent
  PROVE  WebInv'
  <1>1. TypeOK'
    BY DEF WebInv, TypeOK, SessionsMove, BoardMoves, AccountsMove, CallsMove
  <1>2. CallsInv'
    <2> SUFFICES ASSUME NEW s \in Threads, calls'[s] # None PROVE CallInv(calls[s])'
      BY DEF CallsInv
    <2>1. CASE calls'[s] = calls[s]
      <3>1. PICK c \in Call : c = calls[s] /\ CallInv(c)
        BY <2>1 DEF WebInv, TypeOK, CallsInv
      <3>2. \A t \in Tokens : c.token = t => ~Unheld(t)
        BY <3>1, <2>1 DEF Unheld
      <3>3. CallInv(c)'
        BY <3>1, <3>2, CallStays
      <3> QED BY <3>1, <3>3, <2>1 DEF CallInv, PageCall, SignInCall, LateCall, ItemCall
    <2> QED BY <2>1 DEF CallsMove
  <1>3. OneRequest'
    BY DEF WebInv, OneRequest, CallsMove
  <1>4. TokensInv'
    BY DEF WebInv, TypeOK, TokensInv, SessionsMove, Unheld
  <1>5. PageShowsItsUser'
    BY DEF WebInv, PageShowsItsUser
  <1> QED BY <1>1, <1>2, <1>3, <1>4, <1>5 DEF WebInv, BoardMoves, AccountsMove

LEMMA NothingMoves ==
  ASSUME WebInv
  PROVE  /\ UNCHANGED sessions => SessionsMove
         /\ UNCHANGED board => BoardMoves
         /\ UNCHANGED <<accounts, inactive>> => AccountsMove
         /\ UNCHANGED calls => CallsMove
  BY DEF WebInv, TypeOK, BoardInv, OneAccountPerEmail, SessionsMove, BoardMoves,
         AccountsMove, CallsMove, board

\* One call goes on.
LEMMA OneCallMoves ==
  ASSUME WebInv, NEW s \in Threads, calls[s] # None, NEW c \in Call \cup {None},
         Continue(s, c), c # None => c.page = calls[s].page /\ CallInv(c)'
  PROVE  CallsMove
  BY DEF WebInv, TypeOK, CallsMove, Continue

\* A step that only moves one call.
LEMMA CallStep ==
  ASSUME WebInv, NEW s \in Threads, calls[s] # None, NEW c \in Call \cup {None},
         Continue(s, c), c # None => c.page = calls[s].page /\ CallInv(c),
         UNCHANGED <<login, items, stored, removed, pages, sent>>
  PROVE  WebInv'
  <1>1. c # None => CallInv(c)'
    BY DEF login, CallInv, PageCall, SignInCall, LateCall, ItemCall
  <1>2. CallsMove
    BY <1>1, OneCallMoves
  <1>3. SessionsMove /\ AccountsMove /\ BoardMoves
    BY DEF login, WebInv, TypeOK, BoardInv, OneAccountPerEmail, SessionsMove,
           BoardMoves, AccountsMove
  <1> QED BY <1>2, <1>3, HandlerStep DEF login

-----------------------------------------------------------------------------
(* Answers *)

LEMMA CallsAreCalls ==
  ASSUME WebInv, NEW s \in Threads, calls[s] # None
  PROVE  calls[s] \in Call /\ CallInv(calls[s])
  BY DEF WebInv, TypeOK, CallsInv

LEMMA AnsweredType ==
  ASSUME NEW c \in Call, NEW st \in Statuses, NEW d, d = Answered(c, st)
  PROVE  /\ d \in Call \cup {None}
         /\ d # None => /\ c.page # None /\ d.page = c.page /\ d.op = c.op /\ d.as = c.as
                        /\ d.token = c.token /\ d.late = c.late
                        /\ d.pc = "answered" /\ d.status = st
  <1>1. CASE c.page = None
    BY <1>1 DEF Answered
  <1>2. CASE c.page # None
    <2>1. d = [c EXCEPT !.pc = "answered", !.status = st,
                  !.kind = None, !.item = None, !.email = None, !.count = 0]
      BY <1>2 DEF Answered
    <2>2. d = [page |-> c.page, op |-> c.op, kind |-> None, item |-> None,
               email |-> None, token |-> c.token, as |-> c.as, pc |-> "answered",
               status |-> st, count |-> 0, late |-> c.late]
      BY <2>1 DEF Call
    <2>3. d \in Call
      <3>1. "answered" \in Steps /\ 0 \in Nat
        BY DEF Steps
      <3> QED BY <2>2, <3>1 DEF Call
    <2> QED BY <1>2, <2>2, <2>3
  <1> QED BY <1>1, <1>2

\* A refusal can be sent at any time.
LEMMA Refusal ==
  ASSUME WebInv, NEW s \in Threads, calls[s] # None, NEW st \in Statuses \ {"ok"},
         Reply(s, st),
         UNCHANGED <<login, items, stored, removed, pages, sent>>
  PROVE  WebInv'
  <1> DEFINE c == Answered(calls[s], st)
  <1>1. calls[s] \in Call /\ CallInv(calls[s])
    BY CallsAreCalls
  <1>2. PICK d : d = c
    OBVIOUS
  <1>3. /\ d \in Call \cup {None}
        /\ d # None => /\ d.pc = "answered" /\ d.status = st /\ d.token = calls[s].token
                       /\ d.op = calls[s].op /\ d.page = calls[s].page
                       /\ d.late = calls[s].late
    BY <1>1, <1>2, AnsweredType
  <1> HIDE DEF c
  <1>4. d # None => CallInv(d)
    BY <1>1, <1>3 DEF CallInv, PageCall, SignInCall, LateCall, ItemCall
  <1>5. Continue(s, d)
    BY <1>2 DEF Reply, c
  <1> QED BY <1>3, <1>4, <1>5, CallStep

\* A success can be sent when the work is done.
LEMMA Success ==
  ASSUME WebInv, NEW s \in Threads, calls[s] # None, calls[s].pc # "answered",
         calls[s].op \notin SignIns, ~calls[s].late,
         calls[s].op = "logout" \/ calls[s].pc # "sent",
         Reply(s, "ok"), SessionsMove, BoardMoves, AccountsMove,
         scene' = scene, pages' = pages, sent' = sent
  PROVE  WebInv'
  <1>1. calls[s] \in Call /\ CallInv(calls[s])
    BY CallsAreCalls
  <1>2. PICK d : d = Answered(calls[s], "ok")
    OBVIOUS
  <1>3. /\ d \in Call \cup {None}
        /\ d # None => /\ d.pc = "answered" /\ d.status = "ok"
                       /\ d.token = calls[s].token /\ d.op = calls[s].op
                       /\ d.page = calls[s].page /\ d.late = calls[s].late
                       /\ d.as = calls[s].as
    BY <1>1, <1>2, AnsweredType DEF Statuses
  <1>4. d # None => CallInv(d)
    BY <1>1, <1>3 DEF CallInv, PageCall, SignInCall, LateCall, ItemCall
  <1>5. \A t \in Tokens : d # None /\ d.token = t => ~Unheld(t)
    BY <1>3 DEF Unheld
  <1>6. d # None => CallInv(d)'
    BY <1>3, <1>4, <1>5, CallStays
  <1>7. CallsMove
    BY <1>2, <1>3, <1>6, OneCallMoves DEF Reply
  <1> QED BY <1>7, HandlerStep

\* A success that changes no other state.
LEMMA SuccessOnly ==
  ASSUME WebInv, NEW s \in Threads, calls[s] # None, calls[s].pc # "answered",
         calls[s].op \notin SignIns, ~calls[s].late,
         calls[s].op = "logout" \/ calls[s].pc # "sent",
         Reply(s, "ok"), UNCHANGED <<login, board, pages, sent>>
  PROVE  WebInv'
  <1>1. SessionsMove /\ BoardMoves /\ AccountsMove
    BY NothingMoves DEF login
  <1> QED BY <1>1, Success DEF login

-----------------------------------------------------------------------------
(* Accounts and sessions *)

LEMMA HashPasswordKeeps ==
  ASSUME WebInv, NEW s \in Threads, HashPassword(s), sent' = sent
  PROVE  WebInv'
  <1> DEFINE call == calls[s]
  <1>1. /\ call # None /\ call \in Call /\ CallInv(call) /\ call.op \in SignIns
        /\ call.pc = "sent"
    BY CallsAreCalls DEF HashPassword, At, SignIns
  <1>3. CASE Reply(s, "refused")
    BY <1>1, <1>3, Refusal DEF HashPassword, board, Statuses
  <1>4. CASE Goto(s, "hashed")
    <2> DEFINE c == [call EXCEPT !.pc = "hashed"]
    <2>1. /\ c \in Call /\ c.pc = "hashed" /\ c.page = call.page /\ c.op = call.op
          /\ c.late = call.late
      BY <1>1 DEF Call, Steps
    <2>2. CallInv(c)
      <3> HIDE DEF c
      <3> QED BY <1>1, <2>1
              DEF CallInv, PageCall, SignInCall, LateCall, ItemCall, OffBoard
    <2> QED BY <1>1, <1>4, <2>1, <2>2, NoneAssumption, CallStep
            DEF HashPassword, board, Goto
  <1>5. ASSUME NEW user \in Users,
               Continue(s, [call EXCEPT !.pc = "verified", !.as = user])
        PROVE  WebInv'
    <2> DEFINE c == [call EXCEPT !.pc = "verified", !.as = user]
    <2>1. /\ c \in Call /\ c.pc = "verified" /\ c.page = call.page /\ c.op = call.op
          /\ c.late = call.late /\ c.as = user
      BY <1>1 DEF Call, Steps, Identities
    <2>2. CallInv(c)
      <3> HIDE DEF c
      <3> QED BY <1>1, <2>1
              DEF CallInv, PageCall, SignInCall, LateCall, ItemCall, OffBoard
    <2> QED BY <1>1, <1>5, <2>1, <2>2, NoneAssumption, CallStep
            DEF HashPassword, board
  <1>6. CASE EmailTaken(call.email) /\ call.op = "login" /\ ~Reply(s, "refused")
    <2> DEFINE user == CHOOSE a \in DOMAIN accounts : accounts[a] = call.email
    <2>1. DOMAIN accounts = Users
      BY DEF WebInv, TypeOK
    <2>2. user \in Users
      BY <1>6, <2>1 DEF EmailTaken
    <2>3. Continue(s, [call EXCEPT !.pc = "verified", !.as = user])
      BY <1>6 DEF HashPassword
    <2> QED BY <2>2, <2>3, <1>5
  <1> QED BY <1>3, <1>4, <1>6 DEF HashPassword

\* A session of a signed-in user.
LEMMA IssueMoves ==
  ASSUME WebInv, NEW s \in Threads, calls[s] # None, calls[s].pc # "answered",
         calls[s].op \in SignIns, NEW user \in Users, Issue(s, user),
         BoardMoves, UNCHANGED pages
  PROVE  SessionsMove /\ CallsMove
  <1>1. PICK t \in Tokens :
           /\ FreshToken(t)
           /\ sessions' = [Purged EXCEPT ![t] = [user |-> user, expired |-> FALSE]]
           /\ Continue(s, Answered([calls[s] EXCEPT !.token = t, !.as = user], "ok"))
    BY DEF Issue
  <1>2. calls[s] \in Call /\ CallInv(calls[s])
    BY CallsAreCalls
  <1>3. sessions \in [Tokens -> Session \cup {None}]
    BY DEF WebInv, TypeOK
  <1>4. /\ Purged \in [Tokens -> Session \cup {None}]
        /\ \A u \in Tokens : Purged[u] \in {sessions[u], None}
    BY <1>3 DEF Purged
  <1>5. /\ sessions' \in [Tokens -> Session \cup {None}]
        /\ sessions'[t] = [user |-> user, expired |-> FALSE]
        /\ \A u \in Tokens : u # t => sessions'[u] \in {sessions[u], None}
    BY <1>1, <1>4 DEF Session
  <1>6. SessionsMove
    BY <1>1, <1>5 DEF SessionsMove, FreshToken, Unheld
  <1> DEFINE b == [calls[s] EXCEPT !.token = t, !.as = user]
             c == Answered(b, "ok")
  <1>7. /\ b \in Call /\ b.op = calls[s].op /\ b.page = calls[s].page
        /\ b.late = calls[s].late /\ b.token = t /\ b.as = user
    BY <1>2 DEF Call, Identities
  <1>8. PICK d : d = c
    OBVIOUS
  <1> HIDE DEF b
  <1>9. /\ d \in Call \cup {None}
        /\ d # None => /\ d.pc = "answered" /\ d.status = "ok" /\ d.token = t
                       /\ d.as = user /\ d.op = calls[s].op
                       /\ d.page = calls[s].page /\ d.late = calls[s].late
    BY <1>7, <1>8, AnsweredType DEF Statuses
  <1>10. ASSUME d # None PROVE CallInv(d)'
    <2>1. ~d.late
      BY <1>2, <1>9, <1>10 DEF CallInv, LateCall, OffBoard
    <2> QED BY <1>5, <1>9, <1>10, <2>1
            DEF CallInv, PageCall, SignInCall, LateCall, ItemCall
  <1>11. Continue(s, d)
    BY <1>1, <1>8 DEF b
  <1>12. CallsMove
    BY <1>9, <1>10, <1>11, OneCallMoves
  <1> QED BY <1>6, <1>12

LEMMA AddAccountKeeps ==
  ASSUME WebInv, NEW s \in Threads, AddAccount(s), sent' = sent
  PROVE  WebInv'
  <1> DEFINE call == calls[s]
  <1>1. /\ call # None /\ call \in Call /\ CallInv(call) /\ call.pc = "hashed"
        /\ call.op \in SignIns
    BY CallsAreCalls DEF AddAccount, At, CallInv, SignInCall
  <1>2. BoardMoves
    BY NothingMoves DEF AddAccount, WebInv, TypeOK, board
  <1>3. CASE Conflict(call.email)
    BY <1>1, <1>2, <1>3, Refusal DEF AddAccount, login, board, Statuses
  <1>4. CASE ~Conflict(call.email)
    <2>1. PICK a \in Accounts :
             /\ accounts[a] = None
             /\ accounts' = [accounts EXCEPT ![a] = call.email]
             /\ IF scene.mode = "mock" THEN Issue(s, a)
                ELSE /\ Continue(s, [call EXCEPT !.pc = "verified", !.as = a])
                     /\ UNCHANGED sessions
      BY <1>4 DEF AddAccount
    <2>2. a \in Users
      BY DEF Users
    <2>3. AccountsMove
      <3>1. /\ accounts \in [Users -> Emails \cup {AdminEmail, None}]
            /\ inactive \subseteq Users /\ inactive' = inactive /\ OneAccountPerEmail
        BY DEF WebInv, TypeOK, AddAccount
      <3>2. call.email \in Emails \cup {AdminEmail, None}
        BY <1>1 DEF Call
      <3>3. \A b \in Users : accounts[b] # call.email
        BY <1>4, <3>1 DEF Conflict, EmailTaken
      <3>4. OneAccountPerEmail'
        BY <2>1, <2>2, <3>1, <3>2, <3>3 DEF OneAccountPerEmail
      <3> QED BY <2>1, <3>1, <3>2, <3>4 DEF AccountsMove
    <2>4. CASE scene.mode = "mock"
      <3>1. SessionsMove /\ CallsMove
        BY <1>1, <1>2, <2>1, <2>2, <2>4, IssueMoves DEF AddAccount
      <3> QED BY <1>2, <2>3, <3>1, HandlerStep DEF AddAccount
    <2>5. CASE scene.mode # "mock"
      <3> DEFINE c == [call EXCEPT !.pc = "verified", !.as = a]
      <3>1. /\ c \in Call /\ c.pc = "verified" /\ c.page = call.page /\ c.op = call.op
            /\ c.late = call.late /\ c.as = a
        BY <1>1, <2>2 DEF Call, Steps, Identities
      <3>2. PICK d \in Call : d = c
        BY <3>1
      <3>3. CallInv(d)'
        <4> HIDE DEF c
        <4> QED BY <1>1, <2>2, <3>1, <3>2
                DEF CallInv, PageCall, SignInCall, LateCall, ItemCall, OffBoard
      <3>4. CallsMove
        BY <1>1, <2>1, <2>5, <3>1, <3>2, <3>3, OneCallMoves
      <3>5. SessionsMove
        BY <2>1, <2>5, NothingMoves
      <3> QED BY <1>2, <2>3, <3>4, <3>5, HandlerStep DEF AddAccount
    <2> QED BY <2>4, <2>5
  <1> QED BY <1>3, <1>4

LEMMA OpenSessionKeeps ==
  ASSUME WebInv, NEW s \in Threads, OpenSession(s), sent' = sent
  PROVE  WebInv'
  <1>1. /\ calls[s] # None /\ calls[s].pc = "verified" /\ calls[s].op \in SignIns
        /\ calls[s].as \in Users
    BY CallsAreCalls DEF OpenSession, At, CallInv, SignInCall
  <1>2. BoardMoves /\ AccountsMove
    BY NothingMoves DEF OpenSession
  <1>3. SessionsMove /\ CallsMove
    BY <1>1, <1>2, IssueMoves DEF OpenSession
  <1> QED BY <1>2, <1>3, HandlerStep DEF OpenSession

LEMMA LogoutKeeps ==
  ASSUME WebInv, NEW s \in Threads, Logout(s), sent' = sent
  PROVE  WebInv'
  <1> DEFINE call == calls[s]
  <1>1. /\ call # None /\ call \in Call /\ CallInv(call) /\ call.pc = "sent"
        /\ call.op = "logout"
    BY CallsAreCalls DEF Logout, At
  <1>2. sessions \in [Tokens -> Session \cup {None}]
    BY DEF WebInv, TypeOK
  <1>3. SessionsMove
    BY <1>2 DEF Logout, SessionsMove
  <1>4. AccountsMove /\ BoardMoves
    BY NothingMoves DEF Logout
  <1>5. PICK st \in {"unauthorised", "ok"} : Reply(s, st)
    BY DEF Logout
  <1>6. PICK d : d = Answered(call, st)
    OBVIOUS
  <1>7. /\ d \in Call \cup {None}
        /\ d # None => /\ d.pc = "answered" /\ d.token = call.token /\ d.op = "logout"
                       /\ d.page = call.page /\ d.late = call.late
    BY <1>1, <1>6, AnsweredType DEF Statuses
  <1>8. ~call.late
    BY <1>1 DEF CallInv, LateCall, OffBoard
  <1>9. d # None => CallInv(d)'
    BY <1>1, <1>7, <1>8
       DEF Logout, CallInv, PageCall, SignInCall, LateCall, ItemCall, SignIns
  <1>10. CallsMove
    BY <1>1, <1>5, <1>6, <1>7, <1>9, OneCallMoves DEF Reply
  <1> QED BY <1>3, <1>4, <1>10, HandlerStep DEF Logout

\* Going on as the page's user.
LEMMA ActorStep ==
  ASSUME WebInv, NEW s \in Threads, calls[s] # None,
         calls[s].pc \in {"sent", "known"}, calls[s].op \notin SignIns \cup {"logout"},
         NEW user \in Identities, NEW pc \in {"known", "admitted"},
         calls[s].page # None => user = pages[calls[s].page].user,
         Continue(s, [calls[s] EXCEPT !.pc = pc, !.as = user]),
         UNCHANGED <<login, board, pages, sent>>
  PROVE  WebInv'
  <1>1. calls[s] \in Call /\ CallInv(calls[s])
    BY CallsAreCalls
  <1>2. PICK d : d = [calls[s] EXCEPT !.pc = pc, !.as = user]
    OBVIOUS
  <1>3. /\ d \in Call /\ d.pc = pc /\ d.as = user
        /\ d.token = calls[s].token /\ d.op = calls[s].op /\ d.page = calls[s].page
        /\ d.late = calls[s].late /\ d.item = calls[s].item
    BY <1>1, <1>2 DEF Call, Steps
  <1>4. CallInv(d)
    BY <1>1, <1>3 DEF CallInv, PageCall, SignInCall, LateCall, ItemCall
  <1> QED BY <1>2, <1>3, <1>4, CallStep DEF board

LEMMA ReadSessionKeeps ==
  ASSUME WebInv, NEW s \in Threads, ReadSession(s), sent' = sent
  PROVE  WebInv'
  <1> DEFINE call == calls[s]
             token == call.token
  <1>1. /\ call # None /\ call \in Call /\ CallInv(call) /\ call.pc = "sent"
        /\ call.op \notin SignIns \cup {"logout"}
    BY CallsAreCalls DEF ReadSession, At, SignIns
  <1>2. /\ sessions \in [Tokens -> Session \cup {None}]
        /\ pages \in [Pages -> [token : Tokens \cup {None}, user : Identities,
                            invalid : BOOLEAN, shown : SUBSET Identities]]
    BY DEF WebInv, TypeOK
  <1>3. token \in Tokens \cup {None} /\ call.page \in Pages \cup {None}
    BY <1>1 DEF Call
  <1>4. CASE token = None
    <2>1. call.page # None => call.as = pages[call.page].user
      BY <1>1, <1>3, <1>4 DEF CallInv, PageCall, WebInv, PageShowsItsUser
    <2>2. call.as \in Identities
      BY <1>1 DEF Call
    <2> QED BY <1>1, <1>4, <2>1, <2>2, ActorStep
            DEF ReadSession, Admitted, login, board
  <1>5. CASE token # None /\ sessions[token] = None
    BY <1>1, <1>2, <1>5, Refusal DEF ReadSession, login, board, Statuses
  <1>6. CASE token # None /\ sessions[token] # None /\ sessions[token].expired
    <2>1. Reply(s, "unauthorised") /\ sessions' = [sessions EXCEPT ![token] = None]
      BY <1>6 DEF ReadSession
    <2>2. SessionsMove
      BY <1>2, <2>1 DEF SessionsMove
    <2>3. AccountsMove /\ BoardMoves
      BY NothingMoves DEF ReadSession
    <2>4. PICK d : d = Answered(call, "unauthorised")
      OBVIOUS
    <2>5. /\ d \in Call \cup {None}
          /\ d # None => /\ d.pc = "answered" /\ d.status = "unauthorised"
                         /\ d.token = call.token /\ d.op = call.op
                         /\ d.page = call.page /\ d.late = call.late
      BY <1>1, <2>4, AnsweredType DEF Statuses
    <2>6. d # None => CallInv(d)'
      BY <1>1, <2>5 DEF ReadSession, CallInv, PageCall, SignInCall, LateCall, ItemCall
    <2>7. CallsMove
      BY <1>1, <2>1, <2>4, <2>5, <2>6, OneCallMoves DEF Reply
    <2> QED BY <2>2, <2>3, <2>7, HandlerStep DEF ReadSession
  <1>7. CASE token # None /\ sessions[token] # None /\ ~sessions[token].expired
    <2> DEFINE user == sessions[token].user
    <2>1. user \in Identities
      BY <1>2, <1>3, <1>7 DEF Session, Identities
    <2>2. call.page # None => user = pages[call.page].user
      BY <1>1, <1>3, <1>7 DEF CallInv, PageCall, WebInv, TokensInv
    <2>3. CASE scene.mode = "mock"
      BY <1>1, <1>7, <2>1, <2>2, <2>3, ActorStep DEF ReadSession, Admitted, login, board
    <2>4. CASE scene.mode # "mock"
      BY <1>1, <1>7, <2>1, <2>2, <2>4, ActorStep DEF ReadSession, login, board
    <2> QED BY <2>3, <2>4
  <1> QED BY <1>4, <1>5, <1>6, <1>7

LEMMA FindActorKeeps ==
  ASSUME WebInv, NEW s \in Threads, FindActor(s), sent' = sent
  PROVE  WebInv'
  <1> DEFINE call == calls[s]
  <1>1. /\ call # None /\ call \in Call /\ CallInv(call) /\ call.pc = "known"
    BY CallsAreCalls DEF FindActor, At, WebInv, TypeOK, board
  <1>2. CASE call.as \in inactive
    BY <1>1, <1>2, Refusal DEF FindActor, board, Statuses
  <1>3. CASE call.as \notin inactive
    <2>1. PICK d : d = [call EXCEPT !.pc = "admitted", !.as = call.as]
      OBVIOUS
    <2>2. /\ d \in Call /\ d.pc = "admitted" /\ d.as = call.as
          /\ d.token = call.token /\ d.op = call.op /\ d.page = call.page
          /\ d.late = call.late /\ d.item = call.item
      BY <1>1, <2>1 DEF Call, Steps
    <2>3. CallInv(d)
      BY <1>1, <2>2 DEF CallInv, PageCall, SignInCall, LateCall, ItemCall
    <2>4. Continue(s, d)
      BY <1>3, <2>1 DEF FindActor, Admitted
    <2> QED BY <1>1, <2>2, <2>3, <2>4, CallStep DEF FindActor, board
  <1> QED BY <1>2, <1>3

LEMMA StoreFailsKeeps ==
  ASSUME WebInv, NEW s \in Threads, StoreFails(s), sent' = sent
  PROVE  WebInv'
  BY Refusal DEF StoreFails, board, Statuses, WebInv, TypeOK

LEMMA FetchKeeps ==
  ASSUME WebInv, NEW s \in Threads, Fetch(s), sent' = sent
  PROVE  WebInv'
  <1>1. /\ calls[s] # None /\ calls[s].pc = "admitted" /\ calls[s].op \in {"me", "fetch"}
        /\ CallInv(calls[s])
    BY CallsAreCalls DEF Fetch, At
  <1>2. calls[s].op \notin SignIns /\ ~calls[s].late
    BY <1>1 DEF CallInv, LateCall, SignIns, OffBoard
  <1> QED BY <1>1, <1>2, SuccessOnly DEF Fetch

LEMMA LapseKeeps ==
  ASSUME WebInv, NEW t \in Tokens, Lapse(t), sent' = sent
  PROVE  WebInv'
  <1>1. sessions \in [Tokens -> Session \cup {None}]
    BY DEF WebInv, TypeOK
  <1>2. sessions[t] \in Session
    BY <1>1 DEF Lapse
  <1>3. PICK x : /\ sessions' = [sessions EXCEPT ![t] = x]
                 /\ x = None \/ (x \in Session /\ x.user = sessions[t].user)
    <2>1. CASE scene.mode = "redis"
      BY <2>1 DEF Lapse
    <2>2. CASE scene.mode # "redis"
      <3>1. sessions' = [sessions EXCEPT ![t] = [sessions[t] EXCEPT !.expired = TRUE]]
        BY <2>2 DEF Lapse
      <3>2. PICK x : x = [sessions[t] EXCEPT !.expired = TRUE]
        OBVIOUS
      <3>3. x \in Session /\ x.user = sessions[t].user
        BY <1>2, <3>2 DEF Session
      <3> QED BY <3>1, <3>2, <3>3
    <2> QED BY <2>1, <2>2
  <1>4. SessionsMove
    BY <1>1, <1>2, <1>3 DEF SessionsMove, Lapse
  <1>5. CallsMove /\ AccountsMove /\ BoardMoves
    BY NothingMoves DEF Lapse
  <1> QED BY <1>4, <1>5, HandlerStep DEF Lapse

LEMMA DeactivateKeeps ==
  ASSUME WebInv, NEW a \in Users, Deactivate(a), sent' = sent
  PROVE  WebInv'
  <1>1. AccountsMove
    BY DEF WebInv, TypeOK, OneAccountPerEmail, Deactivate, AccountsMove
  <1>2. SessionsMove /\ CallsMove /\ BoardMoves
    BY NothingMoves DEF Deactivate
  <1> QED BY <1>1, <1>2, HandlerStep DEF Deactivate

-----------------------------------------------------------------------------
(* The board *)

\* One call goes to another step of the same handler.
LEMMA GoOn ==
  ASSUME WebInv, NEW s \in Threads, calls[s] # None, NEW pc \in {"found", "pending"},
         calls[s].op \notin OffBoard, ~calls[s].late,
         calls[s].pc \in {"admitted", "found"}, Goto(s, pc),
         UNCHANGED <<login, items, stored, removed, pages, sent>>
  PROVE  WebInv'
  <1>1. calls[s] \in Call /\ CallInv(calls[s])
    BY CallsAreCalls
  <1>2. PICK d : d = [calls[s] EXCEPT !.pc = pc]
    OBVIOUS
  <1>3. /\ d \in Call /\ d.pc = pc /\ d.as = calls[s].as
        /\ d.token = calls[s].token /\ d.op = calls[s].op /\ d.page = calls[s].page
        /\ d.late = calls[s].late /\ d.item = calls[s].item
    BY <1>1, <1>2 DEF Call, Steps
  <1>4. CallInv(d)
    BY <1>1, <1>3
       DEF CallInv, PageCall, SignInCall, LateCall, ItemCall, OffBoard, SignIns
  <1> QED BY <1>2, <1>3, <1>4, CallStep DEF Goto

\* A handler that found its record serves a request sent before its removal.
LEMMA FoundInTime ==
  ASSUME WebInv, NEW s \in Threads, calls[s] # None,
         calls[s].pc \in {"found", "pending", "linking"}
  PROVE  /\ calls[s].op \notin OffBoard /\ calls[s].op \notin SignIns
         /\ ~calls[s].late /\ calls[s].pc # "answered" /\ calls[s].pc # "sent"
         /\ calls[s].item \in Items /\ items[calls[s].item] # None
         /\ items[calls[s].item] \in Record
  <1>1. CallInv(calls[s])
    BY CallsAreCalls
  <1> QED BY <1>1 DEF CallInv, LateCall, ItemCall, OffBoard, WebInv, TypeOK

LEMMA FindKeeps ==
  ASSUME WebInv, NEW s \in Threads, Find(s), sent' = sent
  PROVE  WebInv'
  <1>1. /\ calls[s] # None /\ calls[s] \in Call /\ CallInv(calls[s])
        /\ calls[s].pc = "admitted" /\ calls[s].op \notin OffBoard
    BY CallsAreCalls DEF Find, At, OnItem, OffBoard, SignIns
  <1>2. calls[s].item \in Items
    BY <1>1 DEF CallInv, ItemCall
  <1>4. CASE calls[s].item \in stored /\ Permitted(s)
    <2>1. ~calls[s].late
      BY <1>1, <1>4 DEF CallInv, LateCall, WebInv, BoardInv
    <2> QED BY <1>1, <1>4, <2>1, GoOn DEF Find, board
  <1>5. CASE ~(calls[s].item \in stored /\ Permitted(s))
    BY <1>1, <1>5, Refusal DEF Find, board, Statuses
  <1> QED BY <1>4, <1>5

LEMMA BeginListKeeps ==
  ASSUME WebInv, NEW s \in Threads, BeginList(s), sent' = sent
  PROVE  WebInv'
  <1>1. /\ calls[s] # None /\ calls[s] \in Call /\ CallInv(calls[s])
        /\ calls[s].pc = "admitted" /\ calls[s].op = "list"
    BY CallsAreCalls DEF BeginList, At, WebInv, TypeOK, board
  <1>2. Cardinality(Of(calls[s].kind)) \in Nat
    <2>1. Of(calls[s].kind) \subseteq Items
      BY DEF Of, WebInv, TypeOK
    <2> QED BY <2>1, WebAssumption, FS_Subset, FS_CardinalityType
  <1>3. PICK d : d = [calls[s] EXCEPT !.pc = "listing",
                          !.count = Cardinality(Of(calls[s].kind))]
    OBVIOUS
  <1>4. /\ d \in Call /\ d.pc = "listing" /\ d.as = calls[s].as
        /\ d.token = calls[s].token /\ d.op = calls[s].op /\ d.page = calls[s].page
        /\ d.late = calls[s].late
    BY <1>1, <1>2, <1>3 DEF Call, Steps
  <1>5. CallInv(d)
    BY <1>1, <1>4
       DEF CallInv, PageCall, SignInCall, LateCall, ItemCall, OffBoard, SignIns
  <1> QED BY <1>1, <1>3, <1>4, <1>5, CallStep DEF BeginList, board

LEMMA EndListKeeps ==
  ASSUME WebInv, NEW s \in Threads, EndList(s), sent' = sent
  PROVE  WebInv'
  <1>1. /\ calls[s] # None /\ CallInv(calls[s]) /\ calls[s].pc = "listing"
    BY CallsAreCalls DEF EndList, At, WebInv, TypeOK, board
  <1>2. calls[s].op \notin SignIns /\ ~calls[s].late
    BY <1>1 DEF CallInv, LateCall, SignInCall
  <1>3. CASE Reply(s, "ok")
    BY <1>1, <1>2, <1>3, SuccessOnly DEF EndList
  <1>4. CASE Reply(s, "failed")
    BY <1>1, <1>4, Refusal DEF EndList, board, Statuses
  <1> QED BY <1>3, <1>4 DEF EndList

LEMMA AddKeeps ==
  ASSUME WebInv, NEW s \in Threads, Add(s), sent' = sent
  PROVE  WebInv'
  <1> DEFINE call == calls[s]
  <1>1. PICK i \in Items, private \in BOOLEAN :
           /\ items[i] = None
           /\ items' = [items EXCEPT ![i] =
                  [kind |-> IF call.op = "comment" THEN "comment" ELSE call.kind,
                   owner |-> call.as, private |-> private, answered |-> FALSE,
                   parent |-> IF call.op = "comment" THEN call.item ELSE None]]
           /\ stored' = stored \cup {i}
           /\ IF call.op = "resubmit"
              THEN Continue(s, [call EXCEPT !.pc = "linking", !.item = i])
              ELSE Reply(s, "ok")
    BY DEF Add
  <1>2. /\ call # None /\ call \in Call /\ CallInv(call)
        /\ \/ call.pc = "admitted" /\ call.op = "add"
           \/ call.pc = "found" /\ call.op \in {"comment", "resubmit"}
    BY CallsAreCalls DEF Add, At
  <1>3. call.op \notin SignIns /\ ~call.late
    BY <1>2 DEF CallInv, LateCall, SignIns, OffBoard
  <1>4. BoardMoves
    <2> DEFINE x == [kind |-> IF call.op = "comment" THEN "comment" ELSE call.kind,
                     owner |-> call.as, private |-> private, answered |-> FALSE,
                     parent |-> IF call.op = "comment" THEN call.item ELSE None]
    <2>1. x \in Record
      BY <1>2 DEF Call, Record, Kinds
    <2> HIDE DEF x
    <2>2. items' = [items EXCEPT ![i] = x]
      BY <1>1 DEF x
    <2>3. /\ items \in [Items -> Record \cup {None}] /\ stored \subseteq Items
          /\ removed \subseteq Items /\ BoardInv
      BY DEF WebInv, TypeOK
    <2>4. removed' = removed
      BY DEF Add
    <2>5. x # None
      BY <2>1, NoneAssumption
    <2>6. \A j \in Items : items[j] # None \/ j = i => items'[j] # None
      BY <2>2, <2>3, <2>5
    <2>7. BoardInv'
      BY <1>1, <2>3, <2>4, <2>6 DEF BoardInv
    <2>8. items' \in [Items -> Record \cup {None}]
      BY <2>1, <2>2, <2>3
    <2> QED BY <1>1, <2>3, <2>4, <2>6, <2>7, <2>8 DEF BoardMoves
  <1>5. SessionsMove /\ AccountsMove
    BY NothingMoves DEF Add, login
  <1>6. CASE call.op = "resubmit"
    <2>1. PICK d : d = [call EXCEPT !.pc = "linking", !.item = i]
      OBVIOUS
    <2>2. /\ d \in Call /\ d.pc = "linking" /\ d.as = call.as /\ d.item = i
          /\ d.token = call.token /\ d.op = call.op /\ d.page = call.page
          /\ d.late = call.late
      BY <1>2, <2>1 DEF Call, Steps
    <2>3. items'[i] # None
      BY <1>1, <1>4 DEF BoardMoves, BoardInv
    <2>4. CallInv(d)'
      BY <1>2, <1>3, <1>6, <2>2, <2>3
         DEF Add, login, CallInv, PageCall, SignInCall, LateCall, ItemCall, OffBoard, SignIns
    <2>5. CallsMove
      BY <1>1, <1>2, <1>6, <2>1, <2>2, <2>4, OneCallMoves
    <2> QED BY <1>4, <1>5, <2>5, HandlerStep DEF Add, login
  <1>7. CASE call.op # "resubmit"
    BY <1>1, <1>2, <1>3, <1>4, <1>5, <1>7, Success DEF Add, login
  <1> QED BY <1>6, <1>7

LEMMA RefuseFaqKeeps ==
  ASSUME WebInv, NEW s \in Threads, RefuseFaq(s), sent' = sent
  PROVE  WebInv'
  BY Refusal DEF RefuseFaq, At, board, Statuses, WebInv, TypeOK

LEMMA LinkKeeps ==
  ASSUME WebInv, NEW s \in Threads, Link(s), sent' = sent
  PROVE  WebInv'
  <1>1. calls[s] # None /\ calls[s].pc = "linking"
    BY DEF Link, At, WebInv, TypeOK, board
  <1>2. CASE Reply(s, "ok")
    BY <1>1, <1>2, FoundInTime, SuccessOnly DEF Link
  <1>3. CASE Reply(s, "failed")
    BY <1>1, <1>3, Refusal DEF Link, board, Statuses
  <1> QED BY <1>2, <1>3 DEF Link

LEMMA ViewKeeps ==
  ASSUME WebInv, NEW s \in Threads, View(s), sent' = sent
  PROVE  WebInv'
  <1>1. calls[s] # None /\ calls[s].pc = "found"
    BY DEF View, At, WebInv, TypeOK, board
  <1>2. CASE Reply(s, "ok")
    BY <1>1, <1>2, FoundInTime, SuccessOnly DEF View
  <1>3. CASE Reply(s, "refused")
    BY <1>1, <1>3, Refusal DEF View, board, Statuses
  <1> QED BY <1>2, <1>3 DEF View

LEMMA CheckPendingKeeps ==
  ASSUME WebInv, NEW s \in Threads, CheckPending(s), sent' = sent
  PROVE  WebInv'
  <1>1. calls[s] # None /\ calls[s].pc = "found"
    BY DEF CheckPending, At, WebInv, TypeOK, board
  <1>2. CASE Goto(s, "pending")
    BY <1>1, <1>2, FoundInTime, GoOn DEF CheckPending, board
  <1>3. CASE Reply(s, "refused")
    BY <1>1, <1>3, Refusal DEF CheckPending, board, Statuses
  <1> QED BY <1>2, <1>3 DEF CheckPending

\* A record that changes is still a record.
LEMMA RecordChanges ==
  ASSUME WebInv, NEW i \in Items, items[i] # None, NEW x \in Record,
         items' = [items EXCEPT ![i] = x], UNCHANGED <<stored, removed>>
  PROVE  BoardMoves
  BY NoneAssumption DEF WebInv, TypeOK, BoardInv, BoardMoves

LEMMA EditKeeps ==
  ASSUME WebInv, NEW s \in Threads, Edit(s), sent' = sent
  PROVE  WebInv'
  <1> DEFINE i == calls[s].item
  <1>1. calls[s] # None /\ calls[s].pc \in {"found", "pending"}
    BY DEF Edit, At
  <1>2. i \in Items /\ items[i] # None /\ items[i] \in Record
    BY <1>1, FoundInTime
  <1>3. CASE calls[s].kind = "faq" /\ i \notin stored
    BY <1>1, <1>3, Refusal DEF Edit, Statuses, WebInv, TypeOK
  <1>4. CASE ~(calls[s].kind = "faq" /\ i \notin stored)
    <2>1. PICK private \in BOOLEAN : items' = [items EXCEPT ![i].private = private]
      BY <1>4 DEF Edit
    <2>2. PICK x : x = [items[i] EXCEPT !.private = private]
      OBVIOUS
    <2>3. x \in Record
      BY <1>2, <2>2 DEF Record
    <2>4. BoardMoves
      BY <1>2, <1>4, <2>1, <2>2, <2>3, RecordChanges DEF Edit, StoredAfterEdit
    <2>5. SessionsMove /\ AccountsMove
      BY NothingMoves DEF Edit, login
    <2>6. CASE Reply(s, "ok")
      BY <1>1, <2>4, <2>5, <2>6, FoundInTime, Success DEF Edit, login
    <2>7. CASE Goto(s, "linking")
      <3> DEFINE call == calls[s]
      <3>1. /\ call # None /\ call \in Call /\ CallInv(call) /\ call.op \notin OffBoard
            /\ call.op \notin SignIns /\ ~call.late /\ call.pc \in {"found", "pending"}
        BY <1>1, FoundInTime, CallsAreCalls
      <3>2. PICK d : d = [call EXCEPT !.pc = "linking"]
        OBVIOUS
      <3>3. /\ d \in Call /\ d.pc = "linking" /\ d.as = call.as /\ d.item = call.item
            /\ d.token = call.token /\ d.op = call.op /\ d.page = call.page
            /\ d.late = call.late
        BY <3>1, <3>2 DEF Call, Steps
      <3>4. items'[call.item] # None /\ call.item \in Items
        BY <1>2, <2>4 DEF BoardMoves
      <3>5. CallInv(d)'
        BY <3>1, <3>3, <3>4
           DEF Edit, login, CallInv, PageCall, SignInCall, LateCall, ItemCall
      <3>6. CallsMove
        BY <2>7, <3>1, <3>2, <3>3, <3>5, OneCallMoves DEF Goto
      <3> QED BY <2>4, <2>5, <3>6, HandlerStep DEF Edit, login
    <2> QED BY <1>4, <2>6, <2>7 DEF Edit
  <1> QED BY <1>3, <1>4

LEMMA AnswerQuestionKeeps ==
  ASSUME WebInv, NEW s \in Threads, AnswerQuestion(s), sent' = sent
  PROVE  WebInv'
  <1> DEFINE i == calls[s].item
  <1>1. calls[s] # None /\ calls[s].pc = "found"
    BY DEF AnswerQuestion, At
  <1>2. i \in Items /\ items[i] # None /\ items[i] \in Record
    BY <1>1, FoundInTime
  <1>3. PICK x : x = [items[i] EXCEPT !.answered = TRUE]
    OBVIOUS
  <1>4. x \in Record
    BY <1>2, <1>3 DEF Record
  <1>5. BoardMoves
    BY <1>2, <1>3, <1>4, RecordChanges DEF AnswerQuestion
  <1>6. SessionsMove /\ AccountsMove
    BY NothingMoves DEF AnswerQuestion, login
  <1> QED BY <1>1, <1>5, <1>6, FoundInTime, Success DEF AnswerQuestion, login

LEMMA RemoveKeeps ==
  ASSUME WebInv, NEW s \in Threads, Remove(s), sent' = sent
  PROVE  WebInv'
  <1>1. calls[s] # None /\ calls[s].pc = "found"
    BY DEF Remove, At
  <1>2. calls[s].item \in Items /\ items[calls[s].item] # None
    BY <1>1, FoundInTime
  <1>3. CASE calls[s].item \in stored
    <2>1. BoardMoves
      BY <1>2, <1>3 DEF Remove, WebInv, TypeOK, BoardInv, BoardMoves
    <2>2. SessionsMove /\ AccountsMove
      BY NothingMoves DEF Remove, login
    <2> QED BY <1>1, <1>3, <2>1, <2>2, FoundInTime, Success DEF Remove, login
  <1>4. CASE calls[s].item \notin stored
    BY <1>1, <1>4, Refusal DEF Remove, Statuses, WebInv, TypeOK
  <1> QED BY <1>3, <1>4

-----------------------------------------------------------------------------
(* Pages *)

PageStates == [token : Tokens \cup {None}, user : Identities,
               invalid : BOOLEAN, shown : SUBSET Identities]

\* What page p may be.
PageInv(p, page) ==
    /\ page \in PageStates
    /\ page.shown \subseteq {page.user}
    /\ page.user = p <=> page.token = None
    /\ page.token # None /\ sessions[page.token] # None =>
          sessions[page.token].user = page.user

\* A page that waits for nothing asks for something.
LEMMA SendKeeps ==
  ASSUME WebInv, NEW p \in Pages, Ready(p),
         NEW op \in Operations, NEW kind \in Kinds \cup {None},
         NEW item \in Items \cup {None}, NEW email \in Emails \cup {AdminEmail, None},
         op = "me" => pages[p].token # None,
         op \notin OffBoard => item \in Items /\ items[item] # None,
         op \in OffBoard => item = None,
         Send(p, Request(p, op, kind, item, email))
  PROVE  WebInv'
  <1>1. /\ removed \subseteq Items /\ pages[p].token \in Tokens \cup {None}
        /\ sent \in Nat /\ calls \in [Threads -> Call \cup {None}]
    BY DEF WebInv, TypeOK
  <1>2. PICK s \in Threads :
           /\ calls[s] = None /\ sent' = sent + 1
           /\ Continue(s, Request(p, op, kind, item, email))
           /\ UNCHANGED <<login, board, pages>>
    BY DEF Send
  <1>3. PICK d : d = Request(p, op, kind, item, email)
    OBVIOUS
  <1>4. /\ d \in Call /\ d.page = p /\ d.op = op /\ d.item = item /\ d.pc = "sent"
        /\ d.token = pages[p].token /\ d.as = p /\ d.late = (item \in removed)
    BY <1>1, <1>3 DEF Request, Call, Identities, Steps, Statuses
  <1>5. CallInv(d)
    BY <1>1, <1>4, NoneAssumption DEF CallInv, PageCall, SignInCall, LateCall, ItemCall
  <1>6. calls' = [calls EXCEPT ![s] = d]
    BY <1>2, <1>3 DEF Continue
  <1>7. TypeOK'
    BY <1>1, <1>2, <1>4, <1>6 DEF WebInv, TypeOK, login, board
  <1>8. CallsInv'
    <2> SUFFICES ASSUME NEW u \in Threads, calls'[u] # None PROVE CallInv(calls[u])'
      BY DEF CallsInv
    <2>1. PICK c \in Call : c = calls'[u] /\ CallInv(c)
      BY <1>1, <1>4, <1>5, <1>6 DEF WebInv, CallsInv
    <2> QED BY <1>2, <2>1
            DEF login, board, CallInv, PageCall, SignInCall, LateCall, ItemCall
  <1>9. OneRequest'
    BY <1>1, <1>4, <1>6 DEF WebInv, OneRequest, Ready, Waits
  <1>10. TokensInv' /\ BoardInv' /\ PageShowsItsUser' /\ OneAccountPerEmail'
    BY <1>2 DEF WebInv, TokensInv, BoardInv, PageShowsItsUser, OneAccountPerEmail,
               login, board
  <1> QED BY <1>7, <1>8, <1>9, <1>10 DEF WebInv

LEMMA SignInKeeps ==
  ASSUME WebInv, NEW p \in Pages, SignIn(p)
  PROVE  WebInv'
  <1>1. PICK op \in {"register", "login"}, email \in Emails \cup {AdminEmail} :
           Send(p, Request(p, op, None, None, email))
    BY DEF SignIn
  <1>2. op \in Operations /\ op \in OffBoard /\ op # "me"
    BY DEF Operations, OffBoard, SignIns
  <1> QED BY <1>1, <1>2, SendKeeps DEF SignIn

LEMMA AskAsUserKeeps ==
  ASSUME WebInv, NEW p \in Pages, AskAsUser(p)
  PROVE  WebInv'
  <1>1. PICK op \in {"logout", "me", "fetch"} :
           /\ op # "fetch" => pages[p].token # None
           /\ Send(p, Request(p, op, None, None, None))
    BY DEF AskAsUser
  <1>2. op \in Operations /\ op \in OffBoard
    BY DEF Operations, OffBoard
  <1> QED BY <1>1, <1>2, SendKeeps DEF AskAsUser

LEMMA AskBoardKeeps ==
  ASSUME WebInv, NEW p \in Pages, AskBoard(p)
  PROVE  WebInv'
  <1>1. scene \in Scenes /\ scene.operations \subseteq Operations
    BY WebAssumption DEF WebInv, TypeOK
  <1>2. PICK op \in scene.operations \ {"register", "login", "logout", "me", "fetch"} :
           \/ op \in {"list", "add"} /\ \E kind \in Kinds \ {"comment"} :
                  Send(p, Request(p, op, kind, None, None))
           \/ op \notin {"list", "add"} /\ \E i \in {j \in Items : items[j] # None} :
                  /\ op = "edit" \/ op = "remove" \/ items[i].kind = "question"
                  /\ Send(p, Request(p, op, items[i].kind, i, None))
    BY DEF AskBoard
  <1>3. op \in Operations /\ op # "me" /\ Ready(p)
    BY <1>1, <1>2 DEF AskBoard
  <1>4. CASE op \in {"list", "add"}
    BY <1>2, <1>3, <1>4, SendKeeps DEF OffBoard
  <1>5. CASE op \notin {"list", "add"}
    <2>1. op \notin OffBoard
      BY <1>2, <1>5 DEF OffBoard, SignIns
    <2>2. PICK i \in Items : items[i] # None /\ Send(p, Request(p, op, items[i].kind, i, None))
      BY <1>2, <1>5
    <2>3. items[i].kind \in Kinds \cup {None}
      BY <2>2 DEF WebInv, TypeOK, Record
    <2> QED BY <1>3, <2>1, <2>2, <2>3, SendKeeps
  <1> QED BY <1>4, <1>5

\* A page changes when it waits for nothing any more.
LEMMA PageStep ==
  ASSUME WebInv, NEW p \in Pages, NEW page, PageInv(p, page) \/ page = pages[p],
         pages' = [pages EXCEPT ![p] = page],
         calls' \in [Threads -> Call \cup {None}],
         \A s \in Threads : calls'[s] # None =>
            \/ calls'[s] = calls[s] /\ calls[s].page # p
            \/ CallInv(calls[s])' /\ calls'[s].page = None,
         UNCHANGED <<login, board, sent>>
  PROVE  WebInv'
  <1>1. /\ pages \in [Pages -> PageStates] /\ calls \in [Threads -> Call \cup {None}]
        /\ \A q \in Pages : PageInv(q, pages[q])
    BY DEF WebInv, TypeOK, PageShowsItsUser, TokensInv, PageInv, PageStates
  <1>2. /\ pages' \in [Pages -> PageStates] /\ PageInv(p, page)
        /\ \A q \in Pages : pages'[q] = pages[q] \/ (q = p /\ pages'[q] = page)
    BY <1>1 DEF PageInv
  <1>3. TypeOK'
    BY <1>2 DEF WebInv, TypeOK, login, board, PageStates
  <1>4. TokensInv' /\ PageShowsItsUser'
    BY <1>1, <1>2, NoneAssumption DEF PageInv, TokensInv, PageShowsItsUser, login
  <1>5. CallsInv'
    <2> SUFFICES ASSUME NEW s \in Threads, calls'[s] # None PROVE CallInv(calls[s])'
      BY DEF CallsInv
    <2>1. CASE calls'[s] = calls[s] /\ calls[s].page # p
      <3>1. PICK c \in Call : c = calls[s] /\ CallInv(c)
        BY <1>1, <2>1 DEF WebInv, CallsInv
      <3>2. c.page # None => pages'[c.page] = pages[c.page]
        BY <1>1, <2>1, <3>1 DEF Call
      <3> QED BY <2>1, <3>1, <3>2
              DEF login, board, CallInv, PageCall, SignInCall, LateCall, ItemCall
    <2> QED BY <2>1
  <1>6. OneRequest'
    BY DEF WebInv, OneRequest
  <1>7. BoardInv' /\ OneAccountPerEmail'
    BY DEF WebInv, BoardInv, OneAccountPerEmail, login, board
  <1> QED BY <1>3, <1>4, <1>5, <1>6, <1>7 DEF WebInv

LEMMA ExpiredIsFresh ==
  ASSUME WebInv, NEW p \in Pages
  PROVE  PageInv(p, Expired(p))
  <1>1. pages[p] \in PageStates /\ p \in Identities
    BY DEF WebInv, TypeOK, PageStates, Identities
  <1>2. PICK page : page = [pages[p] EXCEPT !.shown = {}]
    OBVIOUS
  <1>3. page \in PageStates /\ page.shown = {}
    BY <1>1, <1>2 DEF PageStates
  <1>4. PICK e : e = [page EXCEPT !.token = None, !.user = p, !.invalid = FALSE]
    OBVIOUS
  <1>5. e = [token |-> None, user |-> p, invalid |-> FALSE, shown |-> {}]
    BY <1>3, <1>4 DEF PageStates
  <1>6. PageInv(p, e)
    BY <1>1, <1>5 DEF PageInv, PageStates
  <1> QED BY <1>2, <1>4, <1>6 DEF Expired, Cleared

\* What an answer makes of its page.
LEMMA PageAfterIsSound ==
  ASSUME WebInv, NEW p \in Pages, NEW c \in Call, CallInv(c), c.page = p,
         c.pc = "answered"
  PROVE  PageInv(p, PageAfter(p, c))
  <1>1. pages[p] \in PageStates /\ PageInv(p, pages[p])
    BY DEF WebInv, TypeOK, PageShowsItsUser, TokensInv, PageInv, PageStates
  <1>2. PICK page : page = [pages[p] EXCEPT !.shown = {}]
    OBVIOUS
  <1>3. /\ page \in PageStates /\ page.shown = {} /\ page.token = pages[p].token
        /\ page.user = pages[p].user
    BY <1>1, <1>2 DEF PageStates
  <1>4. p # None
    BY NoneAssumption
  <1>5. CASE c.op = "logout" \/ (c.op = "me" /\ c.status = "unauthorised")
    BY <1>5, ExpiredIsFresh DEF PageAfter
  <1>6. CASE c.op = "me" /\ c.status = "ok"
    <2>1. c.as = pages[p].user
      BY <1>4, <1>6 DEF CallInv, PageCall, SignIns
    <2>2. PICK x : x = [pages[p] EXCEPT !.user = c.as]
      OBVIOUS
    <2>3. x = pages[p]
      BY <1>1, <2>1, <2>2 DEF PageStates
    <2>4. PageAfter(p, c) = x
      BY <1>6, <2>1, <2>2 DEF PageAfter
    <2> QED BY <1>1, <2>3, <2>4
  <1>7. CASE c.op \in SignIns /\ c.status = "ok"
    <2>1. /\ c.token \in Tokens /\ c.as \in Users
          /\ sessions[c.token] # None => sessions[c.token].user = c.as
      BY <1>7 DEF CallInv, SignInCall
    <2>2. c.as # p /\ c.as \in Identities /\ c.token # None
      BY <2>1, WebAssumption, NoneAssumption DEF Identities
    <2>3. PICK x : x = [page EXCEPT !.token = c.token, !.user = c.as, !.invalid = FALSE]
      OBVIOUS
    <2>4. x = [token |-> c.token, user |-> c.as, invalid |-> FALSE, shown |-> {}]
      BY <1>3, <2>3 DEF PageStates
    <2>5. PageAfter(p, c) = x
      BY <1>2, <1>7, <2>3 DEF PageAfter, LoggedIn, Cleared, SignIns
    <2> QED BY <2>1, <2>2, <2>4, <2>5 DEF PageInv, PageStates
  <1>8. CASE c.op = "fetch" /\ c.status = "ok"
    <2>1. c.as = pages[p].user
      BY <1>4, <1>8 DEF CallInv, PageCall, SignIns
    <2>2. PICK x : x = [pages[p] EXCEPT !.shown = @ \cup {c.as}]
      OBVIOUS
    <2>3. /\ x \in PageStates /\ x.token = pages[p].token /\ x.user = pages[p].user
          /\ x.shown = pages[p].shown \cup {c.as}
      BY <1>1, <2>1, <2>2 DEF PageStates
    <2>4. PageAfter(p, c) = x
      BY <1>8, <2>2 DEF PageAfter
    <2> QED BY <1>1, <2>1, <2>3, <2>4 DEF PageInv
  <1>9. CASE /\ c.op # "logout"
             /\ ~(c.op = "me" /\ c.status \in {"unauthorised", "ok"})
             /\ ~(c.op \in SignIns \cup {"fetch"} /\ c.status = "ok")
    <2>1. PICK x : x = [pages[p] EXCEPT !.invalid =
                           @ \/ (c.status = "unauthorised" /\ c.token # None)]
      OBVIOUS
    <2>2. /\ x \in PageStates /\ x.token = pages[p].token /\ x.user = pages[p].user
          /\ x.shown = pages[p].shown
      BY <1>1, <2>1 DEF PageStates
    <2>3. PageAfter(p, c) = x
      BY <1>9, <2>1 DEF PageAfter, Told, SignIns
    <2> QED BY <1>1, <2>2, <2>3 DEF PageInv
  <1> QED BY <1>5, <1>6, <1>7, <1>8, <1>9

LEMMA ReceiveKeeps ==
  ASSUME WebInv, NEW p \in Pages, Receive(p), sent' = sent
  PROVE  WebInv'
  <1>1. PICK s \in Threads :
           /\ calls[s] # None /\ calls[s].pc = "answered" /\ calls[s].page = p
           /\ pages' = [pages EXCEPT ![p] = PageAfter(p, calls[s])]
           /\ calls' = [calls EXCEPT ![s] = None]
           /\ UNCHANGED <<login, board>>
    BY DEF Receive, At, Continue
  <1>2. PageInv(p, PageAfter(p, calls[s]))
    BY <1>1, CallsAreCalls, PageAfterIsSound
  <1>3. calls \in [Threads -> Call \cup {None}]
    BY DEF WebInv, TypeOK
  <1>4. \A u \in Threads : calls'[u] # None => calls'[u] = calls[u] /\ calls[u].page # p
    BY <1>1, <1>3, NoneAssumption DEF WebInv, OneRequest
  <1>5. PICK page : page = PageAfter(p, calls[s])
    OBVIOUS
  <1> QED BY <1>1, <1>2, <1>3, <1>4, <1>5, PageStep

LEMMA GiveUpKeeps ==
  ASSUME WebInv, NEW p \in Pages, GiveUp(p), sent' = sent
  PROVE  WebInv'
  <1>1. PICK s \in Threads :
           /\ calls[s] # None /\ calls[s].page = p
           /\ calls' = [calls EXCEPT ![s] = [calls[s] EXCEPT !.page = None]]
           /\ pages' = [pages EXCEPT ![p] = IF calls[s].op = "logout" THEN Expired(p) ELSE @]
           /\ UNCHANGED <<login, board>>
    BY DEF GiveUp, Continue
  <1>2. calls \in [Threads -> Call \cup {None}] /\ calls[s] \in Call /\ CallInv(calls[s])
    BY <1>1, CallsAreCalls DEF WebInv, TypeOK
  <1>3. PICK d : d = [calls[s] EXCEPT !.page = None]
    OBVIOUS
  <1>4. /\ d \in Call /\ d.page = None /\ d.op = calls[s].op /\ d.token = calls[s].token
        /\ d.as = calls[s].as /\ d.pc = calls[s].pc /\ d.status = calls[s].status
        /\ d.item = calls[s].item /\ d.late = calls[s].late
    BY <1>2, <1>3 DEF Call
  <1>5. calls' \in [Threads -> Call \cup {None}] /\ calls'[s] = d
        /\ \A u \in Threads : u # s => calls'[u] = calls[u]
    BY <1>1, <1>2, <1>3, <1>4
  <1>6. CallInv(calls[s])'
    BY <1>1, <1>2, <1>4, <1>5
       DEF login, board, CallInv, PageCall, SignInCall, LateCall, ItemCall
  <1>7. \A u \in Threads : calls'[u] # None =>
            \/ calls'[u] = calls[u] /\ calls[u].page # p
            \/ CallInv(calls[u])' /\ calls'[u].page = None
    <2> SUFFICES ASSUME NEW u \in Threads, calls'[u] # None
                 PROVE  \/ calls'[u] = calls[u] /\ calls[u].page # p
                        \/ CallInv(calls[u])' /\ calls'[u].page = None
      OBVIOUS
    <2>1. CASE u = s
      BY <1>4, <1>5, <1>6, <2>1
    <2>2. CASE u # s
      BY <1>1, <1>5, <2>2, NoneAssumption DEF WebInv, OneRequest
    <2> QED BY <2>1, <2>2
  <1>8. PICK page : page = IF calls[s].op = "logout" THEN Expired(p) ELSE pages[p]
    OBVIOUS
  <1>9. pages' = [pages EXCEPT ![p] = page]
    BY <1>1, <1>8
  <1>10. PageInv(p, page) \/ page = pages[p]
    BY <1>8, ExpiredIsFresh
  <1>11. UNCHANGED <<login, board, sent>>
    BY <1>1
  <1>12. calls' \in [Threads -> Call \cup {None}]
    BY <1>5
  <1> HIDE DEF WebInv
  <1> QED BY <1>7, <1>9, <1>10, <1>11, <1>12, PageStep

LEMMA RerunKeeps ==
  ASSUME WebInv, NEW p \in Pages, Rerun(p), sent' = sent
  PROVE  WebInv'
  <1>1. calls' \in [Threads -> Call \cup {None}]
    BY DEF WebInv, TypeOK, Rerun
  <1>2. PICK page : page = Expired(p)
    OBVIOUS
  <1>3. \A s \in Threads : calls'[s] # None => calls'[s] = calls[s] /\ calls[s].page # p
    BY DEF Rerun, Waits
  <1> QED BY <1>1, <1>2, <1>3, ExpiredIsFresh, PageStep DEF Rerun

-----------------------------------------------------------------------------
(* The invariant and the theorems *)

LEMMA InitWeb == Init => WebInv
  <1> SUFFICES ASSUME Init PROVE WebInv
    OBVIOUS
  <1>1. PICK p \in Pages, t \in Tokens :
           /\ sessions = [u \in Tokens |-> IF scene.signedIn /\ u = t
                                           THEN [user |-> Admin, expired |-> FALSE] ELSE None]
           /\ pages = [q \in Pages |-> IF scene.signedIn /\ q = p
                                        THEN [Fresh(q) EXCEPT !.token = t, !.user = Admin]
                                        ELSE Fresh(q)]
    BY DEF Init
  <1>2. \A q \in Pages : \/ pages[q] = Fresh(q)
                         \/ scene.signedIn /\ pages[q] = [Fresh(q) EXCEPT !.token = t,
                                                                          !.user = Admin]
    BY <1>1
  <1>3. ASSUME NEW q \in Pages
        PROVE  [Fresh(q) EXCEPT !.token = t, !.user = Admin] =
                   [token |-> t, user |-> Admin, invalid |-> FALSE, shown |-> {}]
    <2> DEFINE R == [token : {None}, user : {q}, invalid : {FALSE}, shown : {{}}]
    <2>1. PICK f \in R : f = Fresh(q)
      BY DEF Fresh
    <2>2. PICK g : g = [f EXCEPT !.token = t, !.user = Admin]
      OBVIOUS
    <2>3. g = [token |-> t, user |-> Admin, invalid |-> FALSE, shown |-> {}]
      BY <2>2
    <2> QED BY <2>1, <2>2, <2>3
  <1>4. \A q \in Pages : PageInv(q, pages[q])
    <2> SUFFICES ASSUME NEW q \in Pages PROVE PageInv(q, pages[q])
      OBVIOUS
    <2>1. q \in Identities /\ Admin \in Identities /\ q # Admin
      BY WebAssumption DEF Identities, Users
    <2>2. CASE pages[q] = Fresh(q)
      BY <2>1, <2>2 DEF PageInv, PageStates, Fresh
    <2>3. CASE scene.signedIn /\ pages[q] = [Fresh(q) EXCEPT !.token = t, !.user = Admin]
      <3>1. pages[q] = [token |-> t, user |-> Admin, invalid |-> FALSE, shown |-> {}]
        BY <1>3, <2>3
      <3>2. sessions[t] = [user |-> Admin, expired |-> FALSE]
        BY <1>1, <2>3
      <3> QED BY <2>1, <3>1, <3>2, NoneAssumption DEF PageInv, PageStates
    <2> QED BY <1>2, <2>2, <2>3
  <1>5. pages \in [Pages -> PageStates]
    BY <1>1, <1>4 DEF PageInv
  <1>6. sessions \in [Tokens -> Session \cup {None}]
    BY <1>1 DEF Session, Users
  <1>7. TypeOK
    BY <1>5, <1>6 DEF Init, TypeOK, PageStates, Users
  <1>8. CallsInv /\ OneRequest /\ BoardInv
    BY DEF Init, CallsInv, OneRequest, BoardInv
  <1>9. TokensInv /\ PageShowsItsUser
    BY <1>4, NoneAssumption DEF PageInv, TokensInv, PageShowsItsUser
  <1>10. OneAccountPerEmail
    BY DEF Init, OneAccountPerEmail
  <1> QED BY <1>7, <1>8, <1>9, <1>10 DEF WebInv

LEMMA NextWeb == WebInv /\ [Next]_vars => WebInv'
  <1> SUFFICES ASSUME WebInv, [Next]_vars PROVE WebInv'
    OBVIOUS
  <1>1. ASSUME NEW s \in Threads, Handler(s), sent' = sent
        PROVE  WebInv'
    BY <1>1, HashPasswordKeeps, AddAccountKeeps, OpenSessionKeeps, LogoutKeeps,
       ReadSessionKeeps, FindActorKeeps, StoreFailsKeeps, FetchKeeps, BeginListKeeps,
       EndListKeeps, FindKeeps, AddKeeps, RefuseFaqKeeps, LinkKeeps, ViewKeeps,
       CheckPendingKeeps, EditKeeps, AnswerQuestionKeeps, RemoveKeeps DEF Handler
  <1>2. ASSUME NEW p \in Pages, Page(p)
        PROVE  WebInv'
    BY <1>2, SignInKeeps, AskAsUserKeeps, AskBoardKeeps, ReceiveKeeps, GiveUpKeeps,
       RerunKeeps DEF Page
  <1>3. ASSUME NEW t \in Tokens, Lapse(t), sent' = sent
        PROVE  WebInv'
    BY <1>3, LapseKeeps
  <1>4. ASSUME NEW a \in Users, Deactivate(a), sent' = sent
        PROVE  WebInv'
    BY <1>4, DeactivateKeeps
  <1>5. CASE UNCHANGED vars
    <2>1. SessionsMove /\ BoardMoves /\ AccountsMove /\ CallsMove
      BY <1>5, NothingMoves DEF vars, board
    <2> QED BY <1>5, <2>1, HandlerStep DEF vars
  <1> QED BY <1>1, <1>2, <1>3, <1>4, <1>5 DEF Next

\* Pages, sessions, accounts and the board always fit together (auth_session,
\* session_service, auth_service, mock_api).
THEOREM WebIsSound == Spec => []WebInv
  BY InitWeb, NextWeb, PTL DEF Spec

\* The state has its type.
THEOREM WebTyped == Spec => []TypeOK
  <1>1. WebInv => TypeOK
    BY DEF WebInv
  <1> QED BY <1>1, WebIsSound, PTL

\* A page keeps only what it fetched as the user it acts as (apply_login,
\* expire_session, clear_private_state).
THEOREM PagesArePrivate == Spec => []PageShowsItsUser
  <1>1. WebInv => PageShowsItsUser
    BY DEF WebInv
  <1> QED BY <1>1, WebIsSound, PTL

\* Two registrations that both found the email free make one account
\* (mock_api.register, auth_service.register).
THEOREM EmailsAreUnique == Spec => []OneAccountPerEmail
  <1>1. WebInv => OneAccountPerEmail
    BY DEF WebInv
  <1> QED BY <1>1, WebIsSound, PTL

\* No handler brings back a record that another one removed, and no later
\* request succeeds on it (the community routes of mock_api).
THEOREM RemovalsAreFinal == Spec => []DeletedStaysDeleted
  <1>1. WebInv => DeletedStaysDeleted
    BY DEF WebInv, BoardInv, CallsInv, CallInv, LateCall, DeletedStaysDeleted
  <1> QED BY <1>1, WebIsSound, PTL

=============================================================================
