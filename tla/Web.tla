-------------------------------- MODULE Web --------------------------------
(***************************************************************************)
(* Pages, accounts and the community board: browser pages (Streamlit       *)
(* sessions, frontend/core/auth_session.py and the API-mode components),   *)
(* login sessions (session_service, auth_service, mock_store) and the      *)
(* in-memory questions, comments and FAQs of routers/mock_api.py.          *)
(*                                                                         *)
(* A page sends one request at a time, but may stop waiting for it: its    *)
(* handler goes on.  Community handlers run in a thread pool on shared     *)
(* dicts without a lock, so one access to a dict or to a record is one     *)
(* step.  A record is an object: a handler that found it keeps it after    *)
(* another handler took it out of its dict.                                *)
(***************************************************************************)
EXTENDS Naturals, FiniteSets

CONSTANTS
    Pages,          \* browser sessions; a page is also its guest's identity
    Accounts,       \* ids of accounts to be registered
    Admin,          \* the seeded administrator
    Emails,         \* what accounts are registered with
    AdminEmail,
    Tokens,         \* session tokens
    Items,          \* ids of questions, comments and FAQs
    Threads,        \* requests in the backend at one time
    Scenes,         \* what the pages do in one behaviour: the mode, the operations,
                    \* who is signed in already, and a bound on the requests
    None

VARIABLES
    scene,          \* its mode is "mock", "memory" or "redis"
    accounts,       \* the email of every registered account
    inactive,       \* accounts with is_active = FALSE
    sessions,       \* token -> [user, expired]
    items,          \* every record ever made
    stored,         \* ids in store.questions, store.comments, store.faqs
    removed,        \* ids whose removal was confirmed (history)
    calls,          \* the request every thread serves
    pages,          \* st.session_state of every page
    sent            \* requests sent so far

vars == <<scene, accounts, inactive, sessions, items, stored, removed, calls, pages, sent>>

board == <<items, stored, removed>>
login == <<scene, accounts, inactive, sessions>>

Users      == Accounts \cup {Admin}
Identities == Pages \cup Users
Kinds      == {"question", "comment", "faq"}
Operations == {"register", "login", "logout", "me", "fetch", "list", "add", "view",
               "comment", "edit", "resubmit", "remove", "answer"}
Steps      == {"sent", "hashed", "verified", "known", "admitted", "listing", "found",
               "pending", "linking", "answered"}
Statuses   == {"none", "ok", "refused", "failed", "unauthorised"}

Session == [user : Users, expired : BOOLEAN]
Record  == [kind : Kinds \cup {None}, owner : Identities, private : BOOLEAN,
            answered : BOOLEAN, parent : Items \cup {None}]
Call    == [page : Pages \cup {None}, op : Operations, kind : Kinds \cup {None},
            item : Items \cup {None}, email : Emails \cup {AdminEmail, None},
            token : Tokens \cup {None}, as : Identities, pc : Steps, status : Statuses,
            count : Nat, late : BOOLEAN]

ASSUME WebAssumption ==
    /\ Pages \cap Users = {}
    /\ \A s \in Scenes : s.operations \subseteq Operations
    /\ IsFiniteSet(Items)

\* None is no page, token, record, session or call.
ASSUME NoneAssumption ==
    /\ None \notin Pages /\ None \notin Tokens /\ None \notin Items
    /\ None \notin Session /\ None \notin Record /\ None \notin Call

TypeOK ==
    /\ scene \in Scenes
    /\ accounts \in [Users -> Emails \cup {AdminEmail, None}]
    /\ inactive \subseteq Users
    /\ sessions \in [Tokens -> Session \cup {None}]
    /\ items \in [Items -> Record \cup {None}]
    /\ stored \subseteq Items /\ removed \subseteq Items
    /\ calls \in [Threads -> Call \cup {None}]
    /\ pages \in [Pages -> [token : Tokens \cup {None}, user : Identities,
                            invalid : BOOLEAN, shown : SUBSET Identities]]
    /\ sent \in Nat

\* initialize_session: a page starts as a guest.
Fresh(p) == [token |-> None, user |-> p, invalid |-> FALSE, shown |-> {}]

Init ==
    /\ scene \in Scenes
    /\ accounts = [a \in Users |-> IF a = Admin THEN AdminEmail ELSE None]
    /\ inactive = {}
    /\ \E p \in Pages, t \in Tokens :
           /\ sessions = [u \in Tokens |-> IF scene.signedIn /\ u = t
                                           THEN [user |-> Admin, expired |-> FALSE] ELSE None]
           /\ pages = [q \in Pages |-> IF scene.signedIn /\ q = p
                                        THEN [Fresh(q) EXCEPT !.token = t, !.user = Admin]
                                        ELSE Fresh(q)]
    /\ items = [i \in Items |-> None]
    /\ stored = {}
    /\ removed = {}
    /\ calls = [s \in Threads |-> None]
    /\ sent = 0

-----------------------------------------------------------------------------
(* Requests *)

Waits(p) == \E s \in Threads : calls[s] # None /\ calls[s].page = p

\* The thread goes on with what the call has become.
Continue(s, call) == calls' = [calls EXCEPT ![s] = call]
At(s, pc) == calls[s] # None /\ calls[s].pc = pc
Goto(s, pc) == Continue(s, [calls[s] EXCEPT !.pc = pc])

\* An answer nobody waits for any more is thrown away.
Answered(call, status) ==
    IF call.page = None THEN None
    ELSE [call EXCEPT !.pc = "answered", !.status = status,
                      !.kind = None, !.item = None, !.email = None, !.count = 0]
Reply(s, status) == Continue(s, Answered(calls[s], status))

Request(p, op, kind, item, email) ==
    [page |-> p, op |-> op, kind |-> kind, item |-> item, email |-> email,
     token |-> pages[p].token, as |-> p, pc |-> "sent", status |-> "none",
     count |-> 0, late |-> item \in removed]

Send(p, request) ==
    \E s \in Threads :
        /\ sent < scene.requests
        /\ sent' = sent + 1
        /\ calls[s] = None
        /\ Continue(s, request)
        /\ UNCHANGED <<login, board, pages>>

\* refresh_auth runs first: a page that was told 401 does nothing else.
Ready(p) == ~Waits(p) /\ ~pages[p].invalid

SignIn(p) ==
    /\ Ready(p) /\ pages[p].token = None
    /\ \E op \in {"register", "login"} \cap scene.operations, email \in Emails \cup {AdminEmail} :
           Send(p, Request(p, op, None, None, email))

\* Log out, check the login again, or fetch what is the user's own: an
\* analysis, a saved conversation, a term chat.
AskAsUser(p) ==
    /\ Ready(p)
    /\ \E op \in {"logout", "me", "fetch"} \cap scene.operations :
           /\ op # "fetch" => pages[p].token # None
           /\ Send(p, Request(p, op, None, None, None))

AskBoard(p) ==
    /\ Ready(p)
    /\ \E op \in scene.operations \ {"register", "login", "logout", "me", "fetch"} :
           \/ op \in {"list", "add"} /\ \E kind \in Kinds \ {"comment"} :
                  Send(p, Request(p, op, kind, None, None))
           \/ op \notin {"list", "add"} /\ \E i \in {j \in Items : items[j] # None} :
                  /\ op = "edit" \/ op = "remove" \/ items[i].kind = "question"
                  /\ Send(p, Request(p, op, items[i].kind, i, None))

-----------------------------------------------------------------------------
(* Accounts and sessions *)

EmailTaken(email) == \E a \in DOMAIN accounts : accounts[a] = email

\* A token that nobody has: secrets.token_urlsafe never repeats one.
FreshToken(t) ==
    /\ sessions[t] = None
    /\ \A p \in Pages : pages[p].token # t
    /\ \A s \in Threads : calls[s] # None => calls[s].token # t

\* remove_expired_entries, when process memory holds the sessions
Purged ==
    IF scene.mode # "memory" THEN sessions
    ELSE [t \in Tokens |-> IF sessions[t] # None /\ sessions[t].expired THEN None
                           ELSE sessions[t]]

Issue(s, user) ==
    \E t \in Tokens :
        /\ FreshToken(t)
        /\ sessions' = [Purged EXCEPT ![t] = [user |-> user, expired |-> FALSE]]
        /\ Continue(s, Answered([calls[s] EXCEPT !.token = t, !.as = user], "ok"))

\* The row found by its email, and a hash that takes a thread.
HashPassword(s) ==
    /\ At(s, "sent")
    /\ \/ /\ calls[s].op = "register"
          /\ IF scene.mode = "mock" /\ EmailTaken(calls[s].email)
             THEN Reply(s, "refused")
             ELSE Goto(s, "hashed")
       \/ /\ calls[s].op = "login"
          /\ IF ~EmailTaken(calls[s].email) THEN Reply(s, "refused")
             ELSE LET user == CHOOSE a \in DOMAIN accounts : accounts[a] = calls[s].email
                  IN  IF user \in inactive THEN Reply(s, "refused")
                      ELSE Continue(s, [calls[s] EXCEPT !.pc = "verified", !.as = user])
    /\ UNCHANGED <<login, board, pages>>

\* After the await the email is checked again: by the handler in mock mode, by
\* the unique constraint otherwise.
NotCheckedAgain(email) == FALSE
Conflict(email)        == EmailTaken(email)

\* In mock mode the session comes with the account.
AddAccount(s) ==
    /\ At(s, "hashed")
    /\ IF Conflict(calls[s].email)
       THEN Reply(s, "refused") /\ UNCHANGED <<accounts, sessions>>
       ELSE \E a \in Accounts :
                /\ accounts[a] = None
                /\ accounts' = [accounts EXCEPT ![a] = calls[s].email]
                /\ IF scene.mode = "mock" THEN Issue(s, a)
                   ELSE /\ Continue(s, [calls[s] EXCEPT !.pc = "verified", !.as = a])
                        /\ UNCHANGED sessions
    /\ UNCHANGED <<scene, inactive, board, pages>>

OpenSession(s) ==
    /\ At(s, "verified")
    /\ Issue(s, calls[s].as)
    /\ UNCHANGED <<scene, accounts, inactive, board, pages>>

Logout(s) ==
    /\ At(s, "sent") /\ calls[s].op = "logout"
    /\ Reply(s, IF sessions[calls[s].token] = None THEN "unauthorised" ELSE "ok")
    /\ sessions' = [sessions EXCEPT ![calls[s].token] = None]
    /\ UNCHANGED <<scene, accounts, inactive, board, pages>>

\* Every other request: who sends it.
Admitted(s, user) == Continue(s, [calls[s] EXCEPT !.pc = "admitted", !.as = user])

ReadSession(s) ==
    /\ At(s, "sent") /\ calls[s].op \notin {"register", "login", "logout"}
    /\ LET token == calls[s].token
       IN  IF token = None
           THEN Admitted(s, calls[s].as) /\ UNCHANGED sessions
           ELSE IF sessions[token] = None
           THEN Reply(s, "unauthorised") /\ UNCHANGED sessions
           ELSE IF sessions[token].expired
           THEN Reply(s, "unauthorised") /\ sessions' = [sessions EXCEPT ![token] = None]
           ELSE /\ IF scene.mode = "mock" THEN Admitted(s, sessions[token].user)
                   ELSE Continue(s, [calls[s] EXCEPT !.pc = "known", !.as = sessions[token].user])
                /\ UNCHANGED sessions
    /\ UNCHANGED <<scene, accounts, inactive, board, pages>>

\* AuthService.actor reads the account after the session.
FindActor(s) ==
    /\ At(s, "known")
    /\ IF calls[s].as \in inactive THEN Reply(s, "unauthorised") ELSE Admitted(s, calls[s].as)
    /\ UNCHANGED <<login, board, pages>>

\* 503: Redis does not answer.  The account of a registration is there already.
StoreFails(s) ==
    /\ scene.mode = "redis"
    /\ calls[s] # None
    /\ \/ calls[s].pc = "verified"
       \/ calls[s].pc = "sent" /\ calls[s].op \notin {"register", "login"} /\ calls[s].token # None
    /\ Reply(s, "failed")
    /\ UNCHANGED <<login, board, pages>>

Fetch(s) ==
    /\ At(s, "admitted") /\ calls[s].op \in {"me", "fetch"}
    /\ Reply(s, "ok")
    /\ UNCHANGED <<login, board, pages>>

\* From outside: time passes, and an operator deactivates an account.
Lapse(t) ==
    /\ sessions[t] # None /\ ~sessions[t].expired
    /\ sessions' = [sessions EXCEPT ![t] = IF scene.mode = "redis" THEN None
                                           ELSE [@ EXCEPT !.expired = TRUE]]
    /\ UNCHANGED <<scene, accounts, inactive, board, calls, pages>>

Deactivate(a) ==
    /\ scene.mode # "mock" /\ accounts[a] # None /\ a \notin inactive
    /\ inactive' = inactive \cup {a}
    /\ UNCHANGED <<scene, accounts, sessions, board, calls, pages>>

-----------------------------------------------------------------------------
(* The board *)

Of(kind)  == {i \in stored : items[i].kind = kind}
Owns(s)   == items[calls[s].item].owner = calls[s].as
Admins(s) == calls[s].as = Admin

\* question_view, can_view_comments
MayView(s) == ~items[calls[s].item].private \/ Owns(s) \/ Admins(s)

Permitted(s) ==
    CASE calls[s].kind = "faq"                      -> Admins(s)
      [] calls[s].op \in {"view", "comment"}        -> MayView(s)
      [] calls[s].op \in {"edit", "resubmit"}       -> Owns(s)
      [] calls[s].op = "remove"                     -> Owns(s) \/ Admins(s)
      [] calls[s].op = "answer"                     -> Admins(s)

OnItem(s) == calls[s].op \in {"view", "comment", "edit", "resubmit", "remove", "answer"}

\* get_question, or the dict's get, and who may do this: before the password is
\* verified, which takes its time.  The log of an administrator's removal is
\* left out.
Find(s) ==
    /\ At(s, "admitted") /\ OnItem(s)
    /\ IF calls[s].item \in stored /\ Permitted(s) THEN Goto(s, "found") ELSE Reply(s, "refused")
    /\ UNCHANGED <<login, board, pages>>

\* Dicts are iterated entry by entry; one that changed size meanwhile raises.
BeginList(s) ==
    /\ At(s, "admitted") /\ calls[s].op = "list"
    /\ Continue(s, [calls[s] EXCEPT !.pc = "listing", !.count = Cardinality(Of(calls[s].kind))])
    /\ UNCHANGED <<login, board, pages>>

EndList(s) ==
    /\ At(s, "listing")
    /\ Reply(s, IF Cardinality(Of(calls[s].kind)) = calls[s].count THEN "ok" ELSE "failed")
    /\ UNCHANGED <<login, board, pages>>

\* create_question, add_comment, add_faq; resubmit goes on from its new question.
Add(s) ==
    /\ \/ At(s, "admitted") /\ calls[s].op = "add" /\ (calls[s].kind = "faq" => Admins(s))
       \/ At(s, "found") /\ calls[s].op \in {"comment", "resubmit"}
    /\ \E i \in Items, private \in BOOLEAN :
           /\ items[i] = None
           /\ private => calls[s].op \in {"add", "resubmit"} /\ calls[s].kind = "question"
           /\ items' = [items EXCEPT ![i] =
                  [kind |-> IF calls[s].op = "comment" THEN "comment" ELSE calls[s].kind,
                   owner |-> calls[s].as, private |-> private, answered |-> FALSE,
                   parent |-> IF calls[s].op = "comment" THEN calls[s].item ELSE None]]
           /\ stored' = stored \cup {i}
           /\ IF calls[s].op = "resubmit"
              THEN Continue(s, [calls[s] EXCEPT !.pc = "linking", !.item = i])
              ELSE Reply(s, "ok")
    /\ UNCHANGED <<login, removed, pages>>

RefuseFaq(s) ==
    /\ At(s, "admitted") /\ calls[s].op = "add" /\ calls[s].kind = "faq" /\ ~Admins(s)
    /\ Reply(s, "refused")
    /\ UNCHANGED <<login, board, pages>>

\* resubmit finds its new question again, edit_faq its FAQ, and not if somebody
\* removed it: 404, or KeyError.
Link(s) ==
    /\ At(s, "linking")
    /\ Reply(s, IF calls[s].item \in stored THEN "ok" ELSE "failed")
    /\ UNCHANGED <<login, board, pages>>

View(s) ==
    /\ At(s, "found") /\ calls[s].op = "view"
    /\ Reply(s, IF MayView(s) THEN "ok" ELSE "refused")
    /\ UNCHANGED <<login, board, pages>>

\* A question is edited only while PENDING; its record is updated in place.
CheckPending(s) ==
    /\ At(s, "found") /\ calls[s].op = "edit" /\ calls[s].kind = "question"
    /\ IF items[calls[s].item].answered THEN Reply(s, "refused") ELSE Goto(s, "pending")
    /\ UNCHANGED <<login, board, pages>>

\* The dict an edit leaves: the record is changed, not stored again.
StoredAgain(i)     == stored \cup {i}
StoredAfterEdit(i) == stored

Edit(s) ==
    /\ \/ At(s, "pending")
       \/ At(s, "found") /\ calls[s].op = "edit" /\ calls[s].kind # "question"
    /\ LET i == calls[s].item
       IN  IF calls[s].kind = "faq" /\ i \notin stored
           THEN Reply(s, "failed") /\ UNCHANGED <<items, stored>>
           ELSE /\ \E private \in BOOLEAN :
                       /\ private => calls[s].kind = "question"
                       /\ items' = [items EXCEPT ![i].private = private]
                /\ stored' = StoredAfterEdit(i)
                /\ IF calls[s].kind = "faq" THEN Goto(s, "linking") ELSE Reply(s, "ok")
    /\ UNCHANGED <<login, removed, pages>>

AnswerQuestion(s) ==
    /\ At(s, "found") /\ calls[s].op = "answer"
    /\ items' = [items EXCEPT ![calls[s].item].answered = TRUE]
    /\ Reply(s, "ok")
    /\ UNCHANGED <<login, stored, removed, pages>>

\* The second of two removals finds nothing to pop: KeyError, or 404 of a FAQ.
Remove(s) ==
    /\ At(s, "found") /\ calls[s].op = "remove"
    /\ LET i == calls[s].item
       IN  IF i \in stored
           THEN stored' = stored \ {i} /\ removed' = removed \cup {i} /\ Reply(s, "ok")
           ELSE Reply(s, "failed") /\ UNCHANGED <<stored, removed>>
    /\ UNCHANGED <<login, items, pages>>

-----------------------------------------------------------------------------
(* Pages *)

\* clear_private_state: everything a page fetched for its user goes.  What the
\* user typed into the board's forms (api-question-*, question_create_flash) is
\* not in its list of keys; it was never fetched and is not modelled.
NotCleared(page) == page
Cleared(page)    == [page EXCEPT !.shown = {}]

\* apply_login, expire_session
LoggedIn(page, call) ==
    [Cleared(page) EXCEPT !.token = call.token, !.user = call.as, !.invalid = FALSE]
Expired(p) ==
    [Cleared(pages[p]) EXCEPT !.token = None, !.user = p, !.invalid = FALSE]

\* _request notes a 401 of a request that carried a token.
Told(page, call) ==
    [page EXCEPT !.invalid = @ \/ (call.status = "unauthorised" /\ call.token # None)]

PageAfter(p, call) ==
    LET page == pages[p]
    IN  CASE call.op = "logout" -> Expired(p)
          [] call.op = "me" /\ call.status = "unauthorised" -> Expired(p)
          [] call.op = "me" /\ call.status = "ok" ->
                 [(IF call.as # page.user THEN Cleared(page) ELSE page) EXCEPT !.user = call.as]
          [] call.op \in {"login", "register"} /\ call.status = "ok" -> LoggedIn(page, call)
          [] call.op = "fetch" /\ call.status = "ok" -> [page EXCEPT !.shown = @ \cup {call.as}]
          [] OTHER -> Told(page, call)

Receive(p) ==
    \E s \in Threads :
        /\ At(s, "answered") /\ calls[s].page = p
        /\ pages' = [pages EXCEPT ![p] = PageAfter(p, calls[s])]
        /\ Continue(s, None)
        /\ UNCHANGED <<login, board>>

\* The request timed out; its handler starts, or goes on, all the same.
GiveUp(p) ==
    \E s \in Threads :
        /\ calls[s] # None /\ calls[s].page = p /\ calls[s].pc # "answered"
        /\ Continue(s, [calls[s] EXCEPT !.page = None])
        /\ pages' = [pages EXCEPT ![p] = IF calls[s].op = "logout" THEN Expired(p) ELSE @]
        /\ UNCHANGED <<login, board>>

SessionOver(t) == IF sessions[t] = None THEN TRUE ELSE sessions[t].expired

\* refresh_auth on the next run of the script, or when the page's own clock says
\* that the session is over.
Rerun(p) ==
    /\ ~Waits(p)
    /\ pages[p].token # None
    /\ pages[p].invalid \/ SessionOver(pages[p].token)
    /\ pages' = [pages EXCEPT ![p] = Expired(p)]
    /\ UNCHANGED <<login, board, calls>>

Handler(s) ==
    \/ HashPassword(s) \/ AddAccount(s) \/ OpenSession(s) \/ Logout(s)
    \/ ReadSession(s) \/ FindActor(s) \/ StoreFails(s) \/ Fetch(s)
    \/ BeginList(s) \/ EndList(s) \/ Find(s) \/ Add(s) \/ RefuseFaq(s) \/ Link(s)
    \/ View(s) \/ CheckPending(s) \/ Edit(s) \/ AnswerQuestion(s) \/ Remove(s)

Page(p) ==
    \/ SignIn(p) \/ AskAsUser(p) \/ AskBoard(p)
    \/ (Receive(p) \/ GiveUp(p) \/ Rerun(p)) /\ UNCHANGED sent

Next ==
    \/ \E s \in Threads : Handler(s) /\ UNCHANGED sent
    \/ \E p \in Pages : Page(p)
    \/ \E t \in Tokens : Lapse(t) /\ UNCHANGED sent
    \/ \E a \in Users : Deactivate(a) /\ UNCHANGED sent

Spec == Init /\ [][Next]_vars

-----------------------------------------------------------------------------
(* Whatever a page keeps was fetched as the user it now acts as: logging in, *)
(* out, or being logged out leaves nothing of an earlier user behind, and a  *)
(* request that outlives the login of its page adds nothing to the page.     *)
PageShowsItsUser ==
    \A p \in Pages :
        /\ pages[p].shown \subseteq {pages[p].user}
        /\ pages[p].user = p <=> pages[p].token = None

(* No two accounts have one email, although both registrations looked for it *)
(* before they hashed their passwords.                                       *)
OneAccountPerEmail ==
    \A a, b \in DOMAIN accounts : accounts[a] = accounts[b] /\ accounts[a] # None => a = b

(* What was removed and confirmed stays away: it is in no dict again, and no *)
(* request sent later succeeds on it, although edits that had found the      *)
(* record finish after its removal.                                          *)
DeletedStaysDeleted ==
    /\ removed \cap stored = {}
    /\ \A s \in Threads :
           calls[s] # None => ~(calls[s].late /\ calls[s].pc = "answered" /\ calls[s].status = "ok")

=============================================================================
