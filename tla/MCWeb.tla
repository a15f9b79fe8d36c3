------------------------------- MODULE MCWeb -------------------------------
(* Two pages, one email to register, and two records on the board *)
EXTENDS Web, TLC

Symmetry == Permutations(Pages) \cup Permutations(Accounts) \cup Permutations(Tokens)
            \cup Permutations(Items) \cup Permutations(Threads)

Account == {"register", "login", "logout", "me", "fetch"}
Board   == {"list", "add", "view", "comment", "edit", "resubmit", "remove", "answer"}

MCScenes ==
    [mode : {"mock", "memory", "redis"}, operations : {Account}, signedIn : {FALSE}, requests : {4}]
    \cup [mode : {"mock"}, operations : {Board}, signedIn : {TRUE}, requests : {4}]

=============================================================================
