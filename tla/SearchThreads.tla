---------------------------- MODULE SearchThreads ----------------------------
(* What the modules about the threads of the search server have in common.    *)

CONSTANTS
    Threads,        \* the threads of the server, on which searches run
    None            \* the value of a variable or field that has none

==============================================================================
