--------------------------- MODULE MCRunAdmission ---------------------------
(* Instances of RunAdmission for TLC.  Requests, processes and fresh run   *)
(* ids are interchangeable; so are keys and bodies, with them.             *)
EXTENDS RunAdmission, TLC

Symmetry ==
    Permutations(Processes) \cup Permutations(Clients) \cup Permutations(Keys)
        \cup Permutations(Bodies) \cup Permutations(Runs \ {LegacyRun})
=============================================================================
