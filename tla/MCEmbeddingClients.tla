------------------------- MODULE MCEmbeddingClients -------------------------
(* Instance of EmbeddingClients for TLC.  Threads and clients are           *)
(* interchangeable, but symmetry is unsound for liveness.                   *)
EXTENDS EmbeddingClients
=============================================================================
