----------------------------- MODULE MCIngestion -----------------------------
(* Instance of Ingestion for TLC: a text that fits into one chunk, one that   *)
(* is cut, one that differs from the first in its header only, a garbled one  *)
(* and one that no normalizer takes.                                          *)
EXTENDS Ingestion

Version(named, header, parts) ==
    [named |-> named, header |-> header, parts |-> parts,
     preface |-> IF header = "h1" THEN <<3>> ELSE <<2>>]

Editions ==
    "short"   :> Version(TRUE, "h1", <<<<6>>, <<5>>>>) @@
    "long"    :> Version(TRUE, "h1", <<<<6, 3>>, <<7, 2, 6>>>>) @@
    "renamed" :> Version(TRUE, "h2", <<<<6>>, <<5>>>>) @@
    "garbled" :> Version(TRUE, "h1", <<<<>>, <<4>>>>) @@
    "unnamed" :> Version(FALSE, "h1", <<<<6>>, <<>>>>)

PublishedEditions ==
    1 :> {"short", "long"} @@ 2 :> {"renamed", "garbled", "unnamed"}
==============================================================================
