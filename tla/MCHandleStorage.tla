--------------------------- MODULE MCHandleStorage ---------------------------
(* A table of one slot and four handles: four contexts make it double      *)
(* twice, and the index wraps. The harbor is 0, as in the game's           *)
(* config.lua, or 1.                                                       *)
EXTENDS HandleStorage, TLC

CONSTANTS c1, c2, c3, c4
MCContexts == {c1, c2, c3, c4}
MCHarbors == {0, 4}
Interchangeable == Permutations(MCContexts)
=============================================================================
