--------------------------- MODULE MCMessageQueue ---------------------------
(***************************************************************************)
(* Instances of MessageQueue for TLC: small capacities and thresholds, so  *)
(* that the ring wraps, expands several times and overloads within a few   *)
(* messages.                                                               *)
(***************************************************************************)
EXTENDS MessageQueue
=============================================================================
