------------------------------ MODULE MCKernel ------------------------------
(***************************************************************************)
(* The instance of Kernel for TLC.                                         *)
(***************************************************************************)
EXTENDS Kernel, TLC

CONSTANTS w1, w2

(* One worker that dispatches a message at a time, and one that serves the *)
(* whole queue in a turn: the first two classes of skynet_start's weights. *)
MixedWeight == (w1 :> -1) @@ (w2 :> 0)
=============================================================================
