--------------------------- MODULE MCUserService ----------------------------
(***************************************************************************)
(* Instances of UserService for TLC: two clients of one device and one of  *)
(* another.                                                                *)
(***************************************************************************)
EXTENDS UserService

CONSTANTS c1, c2, c3

SmidOf == [c \in Clients |-> IF c = c3 THEN 2 ELSE 1]
=============================================================================
