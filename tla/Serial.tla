------------------------------- MODULE Serial -------------------------------
(***************************************************************************)
(* What a client may expect of its agent: its packages are handled in the  *)
(* order it sent them, whole, and one at a time.                           *)
(***************************************************************************)
EXTENDS Naturals, Sequences

VARIABLES
  serve,  \* the packages to handle, in the order they are sent
  log,    \* the packages handled so far
  busy    \* one is being handled

Init == log = <<>> /\ busy = FALSE

Begin == ~busy /\ busy' = TRUE /\ Len(log) < Len(serve) /\ UNCHANGED log

End ==
  /\ busy /\ busy' = FALSE
  /\ log' = Append(log, serve[Len(log) + 1])

Spec == Init /\ [][(Begin \/ End) /\ UNCHANGED serve]_<<serve, log, busy>>
=============================================================================
