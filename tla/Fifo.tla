-------------------------------- MODULE Fifo --------------------------------
(***************************************************************************)
(* A first-in first-out queue of unbounded length: what the kernel takes a *)
(* message queue for.                                                      *)
(***************************************************************************)
EXTENDS Sequences

CONSTANTS
  Messages,  \* what may be put in
  Nothing    \* the answer of an empty queue

VARIABLES
  items,     \* in the queue, oldest first
  message    \* what the last take returned

Init == items = <<>> /\ message = Nothing

Put(m) == items' = Append(items, m) /\ UNCHANGED message

Take ==
  IF items = <<>>
  THEN message' = Nothing /\ UNCHANGED items
  ELSE message' = Head(items) /\ items' = Tail(items)

Next == Take \/ \E m \in Messages : Put(m)

Spec == Init /\ [][Next]_<<items, message>>
=============================================================================
