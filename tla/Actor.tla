------------------------------- MODULE Actor --------------------------------
(***************************************************************************)
(* What the kernel promises a service: a mailbox in the order in which     *)
(* messages were accepted, at most one activity of the service at a time,  *)
(* the init function before any message, and, once the service is closed,  *)
(* no activity or message after the moment its mailbox is thrown away.     *)
(***************************************************************************)
EXTENDS Integers, Sequences

CONSTANTS
  Services,  \* the services
  Messages,  \* the messages they may receive
  Root,      \* the service that is there from the start
  First,     \* the message it starts with
  Starting,  \* the activity of a service in its init function
  Idle       \* the activity of a service between two messages

VARIABLES
  phase,     \* unborn, open, closed (retired, still has a mailbox) or gone
  mailbox,   \* accepted and not yet handled, oldest first
  activity   \* Starting, Idle, or the message the service is handling

avars == <<phase, mailbox, activity>>

Init ==
  /\ phase = [s \in Services |-> IF s = Root THEN "open" ELSE "unborn"]
  /\ mailbox = [s \in Services |-> IF s = Root THEN <<First>> ELSE <<>>]
  /\ activity = [s \in Services |-> Idle]

(* A service is created and runs its init function.                        *)
Create(s) ==
  /\ phase[s] = "unborn"
  /\ phase' = [phase EXCEPT ![s] = "open"]
  /\ activity' = [activity EXCEPT ![s] = Starting]
  /\ UNCHANGED mailbox

(* A message is accepted: by an open service, or by one that was closed    *)
(* while the message was under way.                                        *)
Accept(s, m) ==
  /\ phase[s] \in {"open", "closed"}
  /\ mailbox' = [mailbox EXCEPT ![s] = Append(@, m)]
  /\ UNCHANGED <<phase, activity>>

(* The oldest message is handled. A closed service may have some turns     *)
(* left.                                                                   *)
Begin(s) ==
  /\ phase[s] \in {"open", "closed"}
  /\ activity[s] = Idle
  /\ mailbox[s] # <<>>
  /\ activity' = [activity EXCEPT ![s] = Head(mailbox[s])]
  /\ mailbox' = [mailbox EXCEPT ![s] = Tail(@)]
  /\ UNCHANGED phase

End(s) ==
  /\ activity[s] # Idle
  /\ activity' = [activity EXCEPT ![s] = Idle]
  /\ UNCHANGED <<phase, mailbox>>

Close(s) ==
  /\ phase[s] = "open"
  /\ phase' = [phase EXCEPT ![s] = "closed"]
  /\ UNCHANGED <<mailbox, activity>>

(* A closed service at rest loses its messages, oldest first, ...          *)
Discard(s) ==
  /\ phase[s] = "closed" /\ activity[s] = Idle
  /\ mailbox[s] # <<>>
  /\ mailbox' = [mailbox EXCEPT ![s] = Tail(@)]
  /\ UNCHANGED <<phase, activity>>

(* ... and then its mailbox.                                               *)
Vanish(s) ==
  /\ phase[s] = "closed" /\ activity[s] = Idle
  /\ mailbox[s] = <<>>
  /\ phase' = [phase EXCEPT ![s] = "gone"]
  /\ UNCHANGED <<mailbox, activity>>

Next ==
  \E s \in Services :
    \/ Create(s) \/ Begin(s) \/ End(s) \/ Close(s) \/ Discard(s) \/ Vanish(s)
    \/ \E m \in Messages : Accept(s, m)

Spec == Init /\ [][Next]_avars
=============================================================================
