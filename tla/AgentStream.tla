----------------------------- MODULE AgentStream -----------------------------
(***************************************************************************)
(* From the bytes on a client's connection to the handling of its          *)
(* packages: the gate's framing (Netpack) in front of an agent (Session).  *)
(* The other connections share the gate's tables and have agents of their  *)
(* own, which are left out.                                                *)
(***************************************************************************)
EXTENDS Netpack, Session, FiniteSetsExt

CONSTANTS
  Me,         \* the connection whose agent is modelled
  Streams     \* Streams[fd]: the sequences of packages fd may send

(* The size of a package has two bytes.                                    *)
ASSUME StreamAssumption ==
  /\ Me \in Fds
  /\ \A fd \in Fds : \A s \in Streams[fd] :
       /\ s \in Seq(Seq(0..(Base - 1)))
       /\ \A i \in DOMAIN s : Len(s[i]) < Base * Base

VARIABLES
  sent,       \* the packages each client sends
  got         \* the packages the gate has forwarded for each connection

vars == <<netpackVars, sessionVars, sent, got>>

Init ==
  /\ sent \in {s \in [Fds -> UNION {Streams[fd] : fd \in Fds}] :
                 \A fd \in Fds : s[fd] \in Streams[fd]}
  /\ NetpackInit(sent) /\ SessionInit
  /\ got = [fd \in Fds |-> <<>>]

Gate(fd, n) ==
  /\ SocketData(fd, n)
  /\ got' = [got EXCEPT ![fd] = @ \o forwarded(fd, n)]
  /\ IF fd = Me THEN redirect(forwarded(fd, n)) ELSE UNCHANGED sessionVars
  /\ UNCHANGED sent

Next ==
  \/ \E fd \in Fds : \E n \in 1..Len(stream[fd]) : Gate(fd, n)
  \/ \E fd \in Fds : SocketClose(fd) /\ UNCHANGED <<sessionVars, sent, got>>
  \/ Agent /\ UNCHANGED <<netpackVars, sent, got>>
  \/ OtherMessage /\ UNCHANGED <<netpackVars, sent, got>>
  \/ \E n \in DOMAIN at : Answer(n) /\ UNCHANGED <<netpackVars, sent, got>>

Spec == Init /\ [][Next]_vars

(* The workers of the kernel dispatch the agent's messages in the order    *)
(* they came, so that only finitely many other messages are ahead of one   *)
(* (strong fairness of Receive), and a call is answered or its caller      *)
(* told. Nothing says that other messages come.                            *)
FairSpec ==
  /\ Spec
  /\ WF_vars(Agent /\ UNCHANGED <<netpackVars, sent, got>>)
  /\ SF_vars(Receive /\ UNCHANGED <<netpackVars, sent, got>>)
  /\ \A n \in 1..Max({Len(s) : s \in Streams[Me]}) :
       WF_vars(n \in DOMAIN at /\ Answer(n)
               /\ UNCHANGED <<netpackVars, sent, got>>)

-----------------------------------------------------------------------------
(* However the stream is cut into pieces and mixed with the others in the  *)
(* gate's tables, the gate has forwarded exactly the packages whose last   *)
(* byte has come: none is late, none is cut, none goes to another fd.      *)
FramingExact ==
  \A fd \in Fds :
    LET left  == Len(stream[fd])
        all   == Len(sent[fd])
        tail(k) == FlattenSeq([i \in 1..(all - k) |->
                                 encode(sent[fd][k + i])])
        whole == {k \in 0..all : Len(tail(k)) >= left}
    IN  got[fd] = SubSeq(sent[fd], 1, Max(whole))

(* The packages among packs that the agent can read, in order.             *)
readable(packs) ==
  LET first[i \in 0..Len(packs)] ==
        IF i = 0 THEN <<>>
        ELSE IF Kind(packs[i]) = "garbled" THEN first[i - 1]
        ELSE Append(first[i - 1], packs[i])
  IN  first[Len(packs)]

(* The agent handles the packages it can read one at a time, whole and in  *)
(* the order the client sent them (skynet.queue, the gate, netpack).       *)
InOrder == INSTANCE Serial WITH
  serve <- readable(sent[Me]),
  busy <- ref > 0
SerialSpec == InOrder!Spec

(* While packages wait for their turn between two messages, the one whose  *)
(* turn it is waits for an answer or is about to be resumed: the queue is  *)
(* never stuck behind a coroutine that is gone.                            *)
TurnIsTaken ==
  phase = "idle" /\ (\E n \in DOMAIN at : at[n] = "wait") =>
    /\ current_thread # 0
    /\ \/ at[current_thread] = "call"
       \/ current_thread \in wakeup_session

(* A package that reached the agent is handled, provided that the service  *)
(* goes on receiving messages. Without the proviso it is not: behind a     *)
(* package of type RESPONSE the next one is resumed by a later message.    *)
Handled ==
  []<><<OtherMessage>>_vars =>
    \A n \in 1..Max({Len(s) : s \in Streams[Me]}) :
      (n \in DOMAIN at) ~> (n \in DOMAIN at /\ at[n] = "end")
=============================================================================
