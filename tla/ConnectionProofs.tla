-------------------------- MODULE ConnectionProofs --------------------------
(***************************************************************************)
(* Proofs of the safety properties of Connection, for any number of        *)
(* clients, any limit of the gate and any number of packages and calls of  *)
(* the close command.                                                      *)
(*                                                                         *)
(* The properties speak of tables of one service and messages under way to *)
(* another. What makes them inductive is where the story of a client is:   *)
(*   OpenOnce  the gate opens a client once, and before that nobody else   *)
(*             has heard of it;                                            *)
(*   HandOver  of the messages that hand the client to its agent (launched,*)
(*             start, forward) there is one at most, in the one place that *)
(*             the state of the agent tells;                               *)
(*   Routed    packages come after the hand-over;                          *)
(*   LetGo     the gate has let go of a client that is being closed, or    *)
(*             whose agent is told to go.                                  *)
(***************************************************************************)
EXTENDS Connection, FiniteSetTheorems, TLAPS

(* Message m is in queue q, and not twice.                                 *)
Has(q, m) == \E i \in 1 .. Len(q) : q[i] = m
Once(q, m) == \A i, j \in 1 .. Len(q) : q[i] = m /\ q[j] = m => i = j

(* The gate has handled the open message of f, and there will be no other. *)
Past(f) == sock[f] # "none" /\ ~ Has(gateq, M("open", f))

(* Until the gate opens f, nothing else is known of f anywhere.            *)
OpenOnce(f) ==
  /\ sock[f] = "none" => ~ Has(gateq, M("open", f))
  /\ Once(gateq, M("open", f)) /\ Once(watchq, M("open", f))
  /\ Has(watchq, M("open", f)) => actor[f] = "none"
  /\ ~ Past(f) =>
       /\ sock[f] \in {"none", "paccept"} /\ conn[f] = "nil"
       /\ actor[f] = "none" /\ ~ Has(gateq, M("data", f))
       /\ ~ Has(ctrl, M("start", f)) /\ ~ Has(ctrl, M("close", f))
       /\ ~ Has(watchq, M("open", f))

(* The client of f has not been handed to its agent.                       *)
Before(f) == \/ actor[f] \in {"none", "launching"}
             \/ Has(watchq, M("launched", f))
             \/ Has(agentq[f], "start") \/ Has(gateq, M("forward", f))

(* One message at most is on the way of the hand-over, and nothing of what *)
(* comes after it is there before.                                         *)
HandOver(f) ==
  /\ Once(watchq, M("launched", f)) /\ Once(agentq[f], "start")
  /\ Once(gateq, M("forward", f))
  /\ actor[f] \in {"none", "launching"} =>
       /\ ~ Has(watchq, M("launched", f)) /\ ~ Has(gateq, M("forward", f))
       /\ f \notin agent
       /\ ~ Has(gateq, M("kick", f)) /\ ~ Has(watchq, M("kicked", f))
  /\ actor[f] \in {"none", "launching", "exited"} => agentq[f] = << >>
  /\ Has(watchq, M("launched", f)) =>
       /\ ~ Has(agentq[f], "start") /\ ~ Has(gateq, M("forward", f))
       /\ actor[f] \in {"up", "exited"}
  /\ Has(agentq[f], "start") =>
       ~ Has(gateq, M("forward", f)) /\ actor[f] = "up"
  /\ Has(gateq, M("forward", f)) => actor[f] \in {"starting", "exited"}
  /\ Before(f) =>
       /\ route[f] # "forward" /\ ~ Has(agentq[f], "data")
       /\ ~ Has(agentq[f], "forward_done") /\ ~ Has(agentq[f], "forward_failed")

(* Only a client that is handed over is read, and what is read from it     *)
(* goes to an agent that has been started.                                 *)
Routed(f) ==
  /\ route[f] = "forward" => actor[f] \in {"starting", "ready", "exited"}
  /\ Has(agentq[f], "data") => actor[f] \in {"starting", "ready"}
  /\ Has(agentq[f], "forward_failed") =>
       route[f] # "forward" /\ ~ Has(agentq[f], "data")
  /\ sock[f] \in polled \/ Has(ctrl, M("start", f)) \/ Has(gateq, M("data", f))
       => conn[f] # "true" \/ route[f] = "forward"

(* What follows a kick, or a refusal, finds the client let go by the gate. *)
LetGo(f) ==
  /\ Has(ctrl, M("close", f)) \/ Has(watchq, M("kicked", f))
       \/ Has(agentq[f], "disconnect") => conn[f] # "true"
  /\ actor[f] = "exited" =>
       conn[f] # "true" \/ (route[f] # "forward" /\ ~ Has(gateq, M("forward", f)))

(* The story of f, and of all.                                             *)
Tale(f) == OpenOnce(f) /\ HandOver(f) /\ Routed(f) /\ LetGo(f)

Story == \A f \in Fds : Tale(f)

(* The listening socket is never taken for a connection.                   *)
ListenerKept == conn[Listener] = "nil"

IInv == GateSound /\ Story /\ NoStartAfterClose /\ ListenerKept

-----------------------------------------------------------------------------
(* How a message that is sent, and one that is received, changes a queue.  *)
Sent(p, q, x) ==
  \A m : /\ Has(q, m) <=> Has(p, m) \/ m = x
         /\ Once(p, m) /\ (m = x => ~ Has(p, m)) => Once(q, m)

Got(p, q, x) ==
  /\ Has(p, x) /\ (Once(p, x) => ~ Has(q, x))
  /\ \A m : /\ Has(q, m) => Has(p, m)
            /\ m # x /\ Has(p, m) => Has(q, m)
            /\ Once(p, m) => Once(q, m)

(* Append sends, and Tail receives the head.                               *)
LEMMA SentAppend ==
  ASSUME NEW S, NEW q \in Seq(S), NEW x \in S
  PROVE  Append(q, x) \in Seq(S) /\ Sent(q, Append(q, x), x)
<1> DEFINE a == Append(q, x)
<1>1. /\ a \in Seq(S) /\ Len(a) = Len(q) + 1 /\ Len(q) \in Nat
      /\ \A i \in 1 .. Len(q) : a[i] = q[i]
      /\ a[Len(q) + 1] = x
  OBVIOUS
<1> HIDE DEF a
<1>2. \A m : Has(a, m) <=> Has(q, m) \/ m = x
  BY <1>1 DEF Has
<1>3. \A m : Once(q, m) /\ (m = x => ~ Has(q, m)) => Once(a, m)
  BY <1>1 DEF Has, Once
<1> QED BY <1>1, <1>2, <1>3 DEF a, Sent

LEMMA GotTail ==
  ASSUME NEW S, NEW q \in Seq(S), q # << >>
  PROVE  Tail(q) \in Seq(S) /\ Head(q) \in S /\ Got(q, Tail(q), Head(q))
<1> DEFINE t == Tail(q)
<1>1. /\ t \in Seq(S) /\ Head(q) = q[1] /\ Head(q) \in S
      /\ Len(q) \in Nat \ {0} /\ Len(t) = Len(q) - 1
      /\ \A i \in 1 .. Len(q) - 1 : t[i] = q[i + 1]
  OBVIOUS
<1> HIDE DEF t
<1>2. Has(q, Head(q)) /\ \A m : Has(t, m) => Has(q, m)
  BY <1>1 DEF Has
<1>3. ASSUME NEW m, m # Head(q), Has(q, m) PROVE Has(t, m)
  <2>1. PICK i \in 1 .. Len(q) : q[i] = m
    BY <1>3 DEF Has
  <2>2. i - 1 \in 1 .. Len(t) /\ t[i - 1] = m
    BY <2>1, <1>1, <1>3
  <2> QED BY <2>2 DEF Has
<1>4. \A m : Once(q, m) => Once(t, m)
  BY <1>1 DEF Once
<1>5. Once(q, Head(q)) => ~ Has(t, Head(q))
  BY <1>1 DEF Once, Has
<1> QED BY <1>1, <1>2, <1>3, <1>4, <1>5 DEF t, Got

(* An empty queue holds nothing.                                           *)
LEMMA HasEmpty == \A m : ~ Has(<< >>, m) /\ Once(<< >>, m)
BY DEF Has, Once

(* Two messages are equal when their types and their fds are.              *)
LEMMA SameMessage == \A s, t, f, g : M(s, f) = M(t, g) <=> s = t /\ f = g
BY DEF M

LEMMA MessageType ==
  ASSUME NEW T, NEW I, NEW s \in T, NEW f \in I
  PROVE  M(s, f) \in MessageOf(T, I)
BY DEF M, MessageOf

-----------------------------------------------------------------------------
GateMessage == MessageOf({"open", "close", "error", "data", "forward",
                          "kick"}, Ids)
DogMessage  == MessageOf({"open", "close", "error", "data", "launched",
                          "launch_failed", "start_done", "start_failed",
                          "kicked", "close_command"}, Ids)
CtrlMessage == MessageOf({"start", "close"}, Ids)
AgentMessage == {"start", "disconnect", "data", "forward_done",
                 "forward_failed"}

(* A message sent to, and one received by, each of the parties.            *)
LEMMA ToGateSends ==
  ASSUME TypeOK, NEW s \in {"open", "close", "error", "data", "forward", "kick"},
         NEW i \in Ids, ToGate(M(s, i))
  PROVE  gateq' \in Seq(GateMessage) /\ Sent(gateq, gateq', M(s, i))
<1>1. gateq \in Seq(GateMessage) /\ M(s, i) \in GateMessage
  BY MessageType DEF TypeOK, GateMessage
<1> QED BY <1>1, SentAppend DEF ToGate

LEMMA ToDogSends ==
  ASSUME TypeOK, NEW s \in {"open", "close", "error", "data", "launched",
                            "launch_failed", "start_done", "start_failed",
                            "kicked", "close_command"},
         NEW i \in Ids, ToDog(M(s, i))
  PROVE  watchq' \in Seq(DogMessage) /\ Sent(watchq, watchq', M(s, i))
<1>1. watchq \in Seq(DogMessage) /\ M(s, i) \in DogMessage
  BY MessageType DEF TypeOK, DogMessage
<1> QED BY <1>1, SentAppend DEF ToDog

LEMMA ToCtrlSends ==
  ASSUME TypeOK, NEW s \in {"start", "close"}, NEW i \in Ids, ToCtrl(M(s, i))
  PROVE  ctrl' \in Seq(CtrlMessage) /\ Sent(ctrl, ctrl', M(s, i))
<1>1. ctrl \in Seq(CtrlMessage) /\ M(s, i) \in CtrlMessage
  BY MessageType DEF TypeOK, CtrlMessage
<1> QED BY <1>1, SentAppend DEF ToCtrl

(* What ToAgent does, for an agent that is there and one that is not.      *)
LEMMA ToAgentSends ==
  ASSUME TypeOK, NEW s \in AgentMessage, NEW fd \in Fds, ToAgent(s, fd)
  PROVE  /\ agentq' \in [Fds -> Seq(AgentMessage)]
         /\ \A f \in Fds \ {fd} : agentq'[f] = agentq[f]
         /\ actor[fd] \in {"none", "exited"} => agentq' = agentq
         /\ actor[fd] \notin {"none", "exited"} =>
              Sent(agentq[fd], agentq'[fd], s)
<1>1. agentq \in [Fds -> Seq(AgentMessage)]
  BY DEF TypeOK, AgentMessage
<1>2. CASE actor[fd] \in {"none", "exited"}
  BY <1>1, <1>2 DEF ToAgent
<1>3. CASE actor[fd] \notin {"none", "exited"}
  <2>1. agentq' = [agentq EXCEPT ![fd] = Append(agentq[fd], s)]
    BY <1>3 DEF ToAgent
  <2>2. Append(agentq[fd], s) \in Seq(AgentMessage)
        /\ Sent(agentq[fd], Append(agentq[fd], s), s)
    BY <1>1, SentAppend
  <2> QED BY <1>1, <1>3, <2>1, <2>2
<1> QED BY <1>2, <1>3

LEMMA GateReceives ==
  ASSUME TypeOK, NEW s, NEW i, GateGets(s, i), gateq' = Tail(gateq)
  PROVE  gateq' \in Seq(GateMessage) /\ Got(gateq, gateq', M(s, i))
<1>1. gateq \in Seq(GateMessage)
  BY DEF TypeOK, GateMessage
<1> QED BY <1>1, GotTail DEF GateGets

LEMMA DogReceives ==
  ASSUME TypeOK, NEW s, NEW i, DogGets(s, i), watchq' = Tail(watchq)
  PROVE  watchq' \in Seq(DogMessage) /\ Got(watchq, watchq', M(s, i))
<1>1. watchq \in Seq(DogMessage)
  BY DEF TypeOK, DogMessage
<1> QED BY <1>1, GotTail DEF DogGets

LEMMA CtrlReceives ==
  ASSUME TypeOK, NEW s, NEW i, ctrl # << >>, Head(ctrl) = M(s, i),
         ctrl' = Tail(ctrl)
  PROVE  ctrl' \in Seq(CtrlMessage) /\ Got(ctrl, ctrl', M(s, i))
<1>1. ctrl \in Seq(CtrlMessage)
  BY DEF TypeOK, CtrlMessage
<1> QED BY <1>1, GotTail

LEMMA AgentReceives ==
  ASSUME TypeOK, NEW s, NEW fd \in Fds, AgentGets(s, fd),
         agentq' = [agentq EXCEPT ![fd] = Tail(@)]
  PROVE  /\ agentq' \in [Fds -> Seq(AgentMessage)]
         /\ \A f \in Fds \ {fd} : agentq'[f] = agentq[f]
         /\ Got(agentq[fd], agentq'[fd], s)
<1>1. agentq \in [Fds -> Seq(AgentMessage)]
  BY DEF TypeOK, AgentMessage
<1>2. agentq[fd] \in Seq(AgentMessage) /\ agentq[fd] # << >>
  BY <1>1 DEF AgentGets
<1>3. Tail(agentq[fd]) \in Seq(AgentMessage)
      /\ Got(agentq[fd], Tail(agentq[fd]), s)
  BY <1>2, GotTail DEF AgentGets
<1> QED BY <1>1, <1>3

-----------------------------------------------------------------------------
(* The same seen from one client f: queue q is queue p with message s of f *)
(* added, or taken out, or as far as f is concerned it is the same.        *)
SentOf(p, q, s, f) ==
  \A t : /\ Has(q, M(t, f)) <=> Has(p, M(t, f)) \/ t = s
         /\ Once(p, M(t, f)) /\ (t = s => ~ Has(p, M(t, f))) => Once(q, M(t, f))

GotOf(p, q, s, f) ==
  /\ Has(p, M(s, f)) /\ (Once(p, M(s, f)) => ~ Has(q, M(s, f)))
  /\ \A t : /\ Has(q, M(t, f)) => Has(p, M(t, f))
            /\ t # s /\ Has(p, M(t, f)) => Has(q, M(t, f))
            /\ Once(p, M(t, f)) => Once(q, M(t, f))

Keeps(p, q, f) ==
  \A t : /\ Has(q, M(t, f)) <=> Has(p, M(t, f))
         /\ Once(p, M(t, f)) => Once(q, M(t, f))

(* Sending, seen from a client ...                                         *)
LEMMA SentView ==
  ASSUME NEW p, NEW q, NEW s, NEW i, NEW f, Sent(p, q, M(s, i))
  PROVE  /\ f = i => SentOf(p, q, s, f)
         /\ f # i => Keeps(p, q, f)
BY SameMessage DEF Sent, SentOf, Keeps

(* ... receiving ...                                                       *)
LEMMA GotView ==
  ASSUME NEW p, NEW q, NEW s, NEW i, NEW f, Got(p, q, M(s, i))
  PROVE  /\ f = i => GotOf(p, q, s, f)
         /\ f # i => Keeps(p, q, f)
BY SameMessage DEF Got, GotOf, Keeps

(* ... and neither.                                                        *)
LEMMA SameView ==
  ASSUME NEW p, NEW q, NEW f, q = p
  PROVE  Keeps(p, q, f)
BY DEF Keeps

(* A step that leaves alone what f has in the tables and in the queues.    *)
Aside(f) ==
  /\ sock'[f] = sock[f] /\ conn'[f] = conn[f] /\ route'[f] = route[f]
  /\ actor'[f] = actor[f] /\ (f \in agent' <=> f \in agent)
  /\ agentq'[f] = agentq[f]
  /\ Keeps(ctrl, ctrl', f) /\ Keeps(gateq, gateq', f) /\ Keeps(watchq, watchq', f)

(* ... does not touch the story of f.                                      *)
LEMMA StoryAside ==
  ASSUME NEW f \in Fds, Tale(f), Aside(f)
  PROVE  Tale(f)'
<1> USE DEF Aside, Keeps, Tale
<1>1. OpenOnce(f)'
  BY DEF OpenOnce, Past
<1>2. HandOver(f)'
  BY DEF HandOver, Before
<1>3. Routed(f)'
  BY DEF Routed, polled
<1>4. LetGo(f)'
  BY DEF LetGo
<1> QED BY <1>1, <1>2, <1>3, <1>4

(* What the tables are functions of.                                       *)
Tables ==
  /\ sock \in [Ids -> {"none", "listen", "paccept", "connected", "halfclose",
                       "invalid"}]
  /\ conn \in [Ids -> {"nil", "true", "false"}]
  /\ route \in [Ids -> {"nil", "new", "forward"}]
  /\ agent \subseteq Fds
  /\ actor \in [Fds -> {"none", "launching", "up", "starting", "ready",
                        "exited"}]

(* The counter of the gate is positive while it has a connection.          *)
LEMMA CountPositive ==
  ASSUME TypeOK, CountExact, NEW i \in Ids, conn[i] # "nil"
  PROVE  client_number - 1 \in 0 .. maxclient
<1> DEFINE C == {j \in Ids : conn[j] # "nil"}
<1>1. IsFiniteSet(Ids)
  BY ConnectionAssumption, FS_AddElement DEF Ids
<1>2. IsFiniteSet(C) /\ i \in C
  BY <1>1, FS_Subset
<1>3. C # {} /\ client_number = Cardinality(C)
  BY <1>2 DEF CountExact
<1> HIDE DEF C
<1>4. client_number # 0
  BY <1>2, <1>3, FS_EmptySet
<1>5. client_number \in 0 .. maxclient /\ maxclient \in Nat
  BY ConnectionAssumption DEF TypeOK
<1> QED BY <1>4, <1>5

(* One more refused call of accept is within the bound.                    *)
LEMMA AcceptBound ==
  ASSUME TypeOK, accepts < MaxAccept
  PROVE  refused + 1 \in 0 .. MaxAccept
<1>1. IsFiniteSet({f \in Fds : sock[f] # "none"})
  BY ConnectionAssumption, FS_Subset
<1>2. Cardinality({f \in Fds : sock[f] # "none"}) \in Nat
  BY <1>1, FS_CardinalityType
<1>3. refused \in 0 .. MaxAccept /\ MaxAccept \in Nat
  BY ConnectionAssumption DEF TypeOK
<1> QED BY <1>2, <1>3 DEF accepts

(* Every action keeps the types.                                           *)
LEMMA NextType ==
  ASSUME TypeOK, CountExact, [Next]_vars
  PROVE  TypeOK'
<1> USE ConnectionAssumption DEF Ids, sockVars, gateVars, dogVars, agentVars, bounds
<1> USE DEF GateMessage, DogMessage, CtrlMessage, AgentMessage
<1>1. ASSUME NEW fd \in Fds, Accept(fd) PROVE TypeOK'
  BY <1>1, ToGateSends DEF Accept, TypeOK
<1>2. ASSUME AcceptRefused PROVE TypeOK'
  BY <1>2, ToGateSends, AcceptBound DEF AcceptRefused, TypeOK
<1>3. ASSUME NEW fd \in Fds, Receive(fd) PROVE TypeOK'
  <2>0. data \in 0 .. MaxData /\ data < MaxData /\ data' = data + 1
    BY <1>3 DEF Receive, TypeOK
  <2>1. data' \in 0 .. MaxData
    BY <2>0
  <2> QED BY <1>3, <2>1, ToGateSends DEF Receive, TypeOK
<1>4. ASSUME NEW fd \in Fds, Hangup(fd) PROVE TypeOK'
  BY <1>4, ToGateSends DEF Hangup, TypeOK
<1>5. ASSUME NEW fd \in Fds, CloseCommand(fd) PROVE TypeOK'
  <2>0. closes \in 0 .. MaxClose /\ closes < MaxClose /\ closes' = closes + 1
    BY <1>5 DEF CloseCommand, TypeOK
  <2>1. closes' \in 0 .. MaxClose
    BY <2>0
  <2> QED BY <1>5, <2>1, ToDogSends DEF CloseCommand, TypeOK
<1>6. ASSUME NEW i \in Ids, CtrlClose(i) PROVE TypeOK'
  BY <1>6, ToGateSends, CtrlReceives DEF CtrlClose, TypeOK
<1>7. ASSUME NEW fd \in Fds, CtrlStart(fd) PROVE TypeOK'
  BY <1>7, ToGateSends, CtrlReceives DEF CtrlStart, TypeOK
<1>8. ASSUME GateListener PROVE TypeOK'
  BY <1>8, ToCtrlSends, GateReceives DEF GateListener, TypeOK
<1>9. ASSUME NEW i \in Ids, NEW t \in {"close", "error"}, GateLost(i, t)
      PROVE  TypeOK'
  BY <1>9, GateReceives, ToDogSends, CountPositive DEF GateLost, close_fd, TypeOK
<1>10. ASSUME NEW fd \in Fds, GateOpen(fd) PROVE TypeOK'
  <2>1. gateq' \in Seq(GateMessage)
    BY <1>10, GateReceives DEF GateOpen
  <2>2. CASE full
    <3>1. ctrl' \in Seq(CtrlMessage) /\ watchq' = watchq /\ conn' = conn
          /\ client_number' = client_number /\ route' = route
      BY <1>10, <2>2, ToCtrlSends DEF GateOpen
    <3> QED BY <1>10, <2>1, <3>1 DEF GateOpen, TypeOK
  <2>3. CASE ~ full
    <3>1. /\ watchq' \in Seq(DogMessage) /\ ctrl' = ctrl
          /\ conn' = [conn EXCEPT ![fd] = "true"]
          /\ client_number' = client_number + 1
          /\ route' = [route EXCEPT ![fd] = "new"]
      BY <1>10, <2>3, ToDogSends DEF GateOpen
    <3>2. client_number \in 0 .. maxclient /\ client_number' = client_number + 1
      BY <3>1 DEF TypeOK
    <3>3. client_number' \in 0 .. maxclient
      BY <2>3, <3>2 DEF full
    <3> QED BY <1>10, <2>1, <3>1, <3>3 DEF GateOpen, TypeOK
  <2> QED BY <2>2, <2>3
<1>11. ASSUME NEW fd \in Fds, GateData(fd) PROVE TypeOK'
  BY <1>11, GateReceives, ToDogSends, ToAgentSends DEF GateData, TypeOK
<1>12. ASSUME NEW fd \in Fds, GateForward(fd) PROVE TypeOK'
  BY <1>12, GateReceives, ToCtrlSends, ToAgentSends DEF GateForward, TypeOK
<1>13. ASSUME NEW fd \in Fds, GateKick(fd) PROVE TypeOK'
  BY <1>13, GateReceives, ToCtrlSends, ToDogSends DEF GateKick, kicked, TypeOK
<1>14. ASSUME NEW i \in Ids, DogClose(i) PROVE TypeOK'
  BY <1>14, DogReceives, ToGateSends DEF DogClose, TypeOK
<1>15. ASSUME NEW fd \in Fds, DogOpen(fd) PROVE TypeOK'
  BY <1>15, DogReceives DEF DogOpen, TypeOK
<1>16. ASSUME NEW fd \in Fds, DogLaunched(fd) PROVE TypeOK'
  BY <1>16, DogReceives, ToAgentSends DEF DogLaunched, TypeOK
<1>17. ASSUME NEW fd \in Fds, DogOpened(fd) PROVE TypeOK'
  BY <1>17, DogReceives DEF DogOpened, opened, TypeOK
<1>18. ASSUME NEW fd \in Fds, DogKicked(fd) PROVE TypeOK'
  BY <1>18, DogReceives, ToAgentSends DEF DogKicked, TypeOK
<1>19. ASSUME NEW fd \in Fds, Launch(fd) PROVE TypeOK'
  BY <1>19, ToDogSends DEF Launch, TypeOK
<1>20. ASSUME NEW fd \in Fds, AgentStart(fd) PROVE TypeOK'
  BY <1>20, AgentReceives, ToGateSends DEF AgentStart, TypeOK
<1>21. ASSUME NEW fd \in Fds, AgentStarted(fd) PROVE TypeOK'
  <2>1. agentq' \in [Fds -> Seq(AgentMessage)]
    BY <1>21, AgentReceives DEF AgentStarted
  <2>2. watchq' \in Seq(DogMessage)
    BY <1>21, ToDogSends DEF AgentStarted
  <2> QED BY <1>21, <2>1, <2>2 DEF AgentStarted, TypeOK
<1>22. ASSUME NEW fd \in Fds, AgentData(fd) PROVE TypeOK'
  BY <1>22, AgentReceives DEF AgentData, TypeOK
<1>23. ASSUME NEW fd \in Fds, AgentExit(fd) PROVE TypeOK'
  <2>1. watchq' \in Seq(DogMessage)
    BY <1>23, ToDogSends DEF AgentExit, TypeOK
  <2>2. << >> \in Seq(AgentMessage)
    OBVIOUS
  <2> QED BY <1>23, <2>1, <2>2 DEF AgentExit, TypeOK
<1>24. ASSUME UNCHANGED vars PROVE TypeOK'
  BY <1>24 DEF vars, TypeOK
<1> QED
  BY <1>1, <1>2, <1>3, <1>4, <1>5, <1>6, <1>7, <1>8, <1>9, <1>10, <1>11, <1>12,
     <1>13, <1>14, <1>15, <1>16, <1>17, <1>18, <1>19, <1>20, <1>21, <1>22, <1>23,
     <1>24 DEF Next, Clients, SocketThread, Gate, Watchdog, Agent

(* Every action goes on with the story of every client.                    *)
LEMMA NextStory ==
  ASSUME TypeOK, Story, [Next]_vars
  PROVE  Story'
<1> USE DEF Ids, sockVars, gateVars, dogVars, agentVars, bounds
<1>t. Tables
  BY DEF TypeOK, Tables
<1>f. ASSUME NEW f \in Fds PROVE Tale(f)
  BY DEF Story
<1> USE <1>t DEF Tables
<1>1. ASSUME NEW fd \in Fds, Accept(fd), NEW f \in Fds PROVE Tale(f)'
  <2>1. Sent(gateq, gateq', M("open", fd))
    BY <1>1, ToGateSends DEF Accept
  <2>2. CASE f # fd
    <3>1. Keeps(gateq, gateq', f)
      BY <2>1, <2>2, SentView
    <3>2. Aside(f)
      BY <1>1, <2>1, <2>2, <3>1, SameView DEF Accept, Aside
    <3> QED BY <3>2, <1>f, StoryAside
  <2>3. CASE f = fd
    <3>1. sock[f] = "none" /\ sock'[f] = "paccept"
      BY <1>1, <2>1, <2>3 DEF Accept, polled
    <3>2. SentOf(gateq, gateq', "open", f)
      BY <1>1, <2>1, <2>3, SentView DEF Accept
    <3>3. /\ conn'[f] = conn[f] /\ route'[f] = route[f]
          /\ actor'[f] = actor[f] /\ Keeps(ctrl, ctrl', f)
          /\ Keeps(watchq, watchq', f) /\ agentq'[f] = agentq[f]
          /\ (f \in agent' <=> f \in agent)
      BY <1>1, <2>1, <2>3, SameView DEF Accept
    <3>4. OpenOnce(f)'
      BY <1>f, <3>1, <3>2, <3>3, <2>3, HasEmpty DEF Tale, OpenOnce, Past, HandOver, Before, polled, Keeps, SentOf, GotOf, Sent, Got
    <3>5. HandOver(f)'
      BY <1>f, <3>1, <3>2, <3>3, <2>3, HasEmpty DEF Tale, HandOver, Before, OpenOnce, Past, Routed, Keeps, SentOf, GotOf, Sent, Got
    <3>6. Routed(f)'
      BY <1>f, <3>1, <3>2, <3>3, <2>3, HasEmpty DEF Tale, Routed, polled, OpenOnce, Past, HandOver, Before, LetGo, Keeps, SentOf, GotOf, Sent, Got
    <3>7. LetGo(f)'
      BY <1>f, <3>1, <3>2, <3>3, <2>3, HasEmpty DEF Tale, LetGo, OpenOnce, Past, HandOver, Before, Routed, Keeps, SentOf, GotOf, Sent, Got
    <3> QED BY <3>4, <3>5, <3>6, <3>7 DEF Tale
  <2> QED BY <2>2, <2>3
<1>2. ASSUME NEW fd \in Fds, Receive(fd), NEW f \in Fds PROVE Tale(f)'
  <2>1. Sent(gateq, gateq', M("data", fd))
    BY <1>2, ToGateSends DEF Receive
  <2>2. CASE f # fd
    <3>1. Keeps(gateq, gateq', f)
      BY <2>1, <2>2, SentView
    <3>2. Aside(f)
      BY <1>2, <2>1, <2>2, <3>1, SameView DEF Receive, Aside
    <3> QED BY <3>2, <1>f, StoryAside
  <2>3. CASE f = fd
    <3>1. sock[f] \in polled
      BY <1>2, <2>1, <2>3 DEF Receive, polled
    <3>2. SentOf(gateq, gateq', "data", f)
      BY <1>2, <2>1, <2>3, SentView DEF Receive
    <3>3. /\ sock'[f] = sock[f] /\ conn'[f] = conn[f]
          /\ route'[f] = route[f] /\ actor'[f] = actor[f]
          /\ Keeps(ctrl, ctrl', f) /\ Keeps(watchq, watchq', f)
          /\ agentq'[f] = agentq[f] /\ (f \in agent' <=> f \in agent)
      BY <1>2, <2>1, <2>3, SameView DEF Receive
    <3>4. OpenOnce(f)'
      BY <1>f, <3>1, <3>2, <3>3, <2>3, HasEmpty DEF Tale, OpenOnce, Past, HandOver, Before, polled, Keeps, SentOf, GotOf, Sent, Got
    <3>5. HandOver(f)'
      BY <1>f, <3>1, <3>2, <3>3, <2>3, HasEmpty DEF Tale, HandOver, Before, OpenOnce, Past, Routed, Keeps, SentOf, GotOf, Sent, Got
    <3>6. Routed(f)'
      BY <1>f, <3>1, <3>2, <3>3, <2>3, HasEmpty DEF Tale, Routed, polled, OpenOnce, Past, HandOver, Before, LetGo, Keeps, SentOf, GotOf, Sent, Got
    <3>7. LetGo(f)'
      BY <1>f, <3>1, <3>2, <3>3, <2>3, HasEmpty DEF Tale, LetGo, OpenOnce, Past, HandOver, Before, Routed, Keeps, SentOf, GotOf, Sent, Got
    <3> QED BY <3>4, <3>5, <3>6, <3>7 DEF Tale
  <2> QED BY <2>2, <2>3
<1>3. ASSUME NEW fd \in Fds, Hangup(fd), NEW f \in Fds PROVE Tale(f)'
  <2>1. Sent(gateq, gateq', M("close", fd)) \/ Sent(gateq, gateq', M("error", fd))
    BY <1>3, ToGateSends DEF Hangup
  <2>2. CASE f # fd
    <3>1. Keeps(gateq, gateq', f)
      BY <2>1, <2>2, SentView
    <3>2. Aside(f)
      BY <1>3, <2>1, <2>2, <3>1, SameView DEF Hangup, Aside
    <3> QED BY <3>2, <1>f, StoryAside
  <2>3. CASE f = fd
    <3>1. sock[f] \in polled /\ sock'[f] = "invalid"
      BY <1>3, <2>1, <2>3 DEF Hangup, polled
    <3>2. SentOf(gateq, gateq', "close", f) \/ SentOf(gateq, gateq', "error", f)
      BY <1>3, <2>1, <2>3, SentView DEF Hangup
    <3>3. /\ conn'[f] = conn[f] /\ route'[f] = route[f]
          /\ actor'[f] = actor[f] /\ Keeps(ctrl, ctrl', f)
          /\ Keeps(watchq, watchq', f) /\ agentq'[f] = agentq[f]
          /\ (f \in agent' <=> f \in agent)
      BY <1>3, <2>1, <2>3, SameView DEF Hangup
    <3>4. OpenOnce(f)'
      BY <1>f, <3>1, <3>2, <3>3, <2>3, HasEmpty DEF Tale, OpenOnce, Past, HandOver, Before, polled, Keeps, SentOf, GotOf, Sent, Got
    <3>5. HandOver(f)'
      BY <1>f, <3>1, <3>2, <3>3, <2>3, HasEmpty DEF Tale, HandOver, Before, OpenOnce, Past, Routed, Keeps, SentOf, GotOf, Sent, Got
    <3>6. Routed(f)'
      BY <1>f, <3>1, <3>2, <3>3, <2>3, HasEmpty DEF Tale, Routed, polled, OpenOnce, Past, HandOver, Before, LetGo, Keeps, SentOf, GotOf, Sent, Got
    <3>7. LetGo(f)'
      BY <1>f, <3>1, <3>2, <3>3, <2>3, HasEmpty DEF Tale, LetGo, OpenOnce, Past, HandOver, Before, Routed, Keeps, SentOf, GotOf, Sent, Got
    <3> QED BY <3>4, <3>5, <3>6, <3>7 DEF Tale
  <2> QED BY <2>2, <2>3
<1>4. ASSUME NEW fd \in Fds, CloseCommand(fd), NEW f \in Fds PROVE Tale(f)'
  <2>1. Sent(watchq, watchq', M("close_command", fd))
    BY <1>4, ToDogSends DEF CloseCommand
  <2>2. CASE f # fd
    <3>1. Keeps(watchq, watchq', f)
      BY <2>1, <2>2, SentView
    <3>2. Aside(f)
      BY <1>4, <2>1, <2>2, <3>1, SameView DEF CloseCommand, Aside
    <3> QED BY <3>2, <1>f, StoryAside
  <2>3. CASE f = fd
    <3>1. SentOf(watchq, watchq', "close_command", f)
      BY <1>4, <2>1, <2>3, SentView DEF CloseCommand
    <3>2. /\ sock'[f] = sock[f] /\ conn'[f] = conn[f]
          /\ route'[f] = route[f] /\ actor'[f] = actor[f]
          /\ Keeps(ctrl, ctrl', f) /\ Keeps(gateq, gateq', f)
          /\ agentq'[f] = agentq[f] /\ (f \in agent' <=> f \in agent)
      BY <1>4, <2>1, <2>3, SameView DEF CloseCommand
    <3>3. OpenOnce(f)'
      BY <1>f, <3>1, <3>2, <2>3, HasEmpty DEF Tale, OpenOnce, Past, HandOver, Before, polled, Keeps, SentOf, GotOf, Sent, Got
    <3>4. HandOver(f)'
      BY <1>f, <3>1, <3>2, <2>3, HasEmpty DEF Tale, HandOver, Before, OpenOnce, Past, Routed, Keeps, SentOf, GotOf, Sent, Got
    <3>5. Routed(f)'
      BY <1>f, <3>1, <3>2, <2>3, HasEmpty DEF Tale, Routed, polled, OpenOnce, Past, HandOver, Before, LetGo, Keeps, SentOf, GotOf, Sent, Got
    <3>6. LetGo(f)'
      BY <1>f, <3>1, <3>2, <2>3, HasEmpty DEF Tale, LetGo, OpenOnce, Past, HandOver, Before, Routed, Keeps, SentOf, GotOf, Sent, Got
    <3> QED BY <3>3, <3>4, <3>5, <3>6 DEF Tale
  <2> QED BY <2>2, <2>3
<1>5. ASSUME NEW i \in Ids, CtrlClose(i), NEW f \in Fds PROVE Tale(f)'
  <2>1. Got(ctrl, ctrl', M("close", i))
    BY <1>5, CtrlReceives DEF CtrlClose
  <2>2. gateq' = gateq \/ Sent(gateq, gateq', M("close", i))
    BY <1>5, ToGateSends DEF CtrlClose
  <2>3. CASE f # i
    <3>1. Keeps(ctrl, ctrl', f)
      BY <2>1, <2>3, GotView
    <3>2. Keeps(gateq, gateq', f)
      BY <2>2, <2>3, SentView, SameView
    <3>3. Aside(f)
      BY <1>5, <2>1, <2>2, <2>3, <3>1, <3>2, SameView DEF CtrlClose, Aside
    <3> QED BY <3>3, <1>f, StoryAside
  <2>4. CASE f = i
    <3>1. \/ sock'[f] = "invalid"
          \/ sock[f] \in polled /\ sock'[f] = "halfclose"
      BY <1>5, <2>1, <2>2, <2>4 DEF CtrlClose, polled
    <3>2. GotOf(ctrl, ctrl', "close", f)
      BY <1>5, <2>1, <2>2, <2>4, GotView DEF CtrlClose
    <3>3. Keeps(gateq, gateq', f) \/ SentOf(gateq, gateq', "close", f)
      BY <1>5, <2>1, <2>2, <2>4, SentView, SameView DEF CtrlClose
    <3>4. /\ conn'[f] = conn[f] /\ route'[f] = route[f]
          /\ actor'[f] = actor[f] /\ Keeps(watchq, watchq', f)
          /\ agentq'[f] = agentq[f] /\ (f \in agent' <=> f \in agent)
      BY <1>5, <2>1, <2>2, <2>4, SameView DEF CtrlClose
    <3>5. OpenOnce(f)'
      BY <1>f, <3>1, <3>2, <3>3, <3>4, <2>4, HasEmpty DEF Tale, OpenOnce, Past, HandOver, Before, polled, Keeps, SentOf, GotOf, Sent, Got
    <3>6. HandOver(f)'
      BY <1>f, <3>1, <3>2, <3>3, <3>4, <2>4, HasEmpty DEF Tale, HandOver, Before, OpenOnce, Past, Routed, Keeps, SentOf, GotOf, Sent, Got
    <3>7. Routed(f)'
      BY <1>f, <3>1, <3>2, <3>3, <3>4, <2>4, HasEmpty DEF Tale, Routed, polled, OpenOnce, Past, HandOver, Before, LetGo, Keeps, SentOf, GotOf, Sent, Got
    <3>8. LetGo(f)'
      BY <1>f, <3>1, <3>2, <3>3, <3>4, <2>4, HasEmpty DEF Tale, LetGo, OpenOnce, Past, HandOver, Before, Routed, Keeps, SentOf, GotOf, Sent, Got
    <3> QED BY <3>5, <3>6, <3>7, <3>8 DEF Tale
  <2> QED BY <2>3, <2>4
<1>6. ASSUME NEW fd \in Fds, CtrlStart(fd), NEW f \in Fds PROVE Tale(f)'
  <2>1. Got(ctrl, ctrl', M("start", fd))
    BY <1>6, CtrlReceives DEF CtrlStart
  <2>2. gateq' = gateq \/ Sent(gateq, gateq', M("error", fd))
    BY <1>6, ToGateSends DEF CtrlStart
  <2>3. CASE f # fd
    <3>1. Keeps(ctrl, ctrl', f)
      BY <2>1, <2>3, GotView
    <3>2. Keeps(gateq, gateq', f)
      BY <2>2, <2>3, SentView, SameView
    <3>3. Aside(f)
      BY <1>6, <2>1, <2>2, <2>3, <3>1, <3>2, SameView DEF CtrlStart, Aside
    <3> QED BY <3>3, <1>f, StoryAside
  <2>4. CASE f = fd
    <3>1. \/ sock'[f] = sock[f] \/ sock'[f] = "invalid"
          \/ sock[f] = "paccept" /\ sock'[f] = "connected"
      BY <1>6, <2>1, <2>2, <2>4 DEF CtrlStart, polled
    <3>2. GotOf(ctrl, ctrl', "start", f)
      BY <1>6, <2>1, <2>2, <2>4, GotView DEF CtrlStart
    <3>3. Keeps(gateq, gateq', f) \/ SentOf(gateq, gateq', "error", f)
      BY <1>6, <2>1, <2>2, <2>4, SentView, SameView DEF CtrlStart
    <3>4. /\ conn'[f] = conn[f] /\ route'[f] = route[f]
          /\ actor'[f] = actor[f] /\ Keeps(watchq, watchq', f)
          /\ agentq'[f] = agentq[f] /\ (f \in agent' <=> f \in agent)
      BY <1>6, <2>1, <2>2, <2>4, SameView DEF CtrlStart
    <3>5. OpenOnce(f)'
      BY <1>f, <3>1, <3>2, <3>3, <3>4, <2>4, HasEmpty DEF Tale, OpenOnce, Past, HandOver, Before, polled, Keeps, SentOf, GotOf, Sent, Got
    <3>6. HandOver(f)'
      BY <1>f, <3>1, <3>2, <3>3, <3>4, <2>4, HasEmpty DEF Tale, HandOver, Before, OpenOnce, Past, Routed, Keeps, SentOf, GotOf, Sent, Got
    <3>7. Routed(f)'
      BY <1>f, <3>1, <3>2, <3>3, <3>4, <2>4, HasEmpty DEF Tale, Routed, polled, OpenOnce, Past, HandOver, Before, LetGo, Keeps, SentOf, GotOf, Sent, Got
    <3>8. LetGo(f)'
      BY <1>f, <3>1, <3>2, <3>3, <3>4, <2>4, HasEmpty DEF Tale, LetGo, OpenOnce, Past, HandOver, Before, Routed, Keeps, SentOf, GotOf, Sent, Got
    <3> QED BY <3>5, <3>6, <3>7, <3>8 DEF Tale
  <2> QED BY <2>3, <2>4
<1>7. ASSUME NEW i \in Ids, NEW t \in {"close", "error"}, GateLost(i, t), NEW f \in Fds PROVE Tale(f)'
  <2>1. Got(gateq, gateq', M(t, i))
    BY <1>7, GateReceives DEF GateLost, close_fd
  <2>2. Sent(watchq, watchq', M(t, i))
    BY <1>7, ToDogSends DEF GateLost, close_fd
  <2>3. CASE f # i
    <3>1. Keeps(gateq, gateq', f)
      BY <2>1, <2>3, GotView
    <3>2. Keeps(watchq, watchq', f)
      BY <2>2, <2>3, SentView
    <3>3. Aside(f)
      BY <1>7, <2>1, <2>2, <2>3, <3>1, <3>2, SameView DEF GateLost, close_fd, Aside
    <3> QED BY <3>3, <1>f, StoryAside
  <2>4. CASE f = i
    <3>1. conn'[f] = "nil" /\ route'[f] = "nil"
      BY <1>7, <2>1, <2>2, <2>4 DEF GateLost, close_fd, polled
    <3>2. GotOf(gateq, gateq', t, f)
      BY <1>7, <2>1, <2>2, <2>4, GotView DEF GateLost, close_fd
    <3>3. SentOf(watchq, watchq', t, f)
      BY <1>7, <2>1, <2>2, <2>4, SentView DEF GateLost, close_fd
    <3>4. /\ sock'[f] = sock[f] /\ actor'[f] = actor[f]
          /\ Keeps(ctrl, ctrl', f) /\ agentq'[f] = agentq[f]
          /\ (f \in agent' <=> f \in agent)
      BY <1>7, <2>1, <2>2, <2>4, SameView DEF GateLost, close_fd
    <3>5. OpenOnce(f)'
      BY <1>f, <3>1, <3>2, <3>3, <3>4, <2>4, HasEmpty DEF Tale, OpenOnce, Past, HandOver, Before, polled, Keeps, SentOf, GotOf, Sent, Got
    <3>6. HandOver(f)'
      BY <1>f, <3>1, <3>2, <3>3, <3>4, <2>4, HasEmpty DEF Tale, HandOver, Before, OpenOnce, Past, Routed, Keeps, SentOf, GotOf, Sent, Got
    <3>7. Routed(f)'
      BY <1>f, <3>1, <3>2, <3>3, <3>4, <2>4, HasEmpty DEF Tale, Routed, polled, OpenOnce, Past, HandOver, Before, LetGo, Keeps, SentOf, GotOf, Sent, Got
    <3>8. LetGo(f)'
      BY <1>f, <3>1, <3>2, <3>3, <3>4, <2>4, HasEmpty DEF Tale, LetGo, OpenOnce, Past, HandOver, Before, Routed, Keeps, SentOf, GotOf, Sent, Got
    <3> QED BY <3>5, <3>6, <3>7, <3>8 DEF Tale
  <2> QED BY <2>3, <2>4
<1>8. ASSUME NEW fd \in Fds, GateOpen(fd), NEW f \in Fds PROVE Tale(f)'
  <2>1. Got(gateq, gateq', M("open", fd))
    BY <1>8, GateReceives DEF GateOpen
  <2>2. \/ /\ Sent(ctrl, ctrl', M("close", fd))
           /\ UNCHANGED <<conn, route, watchq>>
        \/ /\ Sent(watchq, watchq', M("open", fd))
           /\ conn' = [conn EXCEPT ![fd] = "true"]
           /\ route' = [route EXCEPT ![fd] = "new"] /\ UNCHANGED ctrl
    BY <1>8, ToCtrlSends, ToDogSends DEF GateOpen
  <2>3. CASE f # fd
    <3>1. Keeps(ctrl, ctrl', f)
      BY <2>2, <2>3, SentView, SameView
    <3>2. Keeps(gateq, gateq', f)
      BY <2>1, <2>3, GotView
    <3>3. Keeps(watchq, watchq', f)
      BY <2>2, <2>3, SentView, SameView
    <3>4. Aside(f)
      BY <1>8, <2>1, <2>2, <2>3, <3>1, <3>2, <3>3, SameView DEF GateOpen, Aside
    <3> QED BY <3>4, <1>f, StoryAside
  <2>4. CASE f = fd
    <3>1. GotOf(gateq, gateq', "open", f)
      BY <1>8, <2>1, <2>2, <2>4, GotView DEF GateOpen
    <3>2. ~ Has(agentq[f], "disconnect")
      BY <1>f, <3>1, HasEmpty DEF Tale, OpenOnce, Past, HandOver, GotOf
    <3>3. \/ /\ SentOf(ctrl, ctrl', "close", f) /\ Keeps(watchq, watchq', f)
             /\ conn'[f] = conn[f] /\ route'[f] = route[f]
          \/ /\ SentOf(watchq, watchq', "open", f) /\ Keeps(ctrl, ctrl', f)
             /\ conn'[f] = "true" /\ route'[f] = "new"
      BY <1>8, <2>1, <2>2, <2>4, SentView, SameView DEF GateOpen
    <3>4. /\ sock'[f] = sock[f] /\ actor'[f] = actor[f]
          /\ agentq'[f] = agentq[f] /\ (f \in agent' <=> f \in agent)
      BY <1>8, <2>1, <2>2, <2>4, SameView DEF GateOpen
    <3>5. OpenOnce(f)'
      BY <1>f, <3>1, <3>2, <3>3, <3>4, <2>4, HasEmpty DEF Tale, OpenOnce, Past, HandOver, Before, polled, Keeps, SentOf, GotOf, Sent, Got
    <3>6. HandOver(f)'
      BY <1>f, <3>1, <3>2, <3>3, <3>4, <2>4, HasEmpty DEF Tale, HandOver, Before, OpenOnce, Past, Routed, Keeps, SentOf, GotOf, Sent, Got
    <3>7. Routed(f)'
      BY <1>f, <3>1, <3>2, <3>3, <3>4, <2>4, HasEmpty DEF Tale, Routed, polled, OpenOnce, Past, HandOver, Before, LetGo, Keeps, SentOf, GotOf, Sent, Got
    <3>8. LetGo(f)'
      BY <1>f, <3>1, <3>2, <3>3, <3>4, <2>4, HasEmpty DEF Tale, LetGo, OpenOnce, Past, HandOver, Before, Routed, Keeps, SentOf, GotOf, Sent, Got
    <3> QED BY <3>5, <3>6, <3>7, <3>8 DEF Tale
  <2> QED BY <2>3, <2>4
<1>9. ASSUME NEW fd \in Fds, GateData(fd), NEW f \in Fds PROVE Tale(f)'
  <2>1. Got(gateq, gateq', M("data", fd))
    BY <1>9, GateReceives DEF GateData
  <2>2. watchq' = watchq \/ Sent(watchq, watchq', M("data", fd))
    BY <1>9, ToDogSends DEF GateData
  <2>3. \A g \in Fds \ {fd} : agentq'[g] = agentq[g]
    BY <1>9, ToAgentSends DEF GateData, AgentMessage
  <2>4. \/ agentq'[fd] = agentq[fd]
        \/ /\ conn[fd] = "true" /\ route[fd] = "forward"
           /\ actor[fd] \notin {"none", "exited"}
           /\ Sent(agentq[fd], agentq'[fd], "data")
    BY <1>9, ToAgentSends DEF GateData, AgentMessage
  <2>5. CASE f # fd
    <3>1. Keeps(gateq, gateq', f)
      BY <2>1, <2>5, GotView
    <3>2. Keeps(watchq, watchq', f)
      BY <2>2, <2>5, SentView, SameView
    <3>3. Aside(f)
      BY <1>9, <2>1, <2>2, <2>3, <2>4, <2>5, <3>1, <3>2, SameView DEF GateData, Aside
    <3> QED BY <3>3, <1>f, StoryAside
  <2>6. CASE f = fd
    <3>1. GotOf(gateq, gateq', "data", f)
      BY <1>9, <2>1, <2>2, <2>3, <2>4, <2>6, GotView DEF GateData
    <3>2. Keeps(watchq, watchq', f) \/ SentOf(watchq, watchq', "data", f)
      BY <1>9, <2>1, <2>2, <2>3, <2>4, <2>6, SentView, SameView DEF GateData
    <3>3. /\ sock'[f] = sock[f] /\ conn'[f] = conn[f]
          /\ route'[f] = route[f] /\ actor'[f] = actor[f]
          /\ Keeps(ctrl, ctrl', f) /\ (f \in agent' <=> f \in agent)
      BY <1>9, <2>1, <2>2, <2>3, <2>4, <2>6, SameView DEF GateData
    <3>4. OpenOnce(f)'
      BY <1>f, <3>1, <3>2, <3>3, <2>1, <2>2, <2>3, <2>4, <2>6, HasEmpty DEF Tale, OpenOnce, Past, HandOver, Before, polled, Keeps, SentOf, GotOf, Sent, Got
    <3>5. HandOver(f)'
      BY <1>f, <3>1, <3>2, <3>3, <2>1, <2>2, <2>3, <2>4, <2>6, HasEmpty DEF Tale, HandOver, Before, OpenOnce, Past, Routed, Keeps, SentOf, GotOf, Sent, Got
    <3>6. Routed(f)'
      BY <1>f, <3>1, <3>2, <3>3, <2>1, <2>2, <2>3, <2>4, <2>6, HasEmpty DEF Tale, Routed, polled, OpenOnce, Past, HandOver, Before, LetGo, Keeps, SentOf, GotOf, Sent, Got
    <3>7. LetGo(f)'
      BY <1>f, <3>1, <3>2, <3>3, <2>1, <2>2, <2>3, <2>4, <2>6, HasEmpty DEF Tale, LetGo, OpenOnce, Past, HandOver, Before, Routed, Keeps, SentOf, GotOf, Sent, Got
    <3> QED BY <3>4, <3>5, <3>6, <3>7 DEF Tale
  <2> QED BY <2>5, <2>6
<1>10. ASSUME NEW fd \in Fds, GateForward(fd), NEW f \in Fds PROVE Tale(f)'
  <2>1. Got(gateq, gateq', M("forward", fd))
    BY <1>10, GateReceives DEF GateForward, opens
  <2>2. \/ route[fd] = "nil" /\ UNCHANGED <<ctrl, route>>
        \/ /\ route[fd] # "nil" /\ route' = [route EXCEPT ![fd] = "forward"]
           /\ \/ ctrl' = ctrl
              \/ conn[fd] = "true" /\ Sent(ctrl, ctrl', M("start", fd))
    BY <1>10, ToCtrlSends DEF GateForward, opens
  <2>3. \A g \in Fds \ {fd} : agentq'[g] = agentq[g]
    BY <1>10, ToAgentSends DEF GateForward, opens, AgentMessage
  <2>4. \/ agentq'[fd] = agentq[fd] /\ actor[fd] \in {"none", "exited"}
        \/ /\ actor[fd] \notin {"none", "exited"}
           /\ \/ /\ Sent(agentq[fd], agentq'[fd], "forward_done")
                 /\ route[fd] # "nil"
              \/ /\ Sent(agentq[fd], agentq'[fd], "forward_failed")
                 /\ route[fd] = "nil"
    BY <1>10, ToAgentSends DEF GateForward, opens, AgentMessage
  <2>5. CASE f # fd
    <3>1. Keeps(ctrl, ctrl', f)
      BY <2>2, <2>5, SentView, SameView
    <3>2. Keeps(gateq, gateq', f)
      BY <2>1, <2>5, GotView
    <3>3. Aside(f)
      BY <1>10, <2>1, <2>2, <2>3, <2>4, <2>5, <3>1, <3>2, SameView DEF GateForward, opens, Aside
    <3> QED BY <3>3, <1>f, StoryAside
  <2>6. CASE f = fd
    <3>1. GotOf(gateq, gateq', "forward", f)
      BY <1>10, <2>1, <2>2, <2>3, <2>4, <2>6, GotView DEF GateForward, opens
    <3>2. \/ /\ route[f] = "nil" /\ route'[f] = "nil" /\ Keeps(ctrl, ctrl', f)
          \/ /\ route[f] # "nil" /\ route'[f] = "forward"
             /\ \/ Keeps(ctrl, ctrl', f)
                \/ conn[f] = "true" /\ SentOf(ctrl, ctrl', "start", f)
      BY <1>10, <2>1, <2>2, <2>3, <2>4, <2>6, SentView, SameView DEF GateForward, opens
    <3>3. /\ sock'[f] = sock[f] /\ conn'[f] = conn[f]
          /\ actor'[f] = actor[f] /\ Keeps(watchq, watchq', f)
          /\ (f \in agent' <=> f \in agent)
      BY <1>10, <2>1, <2>2, <2>3, <2>4, <2>6, SameView DEF GateForward, opens
    <3>4. OpenOnce(f)'
      BY <1>f, <3>1, <3>2, <3>3, <2>1, <2>2, <2>3, <2>4, <2>6, HasEmpty DEF Tale, OpenOnce, Past, HandOver, Before, polled, Keeps, SentOf, GotOf, Sent, Got
    <3>5. HandOver(f)'
      BY <1>f, <3>1, <3>2, <3>3, <2>1, <2>2, <2>3, <2>4, <2>6, HasEmpty DEF Tale, HandOver, Before, OpenOnce, Past, Routed, Keeps, SentOf, GotOf, Sent, Got
    <3>6. Routed(f)'
      BY <1>f, <3>1, <3>2, <3>3, <2>1, <2>2, <2>3, <2>4, <2>6, HasEmpty DEF Tale, Routed, polled, OpenOnce, Past, HandOver, Before, LetGo, Keeps, SentOf, GotOf, Sent, Got
    <3>7. LetGo(f)'
      BY <1>f, <3>1, <3>2, <3>3, <2>1, <2>2, <2>3, <2>4, <2>6, HasEmpty DEF Tale, LetGo, OpenOnce, Past, HandOver, Before, Routed, Keeps, SentOf, GotOf, Sent, Got
    <3> QED BY <3>4, <3>5, <3>6, <3>7 DEF Tale
  <2> QED BY <2>5, <2>6
<1>11. ASSUME NEW fd \in Fds, GateKick(fd), NEW f \in Fds PROVE Tale(f)'
  <2>1. Got(gateq, gateq', M("kick", fd))
    BY <1>11, GateReceives DEF GateKick, kicked
  <2>2. \/ conn[fd] # "true" /\ UNCHANGED <<conn, ctrl>>
        \/ /\ conn' = [conn EXCEPT ![fd] = "false"]
           /\ Sent(ctrl, ctrl', M("close", fd))
    BY <1>11, ToCtrlSends DEF GateKick, kicked
  <2>3. Sent(watchq, watchq', M("kicked", fd))
    BY <1>11, ToDogSends DEF GateKick, kicked
  <2>4. CASE f # fd
    <3>1. Keeps(ctrl, ctrl', f)
      BY <2>2, <2>4, SentView, SameView
    <3>2. Keeps(gateq, gateq', f)
      BY <2>1, <2>4, GotView
    <3>3. Keeps(watchq, watchq', f)
      BY <2>3, <2>4, SentView
    <3>4. Aside(f)
      BY <1>11, <2>1, <2>2, <2>3, <2>4, <3>1, <3>2, <3>3, SameView DEF GateKick, kicked, Aside
    <3> QED BY <3>4, <1>f, StoryAside
  <2>5. CASE f = fd
    <3>1. GotOf(gateq, gateq', "kick", f)
      BY <1>11, <2>1, <2>2, <2>3, <2>5, GotView DEF GateKick, kicked
    <3>2. \/ conn[f] # "true" /\ conn'[f] = conn[f] /\ Keeps(ctrl, ctrl', f)
          \/ conn'[f] = "false" /\ SentOf(ctrl, ctrl', "close", f)
      BY <1>11, <2>1, <2>2, <2>3, <2>5, SentView, SameView DEF GateKick, kicked
    <3>3. SentOf(watchq, watchq', "kicked", f)
      BY <1>11, <2>1, <2>2, <2>3, <2>5, SentView DEF GateKick, kicked
    <3>4. /\ sock'[f] = sock[f] /\ route'[f] = route[f]
          /\ actor'[f] = actor[f] /\ agentq'[f] = agentq[f]
          /\ (f \in agent' <=> f \in agent)
      BY <1>11, <2>1, <2>2, <2>3, <2>5, SameView DEF GateKick, kicked
    <3>5. OpenOnce(f)'
      BY <1>f, <3>1, <3>2, <3>3, <3>4, <2>5, HasEmpty DEF Tale, OpenOnce, Past, HandOver, Before, polled, Keeps, SentOf, GotOf, Sent, Got
    <3>6. HandOver(f)'
      BY <1>f, <3>1, <3>2, <3>3, <3>4, <2>5, HasEmpty DEF Tale, HandOver, Before, OpenOnce, Past, Routed, Keeps, SentOf, GotOf, Sent, Got
    <3>7. Routed(f)'
      BY <1>f, <3>1, <3>2, <3>3, <3>4, <2>5, HasEmpty DEF Tale, Routed, polled, OpenOnce, Past, HandOver, Before, LetGo, Keeps, SentOf, GotOf, Sent, Got
    <3>8. LetGo(f)'
      BY <1>f, <3>1, <3>2, <3>3, <3>4, <2>5, HasEmpty DEF Tale, LetGo, OpenOnce, Past, HandOver, Before, Routed, Keeps, SentOf, GotOf, Sent, Got
    <3> QED BY <3>5, <3>6, <3>7, <3>8 DEF Tale
  <2> QED BY <2>4, <2>5
<1>12. ASSUME NEW i \in Ids, DogClose(i), NEW f \in Fds PROVE Tale(f)'
  <2>1. \E t \in {"close", "error", "close_command"} :
          Got(watchq, watchq', M(t, i))
    BY <1>12, DogReceives DEF DogClose
  <2>2. gateq' = gateq \/ (i \in agent /\ Sent(gateq, gateq', M("kick", i)))
    BY <1>12, ToGateSends DEF DogClose
  <2>3. CASE f # i
    <3>1. Keeps(gateq, gateq', f)
      BY <2>2, <2>3, SentView, SameView
    <3>2. Keeps(watchq, watchq', f)
      BY <2>1, <2>3, GotView
    <3>3. Aside(f)
      BY <1>12, <2>1, <2>2, <2>3, <3>1, <3>2, SameView DEF DogClose, Aside
    <3> QED BY <3>3, <1>f, StoryAside
  <2>4. CASE f = i
    <3>1. f \notin agent'
      BY <1>12, <2>1, <2>2, <2>4 DEF DogClose, polled
    <3>2. \E t \in {"close", "error", "close_command"} :
            GotOf(watchq, watchq', t, f)
      BY <1>12, <2>1, <2>2, <2>4, GotView DEF DogClose
    <3>3. Keeps(gateq, gateq', f)
          \/ (f \in agent /\ SentOf(gateq, gateq', "kick", f))
      BY <1>12, <2>1, <2>2, <2>4, SentView, SameView DEF DogClose
    <3>4. /\ sock'[f] = sock[f] /\ conn'[f] = conn[f]
          /\ route'[f] = route[f] /\ actor'[f] = actor[f]
          /\ Keeps(ctrl, ctrl', f) /\ agentq'[f] = agentq[f]
      BY <1>12, <2>1, <2>2, <2>4, SameView DEF DogClose
    <3>5. OpenOnce(f)'
      BY <1>f, <3>1, <3>2, <3>3, <3>4, <2>4, HasEmpty DEF Tale, OpenOnce, Past, HandOver, Before, polled, Keeps, SentOf, GotOf, Sent, Got
    <3>6. HandOver(f)'
      BY <1>f, <3>1, <3>2, <3>3, <3>4, <2>4, HasEmpty DEF Tale, HandOver, Before, OpenOnce, Past, Routed, Keeps, SentOf, GotOf, Sent, Got
    <3>7. Routed(f)'
      BY <1>f, <3>1, <3>2, <3>3, <3>4, <2>4, HasEmpty DEF Tale, Routed, polled, OpenOnce, Past, HandOver, Before, LetGo, Keeps, SentOf, GotOf, Sent, Got
    <3>8. LetGo(f)'
      BY <1>f, <3>1, <3>2, <3>3, <3>4, <2>4, HasEmpty DEF Tale, LetGo, OpenOnce, Past, HandOver, Before, Routed, Keeps, SentOf, GotOf, Sent, Got
    <3> QED BY <3>5, <3>6, <3>7, <3>8 DEF Tale
  <2> QED BY <2>3, <2>4
<1>13. ASSUME NEW fd \in Fds, DogOpen(fd), NEW f \in Fds PROVE Tale(f)'
  <2>1. Got(watchq, watchq', M("open", fd))
    BY <1>13, DogReceives DEF DogOpen
  <2>2. CASE f # fd
    <3>1. Keeps(watchq, watchq', f)
      BY <2>1, <2>2, GotView
    <3>2. Aside(f)
      BY <1>13, <2>1, <2>2, <3>1, SameView DEF DogOpen, Aside
    <3> QED BY <3>2, <1>f, StoryAside
  <2>3. CASE f = fd
    <3>1. actor'[f] = "launching"
      BY <1>13, <2>1, <2>3 DEF DogOpen, polled
    <3>2. GotOf(watchq, watchq', "open", f)
      BY <1>13, <2>1, <2>3, GotView DEF DogOpen
    <3>3. /\ sock'[f] = sock[f] /\ conn'[f] = conn[f]
          /\ route'[f] = route[f] /\ Keeps(ctrl, ctrl', f)
          /\ Keeps(gateq, gateq', f) /\ agentq'[f] = agentq[f]
          /\ (f \in agent' <=> f \in agent)
      BY <1>13, <2>1, <2>3, SameView DEF DogOpen
    <3>4. OpenOnce(f)'
      BY <1>f, <3>1, <3>2, <3>3, <2>3, HasEmpty DEF Tale, OpenOnce, Past, HandOver, Before, polled, Keeps, SentOf, GotOf, Sent, Got
    <3>5. HandOver(f)'
      BY <1>f, <3>1, <3>2, <3>3, <2>3, HasEmpty DEF Tale, HandOver, Before, OpenOnce, Past, Routed, Keeps, SentOf, GotOf, Sent, Got
    <3>6. Routed(f)'
      BY <1>f, <3>1, <3>2, <3>3, <2>3, HasEmpty DEF Tale, Routed, polled, OpenOnce, Past, HandOver, Before, LetGo, Keeps, SentOf, GotOf, Sent, Got
    <3>7. LetGo(f)'
      BY <1>f, <3>1, <3>2, <3>3, <2>3, HasEmpty DEF Tale, LetGo, OpenOnce, Past, HandOver, Before, Routed, Keeps, SentOf, GotOf, Sent, Got
    <3> QED BY <3>4, <3>5, <3>6, <3>7 DEF Tale
  <2> QED BY <2>2, <2>3
<1>14. ASSUME NEW fd \in Fds, DogLaunched(fd), NEW f \in Fds PROVE Tale(f)'
  <2>1. Got(watchq, watchq', M("launched", fd))
    BY <1>14, DogReceives DEF DogLaunched
  <2>2. \A g \in Fds \ {fd} : agentq'[g] = agentq[g]
    BY <1>14, ToAgentSends DEF DogLaunched, AgentMessage
  <2>3. \/ agentq'[fd] = agentq[fd] /\ actor[fd] \in {"none", "exited"}
        \/ /\ actor[fd] \notin {"none", "exited"}
           /\ Sent(agentq[fd], agentq'[fd], "start")
    BY <1>14, ToAgentSends DEF DogLaunched, AgentMessage
  <2>4. CASE f # fd
    <3>1. Keeps(watchq, watchq', f)
      BY <2>1, <2>4, GotView
    <3>2. Aside(f)
      BY <1>14, <2>1, <2>2, <2>3, <2>4, <3>1, SameView DEF DogLaunched, Aside
    <3> QED BY <3>2, <1>f, StoryAside
  <2>5. CASE f = fd
    <3>1. GotOf(watchq, watchq', "launched", f)
      BY <1>14, <2>1, <2>2, <2>3, <2>5, GotView DEF DogLaunched
    <3>2. /\ sock'[f] = sock[f] /\ conn'[f] = conn[f]
          /\ route'[f] = route[f] /\ actor'[f] = actor[f]
          /\ Keeps(ctrl, ctrl', f) /\ Keeps(gateq, gateq', f)
      BY <1>14, <2>1, <2>2, <2>3, <2>5, SameView DEF DogLaunched
    <3>3. OpenOnce(f)'
      BY <1>f, <3>1, <3>2, <2>1, <2>2, <2>3, <2>5, HasEmpty DEF Tale, OpenOnce, Past, HandOver, Before, polled, Keeps, SentOf, GotOf, Sent, Got
    <3>4. HandOver(f)'
      BY <1>f, <3>1, <3>2, <2>1, <2>2, <2>3, <2>5, HasEmpty DEF Tale, HandOver, Before, OpenOnce, Past, Routed, Keeps, SentOf, GotOf, Sent, Got
    <3>5. Routed(f)'
      BY <1>f, <3>1, <3>2, <2>1, <2>2, <2>3, <2>5, HasEmpty DEF Tale, Routed, polled, OpenOnce, Past, HandOver, Before, LetGo, Keeps, SentOf, GotOf, Sent, Got
    <3>6. LetGo(f)'
      BY <1>f, <3>1, <3>2, <2>1, <2>2, <2>3, <2>5, HasEmpty DEF Tale, LetGo, OpenOnce, Past, HandOver, Before, Routed, Keeps, SentOf, GotOf, Sent, Got
    <3> QED BY <3>3, <3>4, <3>5, <3>6 DEF Tale
  <2> QED BY <2>4, <2>5
<1>15. ASSUME NEW fd \in Fds, DogOpened(fd), NEW f \in Fds PROVE Tale(f)'
  <2>1. \E t \in {"launch_failed", "start_done", "start_failed", "data"} :
          Got(watchq, watchq', M(t, fd))
    BY <1>15, DogReceives DEF DogOpened
  <2>2. CASE f # fd
    <3>1. Keeps(watchq, watchq', f)
      BY <2>1, <2>2, GotView
    <3>2. Aside(f)
      BY <1>15, <2>1, <2>2, <3>1, SameView DEF DogOpened, Aside
    <3> QED BY <3>2, <1>f, StoryAside
  <2>3. CASE f = fd
    <3>1. \E t \in {"launch_failed", "start_done", "start_failed", "data"} :
            GotOf(watchq, watchq', t, f)
      BY <1>15, <2>1, <2>3, GotView DEF DogOpened
    <3>2. /\ sock'[f] = sock[f] /\ conn'[f] = conn[f]
          /\ route'[f] = route[f] /\ actor'[f] = actor[f]
          /\ Keeps(ctrl, ctrl', f) /\ Keeps(gateq, gateq', f)
          /\ agentq'[f] = agentq[f] /\ (f \in agent' <=> f \in agent)
      BY <1>15, <2>1, <2>3, SameView DEF DogOpened
    <3>3. OpenOnce(f)'
      BY <1>f, <3>1, <3>2, <2>3, HasEmpty DEF Tale, OpenOnce, Past, HandOver, Before, polled, Keeps, SentOf, GotOf, Sent, Got
    <3>4. HandOver(f)'
      BY <1>f, <3>1, <3>2, <2>3, HasEmpty DEF Tale, HandOver, Before, OpenOnce, Past, Routed, Keeps, SentOf, GotOf, Sent, Got
    <3>5. Routed(f)'
      BY <1>f, <3>1, <3>2, <2>3, HasEmpty DEF Tale, Routed, polled, OpenOnce, Past, HandOver, Before, LetGo, Keeps, SentOf, GotOf, Sent, Got
    <3>6. LetGo(f)'
      BY <1>f, <3>1, <3>2, <2>3, HasEmpty DEF Tale, LetGo, OpenOnce, Past, HandOver, Before, Routed, Keeps, SentOf, GotOf, Sent, Got
    <3> QED BY <3>3, <3>4, <3>5, <3>6 DEF Tale
  <2> QED BY <2>2, <2>3
<1>16. ASSUME NEW fd \in Fds, DogKicked(fd), NEW f \in Fds PROVE Tale(f)'
  <2>1. Got(watchq, watchq', M("kicked", fd))
    BY <1>16, DogReceives DEF DogKicked
  <2>2. \A g \in Fds \ {fd} : agentq'[g] = agentq[g]
    BY <1>16, ToAgentSends DEF DogKicked, AgentMessage
  <2>3. \/ agentq'[fd] = agentq[fd]
        \/ /\ actor[fd] \notin {"none", "exited"}
           /\ Sent(agentq[fd], agentq'[fd], "disconnect")
    BY <1>16, ToAgentSends DEF DogKicked, AgentMessage
  <2>4. CASE f # fd
    <3>1. Keeps(watchq, watchq', f)
      BY <2>1, <2>4, GotView
    <3>2. Aside(f)
      BY <1>16, <2>1, <2>2, <2>3, <2>4, <3>1, SameView DEF DogKicked, Aside
    <3> QED BY <3>2, <1>f, StoryAside
  <2>5. CASE f = fd
    <3>1. GotOf(watchq, watchq', "kicked", f)
      BY <1>16, <2>1, <2>2, <2>3, <2>5, GotView DEF DogKicked
    <3>2. /\ sock'[f] = sock[f] /\ conn'[f] = conn[f]
          /\ route'[f] = route[f] /\ actor'[f] = actor[f]
          /\ Keeps(ctrl, ctrl', f) /\ Keeps(gateq, gateq', f)
          /\ (f \in agent' <=> f \in agent)
      BY <1>16, <2>1, <2>2, <2>3, <2>5, SameView DEF DogKicked
    <3>3. OpenOnce(f)'
      BY <1>f, <3>1, <3>2, <2>1, <2>2, <2>3, <2>5, HasEmpty DEF Tale, OpenOnce, Past, HandOver, Before, polled, Keeps, SentOf, GotOf, Sent, Got
    <3>4. HandOver(f)'
      BY <1>f, <3>1, <3>2, <2>1, <2>2, <2>3, <2>5, HasEmpty DEF Tale, HandOver, Before, OpenOnce, Past, Routed, Keeps, SentOf, GotOf, Sent, Got
    <3>5. Routed(f)'
      BY <1>f, <3>1, <3>2, <2>1, <2>2, <2>3, <2>5, HasEmpty DEF Tale, Routed, polled, OpenOnce, Past, HandOver, Before, LetGo, Keeps, SentOf, GotOf, Sent, Got
    <3>6. LetGo(f)'
      BY <1>f, <3>1, <3>2, <2>1, <2>2, <2>3, <2>5, HasEmpty DEF Tale, LetGo, OpenOnce, Past, HandOver, Before, Routed, Keeps, SentOf, GotOf, Sent, Got
    <3> QED BY <3>3, <3>4, <3>5, <3>6 DEF Tale
  <2> QED BY <2>4, <2>5
<1>17. ASSUME NEW fd \in Fds, Launch(fd), NEW f \in Fds PROVE Tale(f)'
  <2>1. \/ /\ Sent(watchq, watchq', M("launched", fd))
           /\ actor' = [actor EXCEPT ![fd] = "up"]
        \/ /\ Sent(watchq, watchq', M("launch_failed", fd))
           /\ actor' = [actor EXCEPT ![fd] = "exited"]
    BY <1>17, ToDogSends DEF Launch
  <2>2. CASE f # fd
    <3>1. Keeps(watchq, watchq', f)
      BY <2>1, <2>2, SentView
    <3>2. Aside(f)
      BY <1>17, <2>1, <2>2, <3>1, SameView DEF Launch, Aside
    <3> QED BY <3>2, <1>f, StoryAside
  <2>3. CASE f = fd
    <3>1. actor[f] = "launching"
      BY <1>17, <2>1, <2>3 DEF Launch, polled
    <3>2. \/ SentOf(watchq, watchq', "launched", f) /\ actor'[f] = "up"
          \/ SentOf(watchq, watchq', "launch_failed", f) /\ actor'[f] = "exited"
      BY <1>17, <2>1, <2>3, SentView DEF Launch
    <3>3. /\ sock'[f] = sock[f] /\ conn'[f] = conn[f]
          /\ route'[f] = route[f] /\ Keeps(ctrl, ctrl', f)
          /\ Keeps(gateq, gateq', f) /\ agentq'[f] = agentq[f]
          /\ (f \in agent' <=> f \in agent)
      BY <1>17, <2>1, <2>3, SameView DEF Launch
    <3>4. OpenOnce(f)'
      BY <1>f, <3>1, <3>2, <3>3, <2>3, HasEmpty DEF Tale, OpenOnce, Past, HandOver, Before, polled, Keeps, SentOf, GotOf, Sent, Got
    <3>5. HandOver(f)'
      BY <1>f, <3>1, <3>2, <3>3, <2>3, HasEmpty DEF Tale, HandOver, Before, OpenOnce, Past, Routed, Keeps, SentOf, GotOf, Sent, Got
    <3>6. Routed(f)'
      BY <1>f, <3>1, <3>2, <3>3, <2>3, HasEmpty DEF Tale, Routed, polled, OpenOnce, Past, HandOver, Before, LetGo, Keeps, SentOf, GotOf, Sent, Got
    <3>7. LetGo(f)'
      BY <1>f, <3>1, <3>2, <3>3, <2>3, HasEmpty DEF Tale, LetGo, OpenOnce, Past, HandOver, Before, Routed, Keeps, SentOf, GotOf, Sent, Got
    <3> QED BY <3>4, <3>5, <3>6, <3>7 DEF Tale
  <2> QED BY <2>2, <2>3
<1>18. ASSUME NEW fd \in Fds, AgentStart(fd), NEW f \in Fds PROVE Tale(f)'
  <2>1. \A g \in Fds \ {fd} : agentq'[g] = agentq[g]
    BY <1>18, AgentReceives DEF AgentStart
  <2>2. Got(agentq[fd], agentq'[fd], "start")
    BY <1>18, AgentReceives DEF AgentStart
  <2>3. Sent(gateq, gateq', M("forward", fd))
    BY <1>18, ToGateSends DEF AgentStart
  <2>4. CASE f # fd
    <3>1. Keeps(gateq, gateq', f)
      BY <2>3, <2>4, SentView
    <3>2. Aside(f)
      BY <1>18, <2>1, <2>2, <2>3, <2>4, <3>1, SameView DEF AgentStart, Aside
    <3> QED BY <3>2, <1>f, StoryAside
  <2>5. CASE f = fd
    <3>1. actor'[f] = "starting"
      BY <1>18, <2>1, <2>2, <2>3, <2>5 DEF AgentStart, polled
    <3>2. SentOf(gateq, gateq', "forward", f)
      BY <1>18, <2>1, <2>2, <2>3, <2>5, SentView DEF AgentStart
    <3>3. /\ sock'[f] = sock[f] /\ conn'[f] = conn[f]
          /\ route'[f] = route[f] /\ Keeps(ctrl, ctrl', f)
          /\ Keeps(watchq, watchq', f) /\ (f \in agent' <=> f \in agent)
      BY <1>18, <2>1, <2>2, <2>3, <2>5, SameView DEF AgentStart
    <3>4. OpenOnce(f)'
      BY <1>f, <3>1, <3>2, <3>3, <2>1, <2>2, <2>3, <2>5, HasEmpty DEF Tale, OpenOnce, Past, HandOver, Before, polled, Keeps, SentOf, GotOf, Sent, Got
    <3>5. HandOver(f)'
      BY <1>f, <3>1, <3>2, <3>3, <2>1, <2>2, <2>3, <2>5, HasEmpty DEF Tale, HandOver, Before, OpenOnce, Past, Routed, Keeps, SentOf, GotOf, Sent, Got
    <3>6. Routed(f)'
      BY <1>f, <3>1, <3>2, <3>3, <2>1, <2>2, <2>3, <2>5, HasEmpty DEF Tale, Routed, polled, OpenOnce, Past, HandOver, Before, LetGo, Keeps, SentOf, GotOf, Sent, Got
    <3>7. LetGo(f)'
      BY <1>f, <3>1, <3>2, <3>3, <2>1, <2>2, <2>3, <2>5, HasEmpty DEF Tale, LetGo, OpenOnce, Past, HandOver, Before, Routed, Keeps, SentOf, GotOf, Sent, Got
    <3> QED BY <3>4, <3>5, <3>6, <3>7 DEF Tale
  <2> QED BY <2>4, <2>5
<1>19. ASSUME NEW fd \in Fds, AgentStarted(fd), NEW f \in Fds PROVE Tale(f)'
  <2>1. \A g \in Fds \ {fd} : agentq'[g] = agentq[g]
    BY <1>19, AgentReceives DEF AgentStarted
  <2>2. \/ /\ Got(agentq[fd], agentq'[fd], "forward_done")
           /\ actor' = [actor EXCEPT ![fd] = "ready"]
           /\ Sent(watchq, watchq', M("start_done", fd))
        \/ /\ Got(agentq[fd], agentq'[fd], "forward_failed")
           /\ actor' = [actor EXCEPT ![fd] = "up"]
           /\ Sent(watchq, watchq', M("start_failed", fd))
    BY <1>19, AgentReceives, ToDogSends DEF AgentStarted
  <2>3. CASE f # fd
    <3>1. Keeps(watchq, watchq', f)
      BY <2>2, <2>3, SentView, GotView
    <3>2. Aside(f)
      BY <1>19, <2>1, <2>2, <2>3, <3>1, SameView DEF AgentStarted, Aside
    <3> QED BY <3>2, <1>f, StoryAside
  <2>4. CASE f = fd
    <3>1. \/ /\ Got(agentq[f], agentq'[f], "forward_done")
             /\ actor'[f] = "ready" /\ SentOf(watchq, watchq', "start_done", f)
          \/ /\ Got(agentq[f], agentq'[f], "forward_failed")
             /\ actor'[f] = "up" /\ SentOf(watchq, watchq', "start_failed", f)
      BY <1>19, <2>1, <2>2, <2>4, SentView DEF AgentStarted
    <3>2. /\ sock'[f] = sock[f] /\ conn'[f] = conn[f]
          /\ route'[f] = route[f] /\ Keeps(ctrl, ctrl', f)
          /\ Keeps(gateq, gateq', f) /\ (f \in agent' <=> f \in agent)
      BY <1>19, <2>1, <2>2, <2>4, SameView DEF AgentStarted
    <3>3. OpenOnce(f)'
      BY <1>f, <3>1, <3>2, <2>1, <2>2, <2>4, HasEmpty DEF Tale, OpenOnce, Past, HandOver, Before, polled, Keeps, SentOf, GotOf, Sent, Got
    <3>4. HandOver(f)'
      BY <1>f, <3>1, <3>2, <2>1, <2>2, <2>4, HasEmpty DEF Tale, HandOver, Before, OpenOnce, Past, Routed, Keeps, SentOf, GotOf, Sent, Got
    <3>5. Routed(f)'
      BY <1>f, <3>1, <3>2, <2>1, <2>2, <2>4, HasEmpty DEF Tale, Routed, polled, OpenOnce, Past, HandOver, Before, LetGo, Keeps, SentOf, GotOf, Sent, Got
    <3>6. LetGo(f)'
      BY <1>f, <3>1, <3>2, <2>1, <2>2, <2>4, HasEmpty DEF Tale, LetGo, OpenOnce, Past, HandOver, Before, Routed, Keeps, SentOf, GotOf, Sent, Got
    <3> QED BY <3>3, <3>4, <3>5, <3>6 DEF Tale
  <2> QED BY <2>3, <2>4
<1>20. ASSUME NEW fd \in Fds, AgentData(fd), NEW f \in Fds PROVE Tale(f)'
  <2>1. \A g \in Fds \ {fd} : agentq'[g] = agentq[g]
    BY <1>20, AgentReceives DEF AgentData
  <2>2. Got(agentq[fd], agentq'[fd], "data")
    BY <1>20, AgentReceives DEF AgentData
  <2>3. CASE f # fd
    <3>1. Aside(f)
      BY <1>20, <2>1, <2>2, <2>3, SameView DEF AgentData, Aside
    <3> QED BY <3>1, <1>f, StoryAside
  <2>4. CASE f = fd
    <3>1. /\ sock'[f] = sock[f] /\ conn'[f] = conn[f]
          /\ route'[f] = route[f] /\ actor'[f] = actor[f]
          /\ Keeps(ctrl, ctrl', f) /\ Keeps(gateq, gateq', f)
          /\ Keeps(watchq, watchq', f) /\ (f \in agent' <=> f \in agent)
      BY <1>20, <2>1, <2>2, <2>4, SameView DEF AgentData
    <3>2. OpenOnce(f)'
      BY <1>f, <3>1, <2>1, <2>2, <2>4, HasEmpty DEF Tale, OpenOnce, Past, HandOver, Before, polled, Keeps, SentOf, GotOf, Sent, Got
    <3>3. HandOver(f)'
      BY <1>f, <3>1, <2>1, <2>2, <2>4, HasEmpty DEF Tale, HandOver, Before, OpenOnce, Past, Routed, Keeps, SentOf, GotOf, Sent, Got
    <3>4. Routed(f)'
      BY <1>f, <3>1, <2>1, <2>2, <2>4, HasEmpty DEF Tale, Routed, polled, OpenOnce, Past, HandOver, Before, LetGo, Keeps, SentOf, GotOf, Sent, Got
    <3>5. LetGo(f)'
      BY <1>f, <3>1, <2>1, <2>2, <2>4, HasEmpty DEF Tale, LetGo, OpenOnce, Past, HandOver, Before, Routed, Keeps, SentOf, GotOf, Sent, Got
    <3> QED BY <3>2, <3>3, <3>4, <3>5 DEF Tale
  <2> QED BY <2>3, <2>4
<1>21. ASSUME NEW fd \in Fds, AgentExit(fd), NEW f \in Fds PROVE Tale(f)'
  <2>1. agentq' = [agentq EXCEPT ![fd] = << >>]
        /\ agentq \in [Fds -> Seq(AgentMessage)]
    BY <1>21 DEF AgentExit, AgentGets, AgentMessage, TypeOK, Got
  <2>2. Has(agentq[fd], "disconnect") /\ actor[fd] # "none"
    BY <1>21, GotTail, <2>1 DEF AgentExit, AgentGets, AgentMessage, TypeOK, Got
  <2>3. watchq' = watchq \/ Sent(watchq, watchq', M("start_failed", fd))
    BY <1>21, ToDogSends DEF AgentExit, AgentGets, AgentMessage, TypeOK, Got
  <2>4. CASE f # fd
    <3>1. Keeps(watchq, watchq', f)
      BY <2>3, <2>4, SentView, SameView
    <3>2. Aside(f)
      BY <1>21, <2>1, <2>2, <2>3, <2>4, <3>1, SameView DEF AgentExit, AgentGets, AgentMessage, TypeOK, Got, Aside
    <3> QED BY <3>2, <1>f, StoryAside
  <2>5. CASE f = fd
    <3>1. actor'[f] = "exited" /\ agentq'[f] = << >>
          /\ Has(agentq[f], "disconnect")
      BY <1>21, <2>1, <2>2, <2>3, <2>5 DEF AgentExit, AgentGets, AgentMessage, TypeOK, Got, polled
    <3>2. Keeps(watchq, watchq', f) \/ SentOf(watchq, watchq', "start_failed", f)
      BY <1>21, <2>1, <2>2, <2>3, <2>5, SentView, SameView DEF AgentExit, AgentGets, AgentMessage, TypeOK, Got
    <3>3. /\ sock'[f] = sock[f] /\ conn'[f] = conn[f]
          /\ route'[f] = route[f] /\ Keeps(ctrl, ctrl', f)
          /\ Keeps(gateq, gateq', f) /\ (f \in agent' <=> f \in agent)
      BY <1>21, <2>1, <2>2, <2>3, <2>5, SameView DEF AgentExit, AgentGets, AgentMessage, TypeOK, Got
    <3>4. OpenOnce(f)'
      BY <1>f, <3>1, <3>2, <3>3, <2>1, <2>2, <2>3, <2>5, HasEmpty DEF Tale, OpenOnce, Past, HandOver, Before, polled, Keeps, SentOf, GotOf, Sent, Got
    <3>5. HandOver(f)'
      BY <1>f, <3>1, <3>2, <3>3, <2>1, <2>2, <2>3, <2>5, HasEmpty DEF Tale, HandOver, Before, OpenOnce, Past, Routed, Keeps, SentOf, GotOf, Sent, Got
    <3>6. Routed(f)'
      BY <1>f, <3>1, <3>2, <3>3, <2>1, <2>2, <2>3, <2>5, HasEmpty DEF Tale, Routed, polled, OpenOnce, Past, HandOver, Before, LetGo, Keeps, SentOf, GotOf, Sent, Got
    <3>7. LetGo(f)'
      BY <1>f, <3>1, <3>2, <3>3, <2>1, <2>2, <2>3, <2>5, HasEmpty DEF Tale, LetGo, OpenOnce, Past, HandOver, Before, Routed, Keeps, SentOf, GotOf, Sent, Got
    <3> QED BY <3>4, <3>5, <3>6, <3>7 DEF Tale
  <2> QED BY <2>4, <2>5
<1>22. ASSUME AcceptRefused \/ GateListener \/ UNCHANGED vars, NEW f \in Fds
      PROVE  Tale(f)'
  <2>1. f # Listener
    BY ConnectionAssumption
  <2>2. gateq' = gateq \/ Sent(gateq, gateq', M("error", Listener))
          \/ (\E s \in {"error", "close"} : Got(gateq, gateq', M(s, Listener)))
    BY <1>22, ToGateSends, GateReceives DEF AcceptRefused, GateListener, vars
  <2>3. ctrl' = ctrl \/ Sent(ctrl, ctrl', M("close", Listener))
    BY <1>22, ToCtrlSends DEF AcceptRefused, GateListener, vars
  <2>4. Aside(f)
    BY <1>22, <2>1, <2>2, <2>3, SentView, GotView, SameView
       DEF AcceptRefused, GateListener, vars, Aside
  <2> QED BY <2>4, <1>f, StoryAside
<1> QED
  BY <1>1, <1>2, <1>3, <1>4, <1>5, <1>6, <1>7, <1>8, <1>9, <1>10, <1>11,
     <1>12, <1>13, <1>14, <1>15, <1>16, <1>17, <1>18, <1>19, <1>20, <1>21,
     <1>22 DEF Story, Next, Clients, SocketThread, Gate, Watchdog, Agent

(* Only four actions of the gate write its tables.                         *)
LEMMA TablesWritten ==
  ASSUME [Next]_vars
  PROVE  \/ UNCHANGED <<conn, client_number, route>>
         \/ \E i \in Ids : \E t \in {"close", "error"} : GateLost(i, t)
         \/ \E f \in Fds : GateOpen(f) \/ GateForward(f) \/ GateKick(f)
<1> USE DEF gateVars
<1>1. CASE Clients
  BY <1>1 DEF Clients, AcceptRefused, Accept, Receive, Hangup, CloseCommand
<1>2. CASE SocketThread
  BY <1>2 DEF SocketThread, CtrlClose, CtrlStart
<1>3. CASE Gate
  BY <1>3 DEF Gate, GateListener, GateData
<1>4. CASE Watchdog
  BY <1>4 DEF Watchdog, DogClose, DogOpen, DogLaunched, DogOpened, DogKicked
<1>5. ASSUME NEW f \in Fds, Launch(f) \/ Agent(f)
      PROVE  UNCHANGED <<conn, client_number, route>>
  BY <1>5 DEF Launch, Agent, AgentStart, AgentStarted, AgentData, AgentExit
<1>6. CASE UNCHANGED vars
  BY <1>6 DEF vars
<1> QED BY <1>1, <1>2, <1>3, <1>4, <1>5, <1>6 DEF Next

(* The gate goes on counting right, and its two tables go on agreeing.     *)
LEMMA NextTables ==
  ASSUME TypeOK, CountExact, TablesAgree, Story, [Next]_vars
  PROVE  CountExact' /\ TablesAgree'
<1> DEFINE C == {i \in Ids : conn[i] # "nil"}
<1>1. IsFiniteSet(C) /\ client_number = Cardinality(C)
  <2>1. IsFiniteSet(Ids)
    BY ConnectionAssumption, FS_AddElement DEF Ids
  <2> QED BY <2>1, FS_Subset DEF CountExact
<1>2. conn \in [Ids -> {"nil", "true", "false"}]
      /\ route \in [Ids -> {"nil", "new", "forward"}] /\ Fds \subseteq Ids
  BY DEF TypeOK, Ids
<1>3. CASE UNCHANGED <<conn, client_number, route>>
  BY <1>3 DEF CountExact, TablesAgree
<1>4. ASSUME NEW i \in Ids, NEW t \in {"close", "error"}, GateLost(i, t)
      PROVE  CountExact' /\ TablesAgree'
  <2>1. route' = [route EXCEPT ![i] = "nil"] /\ close_fd(i)
    BY <1>4 DEF GateLost
  <2>2. CASE conn[i] = "nil"
    <3>1. UNCHANGED <<conn, client_number>>
      BY <2>1, <2>2 DEF close_fd
    <3> QED BY <2>1, <2>2, <3>1, <1>2 DEF CountExact, TablesAgree
  <2>3. CASE conn[i] # "nil"
    <3>1. /\ conn' = [conn EXCEPT ![i] = "nil"]
          /\ client_number' = client_number - 1
      BY <2>1, <2>3 DEF close_fd
    <3>2. {j \in Ids : conn'[j] # "nil"} = C \ {i} /\ i \in C
      BY <3>1, <2>3, <1>2
    <3> HIDE DEF C
    <3>3. Cardinality(C \ {i}) = Cardinality(C) - 1
      BY <3>2, <1>1, FS_RemoveElement
    <3>4. CountExact'
      BY <3>1, <3>2, <3>3, <1>1 DEF CountExact
    <3>5. TablesAgree'
      BY <2>1, <3>1, <1>2 DEF TablesAgree
    <3> QED BY <3>4, <3>5
  <2> QED BY <2>2, <2>3
<1>5. ASSUME NEW f \in Fds, GateOpen(f) PROVE CountExact' /\ TablesAgree'
  <2>1. Has(gateq, M("open", f))
    BY <1>5, GateReceives DEF GateOpen, Got
  <2>2. conn[f] = "nil"
    BY <2>1 DEF Story, Tale, OpenOnce, Past
  <2>3. \/ UNCHANGED <<conn, client_number, route>>
        \/ /\ conn' = [conn EXCEPT ![f] = "true"]
           /\ client_number' = client_number + 1
           /\ route' = [route EXCEPT ![f] = "new"]
    BY <1>5 DEF GateOpen
  <2>4. CASE UNCHANGED <<conn, client_number, route>>
    BY <2>4 DEF CountExact, TablesAgree
  <2>5. CASE /\ conn' = [conn EXCEPT ![f] = "true"]
             /\ client_number' = client_number + 1
             /\ route' = [route EXCEPT ![f] = "new"]
    <3>1. {j \in Ids : conn'[j] # "nil"} = C \cup {f} /\ f \notin C
      BY <2>2, <2>5, <1>2
    <3> HIDE DEF C
    <3>2. Cardinality(C \cup {f}) = Cardinality(C) + 1
      BY <3>1, <1>1, FS_AddElement
    <3>3. CountExact'
      BY <2>5, <3>1, <3>2, <1>1 DEF CountExact
    <3>4. TablesAgree'
      BY <2>5, <1>2 DEF TablesAgree
    <3> QED BY <3>3, <3>4
  <2> QED BY <2>3, <2>4, <2>5
<1>6. ASSUME NEW f \in Fds, GateForward(f) PROVE CountExact' /\ TablesAgree'
  <2>1. UNCHANGED <<conn, client_number>>
        /\ \/ route' = route
           \/ route[f] # "nil" /\ route' = [route EXCEPT ![f] = "forward"]
    BY <1>6 DEF GateForward
  <2> QED BY <2>1, <1>2 DEF CountExact, TablesAgree
<1>7. ASSUME NEW f \in Fds, GateKick(f) PROVE CountExact' /\ TablesAgree'
  <2>1. UNCHANGED <<client_number, route>>
        /\ \/ conn' = conn
           \/ conn[f] = "true" /\ conn' = [conn EXCEPT ![f] = "false"]
    BY <1>7 DEF GateKick, kicked
  <2>2. {j \in Ids : conn'[j] # "nil"} = C
    BY <2>1, <1>2
  <2> QED BY <2>1, <2>2, <1>2 DEF CountExact, TablesAgree
<1> QED BY <1>3, <1>4, <1>5, <1>6, <1>7, TablesWritten

(* Listening is not a connection, ever.                                    *)
LEMMA NextListener ==
  ASSUME TypeOK, ListenerKept, [Next]_vars
  PROVE  ListenerKept'
<1>1. conn \in [Ids -> {"nil", "true", "false"}] /\ Listener \in Ids
      /\ Fds \subseteq Ids /\ Listener \notin Fds
  BY ConnectionAssumption DEF TypeOK, Ids
<1>2. ASSUME NEW i \in Ids, NEW t \in {"close", "error"}, GateLost(i, t)
      PROVE  ListenerKept'
  BY <1>1, <1>2 DEF GateLost, close_fd, ListenerKept
<1>3. ASSUME NEW f \in Fds, GateOpen(f) \/ GateForward(f) \/ GateKick(f)
      PROVE  ListenerKept'
  BY <1>1, <1>3 DEF GateOpen, GateForward, GateKick, kicked, ListenerKept
<1> QED BY <1>2, <1>3, TablesWritten DEF ListenerKept

(* A request that is appended follows those that were there; the order is  *)
(* kept by appending a request that is not a late start ...                *)
LEMMA OrderAppend ==
  ASSUME TypeOK, NoStartAfterClose, NEW s \in {"start", "close"}, NEW i \in Ids,
         ToCtrl(M(s, i)), s = "start" => ~ Has(ctrl, M("close", i))
  PROVE  NoStartAfterClose'
<1> DEFINE a == Append(ctrl, M(s, i))
<1>1. ctrl \in Seq(CtrlMessage) /\ M(s, i) \in CtrlMessage
  BY MessageType DEF TypeOK, CtrlMessage
<1>2. /\ Len(a) = Len(ctrl) + 1 /\ Len(ctrl) \in Nat
      /\ \A k \in 1 .. Len(ctrl) : a[k] = ctrl[k]
      /\ a[Len(ctrl) + 1] = M(s, i) /\ ctrl' = a
  BY <1>1 DEF ToCtrl
<1>3. \A k \in 1 .. Len(ctrl) :
        ctrl[k].type = "close" /\ ctrl[k].fd = i => ctrl[k] = M("close", i)
  <2>1. \A k \in 1 .. Len(ctrl) : ctrl[k] \in CtrlMessage
    BY <1>1
  <2> QED BY <2>1 DEF CtrlMessage, MessageOf, M
<1> HIDE DEF a
<1> SUFFICES ASSUME NEW j \in 1 .. Len(a), NEW k \in 1 .. Len(a), j < k,
                    a[j].type = "close", a[k].type = "start"
             PROVE  a[j].fd # a[k].fd
  BY <1>2 DEF NoStartAfterClose
<1>4. j \in 1 .. Len(ctrl) /\ a[j] = ctrl[j]
  BY <1>2
<1>5. CASE k \in 1 .. Len(ctrl)
  BY <1>2, <1>4, <1>5 DEF NoStartAfterClose
<1>6. CASE k = Len(ctrl) + 1
  <2>1. s = "start" /\ a[k].fd = i
    BY <1>2, <1>6 DEF M
  <2> QED BY <2>1, <1>3, <1>4 DEF Has
<1> QED BY <1>2, <1>5, <1>6

(* ... and taking the first one.                                           *)
LEMMA OrderTail ==
  ASSUME TypeOK, NoStartAfterClose, ctrl # << >>, ctrl' = Tail(ctrl)
  PROVE  NoStartAfterClose'
<1>1. ctrl \in Seq(CtrlMessage)
  BY DEF TypeOK, CtrlMessage
<1>2. /\ Len(ctrl) \in Nat \ {0} /\ Len(ctrl') = Len(ctrl) - 1
      /\ \A k \in 1 .. Len(ctrl) - 1 : ctrl'[k] = ctrl[k + 1]
  BY <1>1
<1> SUFFICES ASSUME NEW j \in 1 .. Len(ctrl'), NEW k \in 1 .. Len(ctrl'), j < k,
                    ctrl'[j].type = "close", ctrl'[k].type = "start"
             PROVE  ctrl'[j].fd # ctrl'[k].fd
  BY DEF NoStartAfterClose
<1>3. /\ j + 1 \in 1 .. Len(ctrl) /\ k + 1 \in 1 .. Len(ctrl) /\ j + 1 < k + 1
      /\ ctrl'[j] = ctrl[j + 1] /\ ctrl'[k] = ctrl[k + 1]
  BY <1>2
<1> QED BY <1>3 DEF NoStartAfterClose

(* Nobody asks for a start behind a close.                                 *)
LEMMA NextOrder ==
  ASSUME TypeOK, Story, NoStartAfterClose, [Next]_vars
  PROVE  NoStartAfterClose'
<1> USE DEF sockVars, Ids
<1>1. ctrl' = ctrl => NoStartAfterClose'
  BY DEF NoStartAfterClose
<1>2. ASSUME NEW i \in Ids, CtrlClose(i) \/ (i \in Fds /\ CtrlStart(i))
      PROVE  NoStartAfterClose'
  BY <1>2, OrderTail DEF CtrlClose, CtrlStart
<1>3. CASE GateListener
  BY <1>1, <1>3, OrderAppend DEF GateListener
<1>4. ASSUME NEW f \in Fds, GateOpen(f) PROVE NoStartAfterClose'
  BY <1>1, <1>4, OrderAppend DEF GateOpen
<1>5. ASSUME NEW f \in Fds, GateKick(f) PROVE NoStartAfterClose'
  BY <1>1, <1>5, OrderAppend DEF GateKick
<1>6. ASSUME NEW f \in Fds, GateForward(f) PROVE NoStartAfterClose'
  <2>1. conn[f] = "true" => ~ Has(ctrl, M("close", f))
    BY DEF Story, Tale, LetGo
  <2> QED BY <1>1, <1>6, <2>1, OrderAppend DEF GateForward, opens
<1>7. CASE Clients
  BY <1>1, <1>7 DEF Clients, AcceptRefused, Accept, Receive, Hangup, CloseCommand
<1>8. ASSUME NEW i \in Ids, NEW t \in {"close", "error"},
             GateLost(i, t) \/ (i \in Fds /\ GateData(i))
      PROVE  NoStartAfterClose'
  BY <1>1, <1>8 DEF GateLost, GateData
<1>9. CASE Watchdog
  BY <1>1, <1>9 DEF Watchdog, DogClose, DogOpen, DogLaunched, DogOpened, DogKicked
<1>10. ASSUME NEW f \in Fds, Launch(f) \/ Agent(f) PROVE NoStartAfterClose'
  BY <1>1, <1>10 DEF Launch, Agent, AgentStart, AgentStarted, AgentData, AgentExit
<1>11. CASE UNCHANGED vars
  BY <1>1, <1>11 DEF vars
<1>12. CASE SocketThread
  BY <1>2, <1>12 DEF SocketThread
<1>13. CASE Gate
  BY <1>3, <1>4, <1>5, <1>6, <1>8, <1>13 DEF Gate
<1> QED BY <1>7, <1>9, <1>10, <1>11, <1>12, <1>13 DEF Next

-----------------------------------------------------------------------------
(* Nobody is connected at first.                                           *)
LEMMA InitIInv == Init => IInv
<1> SUFFICES ASSUME Init PROVE IInv
  OBVIOUS
<1> USE ConnectionAssumption DEF Init, Ids
<1>1. TypeOK
  BY DEF TypeOK
<1>2. CountExact
  <2>1. {i \in Ids : conn[i] # "nil"} = {}
    OBVIOUS
  <2> QED BY <2>1, FS_EmptySet DEF CountExact
<1>3. TablesAgree /\ NoStartAfterClose
  BY DEF TablesAgree, NoStartAfterClose
<1>4. ListenerKept
  BY DEF ListenerKept
<1>5. ASSUME NEW f \in Fds PROVE Tale(f)
  BY HasEmpty DEF Tale, OpenOnce, Past, HandOver, Before, Routed, LetGo, polled
<1> QED BY <1>1, <1>2, <1>3, <1>4, <1>5 DEF IInv, GateSound, Story

(* The inductive invariant of the module.                                  *)
THEOREM Invariance == Spec => []IInv
<1>1. IInv /\ [Next]_vars => IInv'
  <2> SUFFICES ASSUME IInv, [Next]_vars PROVE IInv'
    OBVIOUS
  <2>1. TypeOK'
    BY NextType DEF IInv, GateSound
  <2>2. CountExact' /\ TablesAgree'
    BY NextTables DEF IInv, GateSound
  <2>3. Story'
    BY NextStory DEF IInv, GateSound
  <2>4. NoStartAfterClose'
    BY NextOrder DEF IInv, GateSound
  <2>5. ListenerKept'
    BY NextListener DEF IInv, GateSound
  <2> QED BY <2>1, <2>2, <2>3, <2>4, <2>5 DEF IInv, GateSound
<1> QED BY InitIInv, <1>1, PTL DEF Spec

(* What the gate keeps of its connections is sound: the types, the count   *)
(* against maxclient and the two connection tables (gateserver.lua's       *)
(* client_number and connection, gate.lua's connection).                   *)
THEOREM GateIsSound == Spec => []GateSound
<1>1. IInv => GateSound
  BY DEF IInv
<1> QED BY <1>1, Invariance, PTL

(* No package outruns the hand-over of its client to the agent (gate.lua's *)
(* forward, and handler.message).                                          *)
THEOREM DataAfterHandOver == Spec => []NoEarlyData
<1>1. IInv => NoEarlyData
  <2> SUFFICES ASSUME IInv PROVE NoEarlyData
    OBVIOUS
  <2>1. ASSUME NEW k \in 1 .. Len(gateq), gateq[k].type = "data",
               conn[gateq[k].fd] = "true"
        PROVE  route[gateq[k].fd] = "forward"
    <3>1. gateq[k] \in GateMessage
      BY DEF IInv, GateSound, TypeOK, GateMessage
    <3>2. gateq[k] = M("data", gateq[k].fd) /\ gateq[k].fd \in Ids
      BY <2>1, <3>1 DEF GateMessage, MessageOf, M
    <3>3. Has(gateq, M("data", gateq[k].fd))
      BY <3>2 DEF Has
    <3>4. CASE gateq[k].fd \in Fds
      BY <2>1, <3>3, <3>4 DEF IInv, Story, Tale, Routed
    <3>5. CASE gateq[k].fd = Listener
      BY <2>1, <3>5 DEF IInv, ListenerKept
    <3> QED BY <3>2, <3>4, <3>5 DEF Ids
  <2>2. ASSUME NEW f \in Fds, NEW k \in 1 .. Len(agentq[f]),
               agentq[f][k] = "data"
        PROVE  actor[f] \in {"starting", "ready"}
    BY <2>2 DEF Has, IInv, Story, Tale, Routed
  <2> QED BY <2>1, <2>2 DEF NoEarlyData
<1> QED BY <1>1, Invariance, PTL

(* No package is sent to an agent that has exited (watchdog.lua's          *)
(* close_agent kicks the client before it ends the agent).                 *)
THEOREM RoutesAlive == Spec => []NoDeadRoute
<1>1. IInv => NoDeadRoute
  BY DEF IInv, Story, Tale, LetGo, NoDeadRoute
<1> QED BY <1>1, Invariance, PTL

(* A client that is kicked while its agent is being started is not started *)
(* afterwards (gateserver.lua's openclient and closeclient, whose requests *)
(* share the pipe to the socket thread).                                   *)
THEOREM ClosedForGood == Spec => []NoStartAfterClose
<1>1. IInv => NoStartAfterClose
  BY DEF IInv
<1> QED BY <1>1, Invariance, PTL
=============================================================================
