----------------------------- MODULE Connection -----------------------------
(***************************************************************************)
(* The life of a client connection in the game server, across the four     *)
(* parties that share it: the socket thread (socket_server.c), the gate    *)
(* service (gateserver.lua and gate.lua), the watchdog (watchdog.lua) and  *)
(* the agent that serves the client (agent.lua).                           *)
(*                                                                         *)
(* Every service has one queue of messages, in the order of arrival        *)
(* (Kernel shows that it may count on that), and every action is the code  *)
(* a service runs for one message, up to its end or to the skynet.call at  *)
(* which its coroutine waits for an answer. A socket id is not used again  *)
(* (socket_server's alloc_id), so a connection is named by its id, and its *)
(* agent by the same.                                                      *)
(***************************************************************************)
EXTENDS Integers, Sequences, FiniteSets

CONSTANTS
  Fds,        \* the ids of the clients that may connect
  Listener,   \* the id of the listening socket
  maxclient,  \* gateserver's limit
  MaxData,    \* bound on the packages the clients send
  MaxClose,   \* bound on the calls of the watchdog's close command
  MaxAccept   \* bound on the calls of accept, refused ones included

ASSUME ConnectionAssumption ==
  /\ IsFiniteSet(Fds) /\ Listener \notin Fds
  /\ maxclient \in Nat /\ MaxData \in Nat /\ MaxClose \in Nat
  /\ MaxAccept \in Nat

VARIABLES
  sock,           \* socket.type of each id
  ctrl,           \* requests in the pipe to the socket thread
  gateq,          \* messages to the gate
  socket,         \* gateserver: the listening socket is known
  conn,           \* gateserver: connection[fd] is nil, true or false
  client_number,  \* gateserver: connections counted against maxclient
  route,          \* gate: connection[fd] is nil, without agent, or forwarded
  watchq,         \* messages to the watchdog
  agent,          \* watchdog: fds with an entry in the agent table
  opening,        \* watchdog: where the coroutine of SOCKET.open is
  actor,          \* the agent service of each fd
  agentq,         \* messages to the agents
  data, closes, refused  \* how often the bounded events happened

Ids == Fds \cup {Listener}

sockVars  == <<sock, ctrl>>
gateVars  == <<socket, conn, client_number, route>>
dogVars   == <<agent, opening>>
agentVars == <<actor, agentq>>
bounds    == <<data, closes, refused>>
vars == <<sockVars, gateq, gateVars, watchq, dogVars, agentVars, bounds>>

M(t, fd) == [type |-> t, fd |-> fd]

ToGate(m)  == gateq' = Append(gateq, m)
ToDog(m)   == watchq' = Append(watchq, m)
ToCtrl(m)  == ctrl' = Append(ctrl, m)

(* A message to an agent that has exited is dropped by the kernel.         *)
ToAgent(t, fd) ==
  agentq' = IF actor[fd] \in {"none", "exited"} THEN agentq
            ELSE [agentq EXCEPT ![fd] = Append(@, t)]

(* The watchdog has launched the gate, which listens.                      *)
Init ==
  /\ sock = [i \in Ids |-> IF i = Listener THEN "listen" ELSE "none"]
  /\ ctrl = <<>>
  /\ gateq = <<>>
  /\ socket = TRUE
  /\ conn = [i \in Ids |-> "nil"]
  /\ client_number = 0
  /\ route = [i \in Ids |-> "nil"]
  /\ watchq = <<>>
  /\ agent = {}
  /\ opening = [f \in Fds |-> "no"]
  /\ actor = [f \in Fds |-> "none"]
  /\ agentq = [f \in Fds |-> <<>>]
  /\ data = 0 /\ closes = 0 /\ refused = 0

-----------------------------------------------------------------------------
(* The socket thread.                                                      *)

(* report_accept: a new client waits, unread, until it is started.         *)
accepts == refused + Cardinality({f \in Fds : sock[f] # "none"})

Accept(fd) ==
  /\ sock[Listener] = "listen" /\ sock[fd] = "none"
  /\ accepts < MaxAccept
  /\ sock' = [sock EXCEPT ![fd] = "paccept"]
  /\ ToGate(M("open", fd))
  /\ UNCHANGED <<ctrl, gateVars, watchq, dogVars, agentVars, bounds>>

(* report_accept out of file descriptors: an error of the listening socket.*)
AcceptRefused ==
  /\ sock[Listener] = "listen"
  /\ accepts < MaxAccept
  /\ refused' = refused + 1
  /\ ToGate(M("error", Listener))
  /\ UNCHANGED <<sockVars, gateVars, watchq, dogVars, agentVars, data, closes>>

(* The sockets that are polled. One in PACCEPT is not: nothing that its    *)
(* client sends or does is noticed before it is started.                   *)
Mut_polled == {"paccept", "connected", "halfclose"}
polled == {"connected", "halfclose"}

(* forward_message_tcp: a package from the client. After a close request  *)
(* it is read and thrown away.                                             *)
Receive(fd) ==
  /\ sock[fd] \in polled \ {"halfclose"}
  /\ data < MaxData
  /\ data' = data + 1
  /\ ToGate(M("data", fd))
  /\ UNCHANGED <<sockVars, gateVars, watchq, dogVars, agentVars, closes, refused>>

(* The client is gone, or reading from it or writing to it fails.          *)
Hangup(fd) ==
  /\ sock[fd] \in polled
  /\ sock' = [sock EXCEPT ![fd] = "invalid"]
  /\ \E t \in {"close", "error"} : ToGate(M(t, fd))
  /\ UNCHANGED <<ctrl, gateVars, watchq, dogVars, agentVars, bounds>>

(* start_socket: the client is polled from now on. A socket that is closed *)
(* already, or that cannot be polled, is an error.                         *)
CtrlStart(fd) ==
  /\ ctrl # <<>> /\ Head(ctrl) = M("start", fd)
  /\ ctrl' = Tail(ctrl)
  /\ \/ /\ sock[fd] # "invalid"
        /\ sock' = [sock EXCEPT ![fd] = IF @ = "paccept" THEN "connected" ELSE @]
        /\ UNCHANGED gateq
     \/ /\ sock[fd] \in {"paccept", "invalid"}
        /\ sock' = [sock EXCEPT ![fd] = "invalid"]
        /\ ToGate(M("error", fd))
  /\ UNCHANGED <<gateVars, watchq, dogVars, agentVars, bounds>>

(* close_socket: at once, or when the send buffer of the client is empty.  *)
(* A socket that is closed already is reported closed once more.           *)
CtrlClose(fd) ==
  /\ ctrl # <<>> /\ Head(ctrl) = M("close", fd)
  /\ ctrl' = Tail(ctrl)
  /\ \/ /\ sock' = [sock EXCEPT ![fd] = "invalid"]
        /\ ToGate(M("close", fd))
     \/ /\ sock[fd] \in {"connected", "halfclose"}
        /\ sock' = [sock EXCEPT ![fd] = "halfclose"]
        /\ UNCHANGED gateq
  /\ UNCHANGED <<gateVars, watchq, dogVars, agentVars, bounds>>

-----------------------------------------------------------------------------
(* The gate.                                                               *)

GateGets(t, fd) ==
  /\ gateq # <<>> /\ Head(gateq) = M(t, fd)

(* MSG.open: a connection, unless there are too many.                      *)
full == client_number >= maxclient

GateOpen(fd) ==
  /\ GateGets("open", fd)
  /\ gateq' = Tail(gateq)
  /\ \/ /\ full
        /\ ToCtrl(M("close", fd))
        /\ UNCHANGED <<conn, client_number, route, watchq>>
     \/ /\ ~ full
        /\ conn' = [conn EXCEPT ![fd] = "true"]
        /\ client_number' = client_number + 1
        /\ route' = [route EXCEPT ![fd] = "new"]
        /\ ToDog(M("open", fd))
        /\ UNCHANGED ctrl
  /\ UNCHANGED <<sock, socket, dogVars, agentVars, bounds>>

(* gateserver's close_fd.                                                  *)
Mut_close_fd(fd) ==
  /\ conn' = [conn EXCEPT ![fd] = "nil"]
  /\ client_number' = client_number - 1
close_fd(fd) ==
  IF conn[fd] = "nil" THEN UNCHANGED <<conn, client_number>>
  ELSE /\ conn' = [conn EXCEPT ![fd] = "nil"]
       /\ client_number' = client_number - 1

(* MSG.close and MSG.error for a client: gate's close_fd, a word to the    *)
(* watchdog, gateserver's close_fd.                                        *)
GateLost(fd, t) ==
  /\ GateGets(t, fd)
  /\ fd # Listener \/ ~ socket
  /\ gateq' = Tail(gateq)
  /\ route' = [route EXCEPT ![fd] = "nil"]
  /\ ToDog(M(t, fd))
  /\ close_fd(fd)
  /\ UNCHANGED <<sockVars, socket, dogVars, agentVars, bounds>>

(* MSG.error of the listening socket closes it; MSG.close forgets it.      *)
GateListener ==
  /\ socket
  /\ \/ /\ GateGets("error", Listener)
        /\ ToCtrl(M("close", Listener))
        /\ UNCHANGED socket
     \/ /\ GateGets("close", Listener)
        /\ socket' = FALSE
        /\ UNCHANGED ctrl
  /\ gateq' = Tail(gateq)
  /\ UNCHANGED <<sock, conn, client_number, route, watchq, dogVars, agentVars,
                 bounds>>

(* dispatch_msg and handler.message: to the agent, or to the watchdog when *)
(* there is none; dropped when the client was kicked or is gone.           *)
GateData(fd) ==
  /\ GateGets("data", fd)
  /\ gateq' = Tail(gateq)
  /\ IF conn[fd] = "true" /\ route[fd] = "forward"
     THEN ToAgent("data", fd) ELSE UNCHANGED agentq
  /\ IF conn[fd] = "true" /\ route[fd] # "forward"
     THEN ToDog(M("data", fd)) ELSE UNCHANGED watchq
  /\ UNCHANGED <<sockVars, gateVars, dogVars, actor, bounds>>

(* CMD.forward, called by the agent: the assert on connection[fd], then    *)
(* gateserver.openclient.                                                  *)
Mut_opens(fd) == TRUE
opens(fd) == conn[fd] = "true"

GateForward(fd) ==
  /\ GateGets("forward", fd)
  /\ gateq' = Tail(gateq)
  /\ IF route[fd] = "nil"
     THEN /\ ToAgent("forward_failed", fd)
          /\ UNCHANGED <<ctrl, route>>
     ELSE /\ route' = [route EXCEPT ![fd] = "forward"]
          /\ IF opens(fd) THEN ToCtrl(M("start", fd)) ELSE UNCHANGED ctrl
          /\ ToAgent("forward_done", fd)
  /\ UNCHANGED <<sock, socket, conn, client_number, watchq, dogVars, actor,
                 bounds>>

(* CMD.kick, called by the watchdog: gateserver.closeclient.               *)
Mut_kicked(fd) == UNCHANGED conn
kicked(fd) == conn' = [conn EXCEPT ![fd] = "false"]

GateKick(fd) ==
  /\ GateGets("kick", fd)
  /\ gateq' = Tail(gateq)
  /\ IF conn[fd] = "true"
     THEN /\ kicked(fd)
          /\ ToCtrl(M("close", fd))
     ELSE UNCHANGED <<conn, ctrl>>
  /\ ToDog(M("kicked", fd))
  /\ UNCHANGED <<sock, socket, client_number, route, dogVars, agentVars, bounds>>

-----------------------------------------------------------------------------
(* The watchdog.                                                           *)

DogGets(t, fd) ==
  /\ watchq # <<>> /\ Head(watchq) = M(t, fd)

(* SOCKET.open calls skynet.newservice and waits.                          *)
DogOpen(fd) ==
  /\ DogGets("open", fd)
  /\ watchq' = Tail(watchq)
  /\ opening' = [opening EXCEPT ![fd] = "launching"]
  /\ actor' = [actor EXCEPT ![fd] = "launching"]
  /\ UNCHANGED <<sockVars, gateq, gateVars, agent, agentq, bounds>>

(* The launcher answers, or newservice fails.                              *)
Launch(fd) ==
  /\ actor[fd] = "launching"
  /\ \/ /\ actor' = [actor EXCEPT ![fd] = "up"]
        /\ ToDog(M("launched", fd))
     \/ /\ actor' = [actor EXCEPT ![fd] = "exited"]
        /\ ToDog(M("launch_failed", fd))
  /\ UNCHANGED <<sockVars, gateq, gateVars, dogVars, agentq, bounds>>

(* SOCKET.open goes on: it enters the agent, then calls its start command. *)
Mut_DogLaunched(fd) ==
  /\ DogGets("launched", fd)
  /\ watchq' = Tail(watchq)
  /\ agent' = agent \cup {fd}
  /\ opening' = [opening EXCEPT ![fd] = "starting"]
  /\ UNCHANGED <<sockVars, gateq, gateVars, agentVars, bounds>>
DogLaunched(fd) ==
  /\ DogGets("launched", fd)
  /\ watchq' = Tail(watchq)
  /\ agent' = agent \cup {fd}
  /\ opening' = [opening EXCEPT ![fd] = "starting"]
  /\ ToAgent("start", fd)
  /\ UNCHANGED <<sockVars, gateq, gateVars, actor, bounds>>

(* SOCKET.open returns, or its coroutine ends with the error of a call;    *)
(* SOCKET.data only prints.                                                *)
opened(t, was) == CASE t = "start_done" -> "done"
                    [] t = "data" -> was
                    [] OTHER -> "failed"

DogOpened(fd) ==
  /\ \E t \in {"launch_failed", "start_done", "start_failed", "data"} :
       /\ DogGets(t, fd)
       /\ opening' = [opening EXCEPT ![fd] = opened(t, @)]
  /\ watchq' = Tail(watchq)
  /\ UNCHANGED <<sockVars, gateq, gateVars, agent, agentVars, bounds>>

(* SOCKET.close, SOCKET.error and CMD.close: close_agent has the gate kick *)
(* the client and waits, if the fd has an agent.                           *)
DogClose(fd) ==
  /\ \E t \in {"close", "error", "close_command"} : DogGets(t, fd)
  /\ watchq' = Tail(watchq)
  /\ agent' = agent \ {fd}
  /\ IF fd \in agent THEN ToGate(M("kick", fd)) ELSE UNCHANGED gateq
  /\ UNCHANGED <<sockVars, gateVars, opening, agentVars, bounds>>

(* close_agent goes on: the agent is told to disconnect.                   *)
Mut_DogKicked(fd) ==
  /\ DogGets("kicked", fd)
  /\ watchq' = Tail(watchq)
  /\ IF opening[fd] = "done" THEN ToAgent("disconnect", fd) ELSE UNCHANGED agentq
  /\ UNCHANGED <<sockVars, gateq, gateVars, dogVars, actor, bounds>>
DogKicked(fd) ==
  /\ DogGets("kicked", fd)
  /\ watchq' = Tail(watchq)
  /\ ToAgent("disconnect", fd)
  /\ UNCHANGED <<sockVars, gateq, gateVars, dogVars, actor, bounds>>

(* Some service calls the watchdog's close command for a client.           *)
CloseCommand(fd) ==
  /\ sock[fd] # "none"
  /\ closes < MaxClose
  /\ closes' = closes + 1
  /\ ToDog(M("close_command", fd))
  /\ UNCHANGED <<sockVars, gateq, gateVars, dogVars, agentVars, data, refused>>

-----------------------------------------------------------------------------
(* The agent.                                                              *)

AgentGets(t, fd) ==
  /\ actor[fd] \notin {"none", "launching", "exited"}
  /\ agentq[fd] # <<>> /\ Head(agentq[fd]) = t

(* CMD.start loads the protocol, then calls the gate's forward.            *)
AgentStart(fd) ==
  /\ AgentGets("start", fd)
  /\ agentq' = [agentq EXCEPT ![fd] = Tail(@)]
  /\ actor' = [actor EXCEPT ![fd] = "starting"]
  /\ ToGate(M("forward", fd))
  /\ UNCHANGED <<sockVars, gateVars, watchq, dogVars, bounds>>

(* CMD.start returns, or fails with the call.                              *)
AgentStarted(fd) ==
  /\ \/ /\ AgentGets("forward_done", fd)
        /\ actor' = [actor EXCEPT ![fd] = "ready"]
        /\ ToDog(M("start_done", fd))
     \/ /\ AgentGets("forward_failed", fd)
        /\ actor' = [actor EXCEPT ![fd] = "up"]
        /\ ToDog(M("start_failed", fd))
  /\ agentq' = [agentq EXCEPT ![fd] = Tail(@)]
  /\ UNCHANGED <<sockVars, gateq, gateVars, dogVars, bounds>>

(* A request of the client.                                                *)
AgentData(fd) ==
  /\ AgentGets("data", fd)
  /\ agentq' = [agentq EXCEPT ![fd] = Tail(@)]
  /\ UNCHANGED <<sockVars, gateq, gateVars, watchq, dogVars, actor, bounds>>

(* CMD.disconnect: skynet.exit, which answers a call that is still open    *)
(* with an error.                                                          *)
AgentExit(fd) ==
  /\ AgentGets("disconnect", fd)
  /\ actor' = [actor EXCEPT ![fd] = "exited"]
  /\ agentq' = [agentq EXCEPT ![fd] = <<>>]
  /\ IF actor[fd] = "starting" THEN ToDog(M("start_failed", fd))
     ELSE UNCHANGED watchq
  /\ UNCHANGED <<sockVars, gateq, gateVars, dogVars, bounds>>

-----------------------------------------------------------------------------
Clients == AcceptRefused \/ \E f \in Fds :
             Accept(f) \/ Receive(f) \/ Hangup(f) \/ CloseCommand(f)

SocketThread == \E i \in Ids : CtrlClose(i) \/ (i \in Fds /\ CtrlStart(i))

Gate ==
  \/ GateListener
  \/ \E i \in Ids : \E t \in {"close", "error"} : GateLost(i, t)
  \/ \E f \in Fds : GateOpen(f) \/ GateData(f) \/ GateForward(f) \/ GateKick(f)

Watchdog ==
  \/ \E i \in Ids : DogClose(i)
  \/ \E f \in Fds : DogOpen(f) \/ DogLaunched(f) \/ DogOpened(f)
                      \/ DogKicked(f)

Agent(f) == AgentStart(f) \/ AgentStarted(f) \/ AgentData(f) \/ AgentExit(f)

Next == Clients \/ SocketThread \/ Gate \/ Watchdog
          \/ \E f \in Fds : Launch(f) \/ Agent(f)

Spec == Init /\ [][Next]_vars

(* The kernel dispatches every service that has messages, the socket       *)
(* thread reads its pipe, the launcher answers. Clients need do nothing.   *)
FairSpec ==
  /\ Spec
  /\ WF_vars(SocketThread) /\ WF_vars(Gate) /\ WF_vars(Watchdog)
  /\ \A f \in Fds : WF_vars(Launch(f)) /\ WF_vars(Agent(f))

-----------------------------------------------------------------------------
MessageOf(T, I) == [type : T, fd : I]

(* The type of the variables.                                              *)
TypeOK ==
  /\ sock \in [Ids -> {"none", "listen", "paccept", "connected", "halfclose",
                       "invalid"}]
  /\ ctrl \in Seq(MessageOf({"start", "close"}, Ids))
  /\ gateq \in Seq(MessageOf({"open", "close", "error", "data", "forward",
                              "kick"}, Ids))
  /\ socket \in BOOLEAN
  /\ conn \in [Ids -> {"nil", "true", "false"}]
  /\ client_number \in 0 .. maxclient
  /\ route \in [Ids -> {"nil", "new", "forward"}]
  /\ watchq \in Seq(MessageOf({"open", "close", "error", "data", "launched",
                               "launch_failed", "start_done", "start_failed",
                               "kicked", "close_command"}, Ids))
  /\ agent \subseteq Fds
  /\ opening \in [Fds -> {"no", "launching", "starting", "done", "failed"}]
  /\ actor \in [Fds -> {"none", "launching", "up", "starting", "ready",
                        "exited"}]
  /\ agentq \in [Fds -> Seq({"start", "disconnect", "data", "forward_done",
                             "forward_failed"})]
  /\ data \in 0 .. MaxData /\ closes \in 0 .. MaxClose
  /\ refused \in 0 .. MaxAccept

(* client_number counts the connections exactly: a client that is kicked   *)
(* keeps its place until its socket is closed, and a socket that is        *)
(* reported closed twice gives up one place only.                          *)
CountExact == client_number = Cardinality({i \in Ids : conn[i] # "nil"})

(* The two connection tables of the gate agree, so that handler.message    *)
(* and unforward never index a nil connection.                             *)
TablesAgree == \A i \in Ids : conn[i] = "nil" <=> route[i] = "nil"

(* What the gate keeps of its connections is sound.                        *)
GateSound == TypeOK /\ CountExact /\ TablesAgree

(* No package outruns the hand-over to the agent: a package in the gate's  *)
(* queue is for a connection that is forwarded, or it is dropped; and a    *)
(* package in an agent's queue finds the protocol loaded.                  *)
NoEarlyData ==
  /\ \A k \in 1 .. Len(gateq) :
       gateq[k].type = "data" /\ conn[gateq[k].fd] = "true"
         => route[gateq[k].fd] = "forward"
  /\ \A f \in Fds : \A k \in 1 .. Len(agentq[f]) :
       agentq[f][k] = "data" => actor[f] \in {"starting", "ready"}

(* No package is sent to an agent that has exited: the watchdog has the    *)
(* gate let go of the client before it ends the agent.                     *)
NoDeadRoute == \A f \in Fds : actor[f] = "exited" /\ route[f] = "forward"
                                => conn[f] # "true"

(* A client that is kicked while its agent is being started is not started *)
(* afterwards: no start request follows the close request in the pipe.     *)
NoStartAfterClose ==
  \A j, k \in 1 .. Len(ctrl) :
    j < k /\ ctrl[j].type = "close" /\ ctrl[k].type = "start"
      => ctrl[j].fd # ctrl[k].fd

(* Nothing is left behind: when the socket of a client is gone, the agent  *)
(* launched for it exits, whatever it and the watchdog were waiting for,   *)
(* and its place in the limit of the gate is given back.                   *)
NothingLeftBehind ==
  \A f \in Fds :
    /\ sock[f] = "invalid" /\ actor[f] # "none" ~> actor[f] = "exited"
    /\ sock[f] = "invalid" ~> conn[f] = "nil"

(* Every client that is let in gets an agent or is turned away, except     *)
(* when its agent cannot be launched: then nobody closes the connection.   *)
Served ==
  \A f \in Fds : conn[f] = "true" ~> \/ conn[f] # "true" \/ route[f] = "forward"
                                      \/ opening[f] = "failed"
=============================================================================
