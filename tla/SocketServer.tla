---------------------------- MODULE SocketServer ----------------------------
(***************************************************************************)
(* The socket server of skynet (socket_server.c), for TCP. Services reserve*)
(* slots and write requests into a pipe from their own threads; the socket *)
(* thread, in socket_server_poll, alternates between the requests and the  *)
(* events of a batch that epoll returned, which point at slots and not at  *)
(* ids. One request or one event is one step, whatever the kernel does     *)
(* with the reads and writes in it. A socket has two lists of buffers; a   *)
(* list is written here as the bytes still to send, each byte being the    *)
(* number of the message it belongs to.                                    *)
(***************************************************************************)
EXTENDS Integers, Sequences, FiniteSets, SequencesExt, FiniteSetsExt

CONSTANTS
  MaxSocket,     \* MAX_SOCKET: number of slots
  Connectors,    \* threads that call socket_server_connect or _listen
  Size,          \* bytes of a message
  MaxAlloc,      \* bound on the ids that are given out
  MaxSend,       \* bound on the messages that services send
  MaxClose,      \* bound on the close requests
  MaxPipe        \* requests the pipe holds before a writer has to wait

ASSUME SocketAssumption ==
  /\ {MaxSocket, Size, MaxAlloc} \subseteq Nat \ {0}
  /\ {MaxSend, MaxClose, MaxPipe} \subseteq Nat

VARIABLES
  alloc_id, slot, pipe,  \* socket_server, and the pipe of requests
  ev,          \* the events of the batch that are left, each with the id
               \* it is of and whether its socket's close has missed it
  toclear,     \* id a request has ended, whose event is still to be cleared
  checkctrl,
  fresh,       \* sp_wait has just returned: an event comes first
  reserving,   \* id a connector has reserved and not yet written down
  known,       \* ids that services have been told of
  msg,         \* messages: where to, which priority, what became of them
  wire,        \* bytes written to the connection of each id
  seen,        \* what the reports have told the services of each id
  clean,       \* ids closed on request after all was sent
  closes,      \* close requests so far
  failed       \* the assert that has failed, which ends the process

ctrlVars   == <<ev, toclear, checkctrl, fresh>>
clientVars == <<reserving, known, closes>>
vars == <<alloc_id, slot, pipe, ctrlVars, clientVars, msg, wire, seen, clean,
          failed>>

Ids   == 1..MaxAlloc
Slots == 0..(MaxSocket - 1)
HASH_ID(id) == id % MaxSocket
Empty(type, id) ==
  [type |-> type, id |-> id, high |-> <<>>, low |-> <<>>, write |-> FALSE]

(* The first id is 1: a listening socket that has been started.            *)
Init ==
  /\ alloc_id = 1
  /\ slot = [k \in Slots |-> IF k = HASH_ID(1) THEN Empty("LISTEN", 1)
                                               ELSE Empty("INVALID", 0)]
  /\ pipe = <<>> /\ ev = <<>> /\ toclear = 0
  /\ checkctrl = TRUE /\ fresh = FALSE
  /\ reserving = [t \in Connectors |-> 0]
  /\ known = {1} /\ closes = 0
  /\ msg = <<>> /\ wire = [id \in Ids |-> <<>>]
  /\ seen = [id \in Ids |-> IF id = 1 THEN "open" ELSE "no"]
  /\ clean = {} /\ failed = "no"

-----------------------------------------------------------------------------
running == failed = "no"

(* reserve_id: the next id whose slot is free.                             *)
Free(id) == slot[HASH_ID(id)].type = "INVALID"
reservable == {id \in (alloc_id + 1)..(alloc_id + MaxSocket) : Free(id)}

(* A service thread takes a slot with an atomic compare-and-swap ...       *)
Reserve(t) ==
  /\ running /\ reserving[t] = 0 /\ reservable # {}
  /\ LET id == Min(reservable)
     IN  /\ id <= MaxAlloc
         /\ alloc_id' = id
         /\ slot' = [slot EXCEPT ![HASH_ID(id)].type = "RESERVE"]
         /\ reserving' = [reserving EXCEPT ![t] = id]
  /\ UNCHANGED <<pipe, ctrlVars, known, closes, msg, wire, seen, clean, failed>>

send_request(request) ==
  Len(pipe) < MaxPipe /\ pipe' = Append(pipe, request)

(* ... and writes its id down afterwards, before it sends its request.     *)
Request(t) ==
  /\ running /\ reserving[t] # 0
  /\ slot' = [slot EXCEPT ![HASH_ID(reserving[t])].id = reserving[t]]
  /\ \E cmd \in {"O", "L"} :
       send_request([cmd |-> cmd, id |-> reserving[t]])
  /\ known' = known \cup {reserving[t]}
  /\ reserving' = [reserving EXCEPT ![t] = 0]
  /\ UNCHANGED <<alloc_id, ctrlVars, closes, msg, wire, seen, clean, failed>>

(* socket_server_send and _send_lowpriority: the slot is looked at from    *)
(* the service's thread.                                                   *)
Send(id, cmd) ==
  /\ running /\ id \in known /\ Len(msg) < MaxSend
  /\ IF slot[HASH_ID(id)].id # id \/ Free(id)
     THEN msg' = Append(msg, [to |-> id, cmd |-> cmd, st |-> "dropped"])
          /\ UNCHANGED pipe
     ELSE /\ msg' = Append(msg, [to |-> id, cmd |-> cmd, st |-> "pipe"])
          /\ send_request([cmd |-> cmd, id |-> id, m |-> Len(msg) + 1])
  /\ UNCHANGED <<alloc_id, slot, ctrlVars, clientVars, wire, seen, clean, failed>>

(* socket_server_start; socket_server_close and _shutdown.                 *)
Start(id) ==
  /\ running /\ id \in known /\ seen[id] = "no"
  /\ [cmd |-> "S", id |-> id] \notin Range(pipe)
  /\ send_request([cmd |-> "S", id |-> id])
  /\ UNCHANGED <<alloc_id, slot, ctrlVars, clientVars, msg, wire, seen, clean,
                 failed>>

Close(id, shutdown) ==
  /\ running /\ id \in known /\ closes < MaxClose
  /\ closes' = closes + 1
  /\ send_request([cmd |-> "K", id |-> id, shutdown |-> shutdown])
  /\ UNCHANGED <<alloc_id, slot, ctrlVars, reserving, known, msg, wire, seen,
                 clean, failed>>

-----------------------------------------------------------------------------
(* A report to the owner of id. Data and opening are out of place for a    *)
(* socket that the owner has not started, or knows to be closed.           *)
told(id, type) ==
  CASE type = "none" -> seen[id]
    [] type = "OPEN" -> IF seen[id] = "over" THEN "stray" ELSE "open"
    [] type = "DATA" -> IF seen[id] = "open" THEN "open" ELSE "stray"
    [] OTHER         -> "over"
report(id, type) == seen' = [seen EXCEPT ![id] = told(id, type)]

bytes(m) == [i \in 1..Size |-> m]
nomore(s) == s.high = <<>> /\ s.low = <<>>
Mut_send_buffer_empty(s) == s.high = <<>>
send_buffer_empty(s) == nomore(s)

(* list_uncomplete: the head has been sent in part.                        *)
count(list, m) == Cardinality({i \in DOMAIN list : list[i] = m})
list_uncomplete(list) == list # <<>> /\ count(list, Head(list)) < Size

Mut_raise_uncomplete(s) == s
raise_uncomplete(s) ==
  LET n == count(s.low, Head(s.low))
  IN  IF ~list_uncomplete(s.low) THEN s
      ELSE [s EXCEPT !.high = SubSeq(s.low, 1, n),
                     !.low = SubSeq(s.low, n + 1, Len(s.low))]

(* What a call of send_buffer may do to s: n bytes go out, after which the *)
(* connection takes no more or fails; a slot that is only reserved has no  *)
(* connection. Only a call that finds the low list empty and empties the   *)
(* high one turns the write event off, and ends a half close.              *)
drop(list, n) == SubSeq(list, Max({n, 0}) + 1, Len(list))
send_buffer(s) ==
  LET both == s.high \o s.low
      all(n) == n = Len(both) /\ s.low = <<>>
      left(n) == [s EXCEPT !.high = drop(@, n), !.low = drop(@, n - Len(s.high)),
                           !.write = @ /\ ~all(n)]
      result(n, rest, end) ==
        [out |-> SubSeq(both, 1, n), s |-> rest, end |-> end]
  IN  IF s.type = "RESERVE" /\ both # <<>> THEN {result(0, s, "error")}
      ELSE {result(n, s, "error") : n \in 0..(Len(both) - 1)}
           \cup {result(n, raise_uncomplete(left(n)),
                        IF all(n) /\ s.type = "HALFCLOSE" THEN "flushed"
                        ELSE "none") : n \in 0..Len(both)}

(* force_close, with its assert.                                           *)
force_close(k) ==
  /\ slot' = [slot EXCEPT ![k] = Empty("INVALID", @.id)]
  /\ failed' = IF slot[k].type = "RESERVE" THEN "reserved" ELSE failed

(* new_fd asserts that the slot is reserved and that its lists are empty.  *)
new_fd(k, id, type) ==
  IF nomore(slot[k])
  THEN /\ slot' = [slot EXCEPT ![k].type = type, ![k].id = id,
                               ![k].write = type = "CONNECTING"]
       /\ UNCHANGED failed
  ELSE failed' = "lists" /\ UNCHANGED slot

(* send_buffer on slot k, from an event or a close request: its assert,    *)
(* and an outcome o, which may be the end of the socket.                   *)
flush_fails(k) ==
  /\ list_uncomplete(slot[k].low) /\ failed' = "uncomplete"
  /\ UNCHANGED <<slot, wire, seen, clean>>

flush(k, o) ==
  /\ ~list_uncomplete(slot[k].low)
  /\ wire' = [wire EXCEPT ![slot[k].id] = @ \o o.out]
  /\ \/ o.end = "none"
     \/ /\ o.end # "none" /\ force_close(k) /\ report(slot[k].id, "CLOSE")
        /\ clean' = IF o.end = "flushed" THEN clean \cup {slot[k].id} ELSE clean

-----------------------------------------------------------------------------
(* A request that reports the end of id is followed by clear_closed_event, *)
(* which takes the event of a free slot out of the batch. Other threads    *)
(* run between the two and may have reserved the slot: the event is missed.*)
waiting(k) == \E i \in DOMAIN ev : ev[i].s = k
Mut_clearing(id, ends) == 0
clearing(id, ends) == IF ends /\ waiting(HASH_ID(id)) THEN id ELSE 0

without(events, k) == RemoveFirstMatch(events, LAMBDA e : e.s = k)
missing(events, id) ==
  [i \in DOMAIN events |-> [events[i] EXCEPT !.missed = @ \/ events[i].id = id]]
clear_closed_event ==
  /\ running /\ toclear # 0 /\ toclear' = 0
  /\ LET k == HASH_ID(toclear)
     IN  ev' = IF slot[k].type = "INVALID" /\ slot[k].id = toclear
               THEN without(ev, k) ELSE missing(ev, toclear)
  /\ UNCHANGED <<alloc_id, slot, pipe, checkctrl, fresh, clientVars, msg, wire,
                 seen, clean, failed>>

(* has_cmd: the requests are read until there is none left, and then not   *)
(* looked at again in this batch.                                          *)
NoCtrl ==
  /\ running /\ checkctrl /\ ~fresh /\ toclear = 0 /\ pipe = <<>>
  /\ checkctrl' = FALSE
  /\ UNCHANGED <<alloc_id, slot, pipe, ev, toclear, fresh, clientVars, msg, wire,
                 seen, clean, failed>>

Ctrl(cmd) ==
  /\ running /\ checkctrl /\ ~fresh /\ toclear = 0 /\ pipe # <<>>
  /\ Head(pipe).cmd \in cmd /\ pipe' = Tail(pipe)
  /\ UNCHANGED <<alloc_id, clientVars, ev, checkctrl, fresh>>

Stale(id) == slot[HASH_ID(id)].type = "INVALID" \/ slot[HASH_ID(id)].id # id

(* open_socket: it fails, and the slot is free with what it held; or the   *)
(* socket is connected at once, or is under way.                           *)
CtrlOpen ==
  /\ Ctrl({"O"})
  /\ LET id == Head(pipe).id
         k  == HASH_ID(id)
     IN  \/ /\ slot' = [slot EXCEPT ![k].type = "INVALID"]
            /\ report(id, "ERROR") /\ toclear' = clearing(id, TRUE)
            /\ UNCHANGED failed
         \/ /\ new_fd(k, id, "CONNECTED")
            /\ report(id, "OPEN") /\ UNCHANGED toclear
         \/ /\ new_fd(k, id, "CONNECTING")
            /\ UNCHANGED <<seen, toclear>>
  /\ UNCHANGED <<msg, wire, clean>>

(* listen_socket.                                                          *)
CtrlListen ==
  /\ Ctrl({"L"})
  /\ new_fd(HASH_ID(Head(pipe).id), Head(pipe).id, "PLISTEN")
  /\ UNCHANGED <<toclear, msg, wire, seen, clean>>

(* start_socket; epoll may refuse the socket.                              *)
CtrlStart ==
  /\ Ctrl({"S"})
  /\ LET id == Head(pipe).id
         k  == HASH_ID(id)
         to == IF slot[k].type = "PACCEPT" THEN "CONNECTED" ELSE "LISTEN"
     IN  \/ /\ Stale(id)
            /\ report(id, "ERROR") /\ toclear' = clearing(id, TRUE)
            /\ UNCHANGED <<slot, failed>>
         \/ /\ ~Stale(id) /\ slot[k].type \in {"PACCEPT", "PLISTEN"}
            /\ \/ slot' = [slot EXCEPT ![k].type = to] /\ report(id, "OPEN")
                  /\ UNCHANGED <<failed, toclear>>
               \/ force_close(k) /\ report(id, "ERROR")
                  /\ toclear' = clearing(id, TRUE)
         \/ /\ ~Stale(id) /\ slot[k].type \notin {"PACCEPT", "PLISTEN"}
            /\ report(id, IF slot[k].type = "CONNECTED" THEN "OPEN" ELSE "none")
            /\ UNCHANGED <<slot, failed, toclear>>
  /\ UNCHANGED <<msg, wire, clean>>

(* send_socket. The first bytes are written directly if nothing waits; the *)
(* rest goes to the high list, whatever the priority, and the write event  *)
(* is turned on.                                                           *)
CtrlSend ==
  /\ Ctrl({"D", "P"})
  /\ LET m == Head(pipe).m
         id == Head(pipe).id
         k == HASH_ID(id)
         s == slot[k]
         refused == Stale(id) \/ s.type \in {"HALFCLOSE", "PACCEPT", "PLISTEN",
                                             "LISTEN"}
         direct == send_buffer_empty(s) /\ s.type = "CONNECTED"
     IN  /\ msg' = [msg EXCEPT ![m].st = IF refused \/ s.type = "RESERVE"
                                         THEN "dropped" ELSE "taken"]
         /\ \/ refused /\ UNCHANGED <<slot, wire, seen, toclear, failed>>
            \/ /\ ~refused /\ direct
               /\ \E n \in 0..Size :
                    /\ wire' = [wire EXCEPT ![id] = @ \o [i \in 1..n |-> m]]
                    /\ slot' = [slot EXCEPT
                         ![k].high = @ \o [i \in 1..(Size - n) |-> m],
                         ![k].write = @ \/ n < Size]
               /\ UNCHANGED <<seen, toclear, failed>>
            \/ /\ ~refused /\ direct
               /\ force_close(k) /\ report(id, "CLOSE")
               /\ toclear' = clearing(id, TRUE) /\ UNCHANGED wire
            \/ /\ ~refused /\ ~direct
               /\ slot' = IF Head(pipe).cmd = "P"
                          THEN [slot EXCEPT ![k].low = @ \o bytes(m)]
                          ELSE [slot EXCEPT ![k].high = @ \o bytes(m)]
               /\ UNCHANGED <<wire, seen, toclear, failed>>
  /\ UNCHANGED clean

(* close_socket.                                                           *)
CtrlClose ==
  /\ Ctrl({"K"})
  /\ LET id == Head(pipe).id
         k == HASH_ID(id)
         finish(s) ==
           IF Head(pipe).shutdown \/ send_buffer_empty(s)
           THEN /\ force_close(k) /\ report(id, "CLOSE")
                /\ clean' = IF Head(pipe).shutdown \/ failed' # "no" THEN clean
                            ELSE clean \cup {id}
           ELSE /\ slot' = [slot EXCEPT ![k] = [s EXCEPT !.type = "HALFCLOSE"]]
                /\ UNCHANGED <<seen, clean, failed>>
     IN  /\ \/ /\ Stale(id)
               /\ report(id, "CLOSE") /\ UNCHANGED <<slot, wire, clean, failed>>
            \/ /\ ~Stale(id) /\ send_buffer_empty(slot[k])
               /\ finish(slot[k]) /\ UNCHANGED wire
            \/ /\ ~Stale(id) /\ ~send_buffer_empty(slot[k])
               /\ \/ flush_fails(k)
                  \/ \E o \in send_buffer(slot[k]) :
                       flush(k, o) /\ (o.end # "none" \/ finish(o.s))
         /\ toclear' = clearing(id, slot'[k].type # "HALFCLOSE")
  /\ UNCHANGED msg

-----------------------------------------------------------------------------
(* sp_wait: events of sockets in the epoll set, in any order, and of the   *)
(* pipe; when the pipe comes first the requests are read before the other  *)
(* events.                                                                 *)
polled == {k \in Slots : slot[k].type \in {"LISTEN", "CONNECTING",
                                           "CONNECTED", "HALFCLOSE"}}
ready(k) == {e \in [s : {k}, id : {slot[k].id}, missed : {FALSE},
                     read : BOOLEAN, write : BOOLEAN] :
  /\ e.read \/ e.write
  /\ e.write => slot[k].write
  /\ slot[k].type = "CONNECTING" => e.write}

Wait ==
  /\ running /\ ev = <<>> /\ ~checkctrl
  /\ \E batch \in SUBSET polled :
       /\ ev' \in {s \in [1..Cardinality(batch) -> UNION {ready(k) : k \in batch}] :
                    {s[i].s : i \in DOMAIN s} = batch}
       /\ fresh' \in BOOLEAN
       /\ batch = {} => ~fresh'
       /\ ~fresh' => pipe # <<>>
  /\ checkctrl' = TRUE
  /\ UNCHANGED <<alloc_id, slot, pipe, toclear, clientVars, msg, wire, seen,
                 clean, failed>>

(* The next event: the first one comes before the requests, the others     *)
(* after them. A slot that is free would only cost a line on stderr; it is *)
(* never met (EventIsOwn).                                                 *)
Event(types) ==
  /\ running /\ ev # <<>> /\ (fresh \/ ~checkctrl)
  /\ slot[Head(ev).s].type \in types
  /\ fresh' = FALSE
  /\ UNCHANGED <<pipe, toclear, checkctrl, reserving, closes, msg>>

k0 == Head(ev).s
id0 == slot[Head(ev).s].id

(* report_connect: the write event stays on if something waits already.    *)
Mut_connected(s) == [s EXCEPT !.type = "CONNECTED", !.write = FALSE]
connected(s) ==
  [s EXCEPT !.type = "CONNECTED", !.write = @ /\ ~send_buffer_empty(s)]
EventConnect ==
  /\ Event({"CONNECTING"}) /\ ev' = Tail(ev)
  /\ \/ /\ slot' = [slot EXCEPT ![k0] = connected(@)]
        /\ report(id0, "OPEN") /\ UNCHANGED failed
     \/ force_close(k0) /\ report(id0, "ERROR")
  /\ UNCHANGED <<alloc_id, known, wire, clean>>

(* report_accept: the socket thread reserves the slot for the connection.  *)
(* It is dropped when accept fails or no slot is free.                     *)
EventAccept ==
  /\ Event({"LISTEN"}) /\ ev' = Tail(ev)
  /\ \/ /\ reservable # {} /\ Min(reservable) <= MaxAlloc
        /\ LET id == Min(reservable)
           IN  /\ alloc_id' = id /\ known' = known \cup {id}
               /\ new_fd(HASH_ID(id), id, "PACCEPT")
     \/ UNCHANGED <<alloc_id, known, slot, failed>>
  /\ UNCHANGED <<wire, seen, clean>>

(* forward_message_tcp, for an event of the socket in the slot or of one   *)
(* that was there before: data, nothing, the end or an error. A write flag *)
(* of the event is looked at next.                                         *)
EventRead ==
  /\ Event({"CONNECTED", "HALFCLOSE", "PACCEPT", "PLISTEN", "RESERVE"})
  /\ Head(ev).read
  /\ \/ /\ slot[k0].type # "RESERVE"
        /\ \/ /\ slot[k0].type \in {"CONNECTED", "PACCEPT"}
              /\ report(id0, "DATA")
           \/ UNCHANGED seen
        /\ ev' = IF Head(ev).write THEN [ev EXCEPT ![1].read = FALSE]
                                   ELSE Tail(ev)
        /\ UNCHANGED <<slot, failed>>
     \/ force_close(k0) /\ report(id0, "CLOSE") /\ ev' = Tail(ev)
  /\ UNCHANGED <<alloc_id, known, wire, clean>>

(* send_buffer, for the write flag.                                        *)
EventWrite ==
  /\ Event({"CONNECTED", "HALFCLOSE", "PACCEPT", "PLISTEN", "RESERVE"})
  /\ ~Head(ev).read /\ ev' = Tail(ev)
  /\ \/ flush_fails(k0)
     \/ \E o \in send_buffer(slot[k0]) :
          /\ flush(k0, o)
          /\ \/ o.end # "none"
             \/ /\ slot' = [slot EXCEPT ![k0] = o.s]
                /\ UNCHANGED <<seen, clean, failed>>
  /\ UNCHANGED <<alloc_id, known>>

Service ==
  \/ \E t \in Connectors : Reserve(t) \/ Request(t)
  \/ \E id \in known, cmd \in {"D", "P"} : Send(id, cmd)
  \/ \E id \in known : Start(id)
  \/ \E id \in known, shutdown \in BOOLEAN : Close(id, shutdown)

SocketThread ==
  \/ CtrlOpen \/ CtrlListen \/ CtrlStart \/ CtrlSend \/ CtrlClose
  \/ NoCtrl \/ clear_closed_event \/ Wait
  \/ EventConnect \/ EventAccept \/ EventRead \/ EventWrite

Next == Service \/ SocketThread

Spec == Init /\ [][Next]_vars

-----------------------------------------------------------------------------
(* The socket thread never closes a slot that is only reserved: the assert *)
(* in force_close.                                                         *)
NotReserved == failed # "reserved"

(* The head of the low list is never sent in part, as the assert at the    *)
(* start of send_buffer says: the high list comes first, and would cut it. *)
LowIsWhole == failed # "uncomplete"

(* On every connection each message is a run of bytes, complete but for    *)
(* the last, and messages of one priority go out in the order they were    *)
(* sent: a message in progress is not cut by one of higher priority.       *)
WireWhole ==
  \A id \in Ids :
    LET w == wire[id]
    IN  \A i \in 1..(Len(w) - 1) :
          w[i] # w[i + 1] =>
            /\ count(w, w[i]) = Size
            /\ \A j \in (i + 1)..Len(w) :
                 /\ w[j] # w[i]
                 /\ msg[w[i]].cmd = msg[w[j]].cmd => w[i] < w[j]

(* A socket that is closed on request, without shutdown and without error, *)
(* has written every message it had taken.                                 *)
NothingLost ==
  \A m \in DOMAIN msg :
    msg[m].st = "taken" /\ msg[m].to \in clean =>
      count(wire[msg[m].to], m) = Size

(* What is waiting to be written has the write event on, so that it will   *)
(* be looked at again.                                                     *)
WriteEventOn ==
  \A k \in Slots :
    slot[k].type \in {"CONNECTING", "CONNECTED", "HALFCLOSE"}
      /\ ~nomore(slot[k]) => slot[k].write

(* An event that is met finds the socket it was read for, and never a free *)
(* slot: a request that closes a socket clears its event. The exception is *)
(* exactly the one of clear_closed_event: when another thread reserves the *)
(* slot between the close and the clearing, the event stays, and finds the *)
(* slot reserved or with whatever socket has moved in: report_connect may  *)
(* take it for the end of that socket's own connect.                       *)
EventIsOwn ==
  ev # <<>> /\ (fresh \/ ~checkctrl) =>
    LET e == Head(ev)
    IN  /\ slot[e.s].type # "INVALID"
        /\ e.missed \/ (slot[e.s].id = e.id /\ slot[e.s].type # "RESERVE")

(* No report is out of place: no data before the owner has opened the      *)
(* socket, no data and no opening after it was told of the end.            *)
ReportsInOrder == \A id \in Ids : seen[id] # "stray"
=============================================================================
