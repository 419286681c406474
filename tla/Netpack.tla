------------------------------- MODULE Netpack -------------------------------
(***************************************************************************)
(* The framing of lua-netpack.c in the gate. A package is its size in two  *)
(* bytes, high byte first, and its body; a socket delivers the stream in   *)
(* pieces of any size. netpack.filter keeps the package a piece breaks off *)
(* in a hash of chains by socket, hands a piece that is one package over   *)
(* directly, and puts several into a ring that grows, which the gate's     *)
(* dispatch_queue empties before it takes the next message.                *)
(***************************************************************************)
EXTENDS Integers, Sequences, SequencesExt

CONSTANTS
  Fds,        \* sockets of clients
  hash_fd,    \* hash_fd[fd]: the chain of fd
  Base,       \* values of a byte: 256
  QueueSize   \* QUEUESIZE

ASSUME NetpackAssumption ==
  /\ DOMAIN hash_fd = Fds
  /\ Base \in Nat \ {0, 1} /\ QueueSize \in Nat \ {0, 1}

VARIABLES
  stream,   \* what each client has yet to deliver, in bytes
  hash,     \* queue.hash: chains of uncomplete packages
  ring,     \* queue.queue with its cap, head and tail
  open      \* sockets that are not closed

netpackVars == <<stream, hash, ring, open>>

(* The bytes of a package.                                                 *)
encode(body) == <<Len(body) \div Base, Len(body) % Base>> \o body

NetpackInit(sent) ==
  /\ stream = [fd \in Fds |-> FlattenSeq([i \in DOMAIN sent[fd] |->
                                            encode(sent[fd][i])])]
  /\ hash = [h \in Range(hash_fd) |-> <<>>]
  /\ ring = [cap |-> QueueSize, head |-> 0, tail |-> 0,
             queue |-> [i \in 0..(QueueSize - 1) |-> <<>>]]
  /\ open = Fds

-----------------------------------------------------------------------------
(* push_data, with expand_queue: the ring is never left full, so that      *)
(* head = tail means empty.                                                *)
expanded(q, i) == q.queue[(q.head + i) % q.cap]
expand_queue(q) ==
  [cap |-> q.cap + QueueSize, head |-> 0, tail |-> q.cap,
   queue |-> [i \in 0..(q.cap + QueueSize - 1) |->
                IF i < q.cap THEN expanded(q, i) ELSE <<>>]]

push_data(q, pack) ==
  LET next == (q.tail + 1) % q.cap
      put  == [q EXCEPT !.tail = next, !.queue[q.tail] = pack]
  IN  IF q.head = next THEN expand_queue(put) ELSE put

(* lpop until the ring is empty; the cells it leaves behind are dead.      *)
popped(q) == [i \in 1..((q.tail - q.head) % q.cap) |->
                q.queue[(q.head + i - 1) % q.cap]]
emptied(q) == [q EXCEPT !.head = q.tail,
                        !.queue = [i \in DOMAIN @ |-> <<>>]]

(* push_more: the packages of a buffer, and what is left uncomplete. read  *)
(* is -1 when only the first byte of the size is there.                    *)
push_more(buffer) ==
  LET n == Len(buffer)
      more[i \in 1..(n + 1)] ==
        LET size == buffer[i] * Base + buffer[i + 1]
        IN  IF i = n + 1 THEN [packs |-> <<>>, uc |-> <<>>]
            ELSE IF i = n
            THEN [packs |-> <<>>, uc |-> <<[read |-> -1, header |-> buffer[i],
                                            size |-> 0, buffer |-> <<>>]>>]
            ELSE IF n - i - 1 < size
            THEN [packs |-> <<>>,
                  uc |-> <<[read |-> n - i - 1, header |-> 0, size |-> size,
                            buffer |-> SubSeq(buffer, i + 2, n)]>>]
            ELSE LET rest == more[i + 2 + size]
                 IN  [rest EXCEPT !.packs =
                        <<SubSeq(buffer, i + 2, i + 1 + size)>> \o @]
  IN  more[1]

(* The first part of filter_data_: the buffer goes on with the package uc. *)
fill_header(uc, buffer) ==
  IF uc.read < 0 THEN [size |-> buffer[1] + uc.header * Base,
                       rest |-> Tail(buffer)]
                 ELSE [size |-> uc.size, rest |-> buffer]

fill(uc, buffer) ==
  LET h    == fill_header(uc, buffer)
      need == h.size - Len(uc.buffer)
  IN  IF Len(h.rest) < need
      THEN [packs |-> <<>>,
            uc |-> <<[read |-> Len(uc.buffer) + Len(h.rest), header |-> 0,
                      size |-> h.size, buffer |-> uc.buffer \o h.rest]>>]
      ELSE LET m == push_more(SubSeq(h.rest, need + 1, Len(h.rest)))
           IN  [m EXCEPT !.packs =
                  <<uc.buffer \o SubSeq(h.rest, 1, need)>> \o @]

(* find_uncomplete takes the package of fd off its chain, if there is one; *)
(* save_uncomplete puts it on in front.                                    *)
chain(fd) == hash[hash_fd[fd]]
saved(fd) == {i \in DOMAIN chain(fd) : chain(fd)[i].id = fd}
Mut_unlinked(fd) == IF saved(fd) = {} THEN chain(fd) ELSE Tail(chain(fd))
unlinked(fd) == RemoveFirstMatch(chain(fd), LAMBDA e : e.id = fd)

filter_data(fd, buffer) ==
  IF saved(fd) = {} THEN push_more(buffer)
  ELSE fill(chain(fd)[Min(saved(fd))].uc, buffer)

(* The socket thread delivers the next n bytes of fd, and the gate handles *)
(* the message: TYPE_DATA is dispatched at once, TYPE_MORE through the     *)
(* ring. forwarded is what handler.message gets, in this order.            *)
filtered(fd, n) == filter_data(fd, SubSeq(stream[fd], 1, n))
one_package(r) == Len(r.packs) = 1 /\ r.uc = <<>>
pushed(r) ==
  IF one_package(r) THEN ring ELSE FoldLeft(push_data, ring, r.packs)
forwarded(fd, n) ==
  LET r == filtered(fd, n)
  IN  IF one_package(r) THEN r.packs ELSE popped(pushed(r))

SocketData(fd, n) ==
  /\ fd \in open /\ n \in 1..Len(stream[fd])
  /\ LET r == filtered(fd, n)
     IN  /\ hash' = [hash EXCEPT ![hash_fd[fd]] =
              [i \in DOMAIN r.uc |-> [id |-> fd, uc |-> r.uc[i]]]
              \o unlinked(fd)]
         /\ ring' = emptied(pushed(r))
  /\ stream' = [stream EXCEPT ![fd] = SubSeq(@, n + 1, Len(@))]
  /\ UNCHANGED open

(* SKYNET_SOCKET_TYPE_CLOSE or ERROR: close_uncomplete.                    *)
SocketClose(fd) ==
  /\ fd \in open
  /\ open' = open \ {fd}
  /\ hash' = [hash EXCEPT ![hash_fd[fd]] = unlinked(fd)]
  /\ UNCHANGED <<stream, ring>>
=============================================================================
