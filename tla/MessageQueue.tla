---------------------------- MODULE MessageQueue ----------------------------
(***************************************************************************)
(* The inside of one message_queue of skynet_mq.c: a ring buffer that      *)
(* doubles when it is full, and the watch on its length that makes the     *)
(* dispatching worker report an overload (skynet_server.c).                *)
(*                                                                         *)
(* Any thread pushes, under the queue's spinlock; the one worker that has  *)
(* the queue pops, under the lock, and then reads and clears the overload  *)
(* mark without it. Who has the queue and when it is scheduled is the      *)
(* subject of Kernel. Messages are numbered in the order in which they are *)
(* pushed, so that any two can be told apart.                              *)
(***************************************************************************)
EXTENDS Integers, Sequences

CONSTANTS
  DEFAULT_QUEUE_SIZE,  \* the first capacity of a queue
  MQ_OVERLOAD,         \* the first length that counts as overload
  Junk,                \* what memory holds before it is written
  MaxPush              \* bound on the messages pushed

ASSUME SizeAssumption ==
  /\ DEFAULT_QUEUE_SIZE \in Nat \ {0}
  /\ MQ_OVERLOAD \in Nat \ {0}
  /\ MaxPush \in Nat
  /\ Junk \notin Nat

VARIABLES
  cap, head, tail,     \* message_queue.cap, head and tail
  queue,               \* message_queue.queue
  overload,            \* message_queue.overload
  overload_threshold,  \* message_queue.overload_threshold
  pushed,              \* messages pushed so far
  message,             \* what the last skynet_mq_pop returned
  wpc,                 \* where the worker is between two pops
  seen,                \* the overload that skynet_mq_overload has read
  reported             \* the last length reported since the queue was empty

ringVars == <<cap, head, tail, queue>>
watchVars == <<overload, overload_threshold>>
workerVars == <<message, wpc, seen, reported>>
vars == <<ringVars, watchVars, pushed, workerVars>>

Messages == 1..MaxPush

-----------------------------------------------------------------------------
(* skynet_mq_length.                                                       *)
mq_length(h, t, c) == IF h <= t THEN t - h ELSE t + c - h

(* The index after i, at the head in skynet_mq_pop and at the tail in      *)
(* skynet_mq_push.                                                         *)
wrap(i, c) == IF i >= c THEN 0 ELSE i

(* The copy of expand_queue: the messages from the head on come first in   *)
(* the new buffer, whose other half is not written.                        *)
Mut_expanded(q, h, c) ==
  [i \in 0 .. 2 * c - 1 |-> IF i < c THEN q[i] ELSE Junk]
expanded(q, h, c) ==
  [i \in 0 .. 2 * c - 1 |-> IF i < c THEN q[(h + i) % c] ELSE Junk]

(* The loop of skynet_mq_pop doubles the threshold until it is not below   *)
(* the length n; with MaxPush messages it takes fewer rounds than that.    *)
Mut_raised(t, n) == IF n > t THEN 2 * t ELSE t
raised(t, n) ==
  LET double[k \in 0 .. MaxPush] ==
        IF k = 0 THEN t
        ELSE LET p == double[k - 1] IN IF n > p THEN 2 * p ELSE p
  IN  double[MaxPush]

-----------------------------------------------------------------------------
(* skynet_mq_create.                                                       *)
Init ==
  /\ cap = DEFAULT_QUEUE_SIZE
  /\ head = 0
  /\ tail = 0
  /\ queue = [i \in 0 .. cap - 1 |-> Junk]
  /\ overload = 0
  /\ overload_threshold = MQ_OVERLOAD
  /\ pushed = 0
  /\ message = Junk
  /\ wpc = "pop"
  /\ seen = 0
  /\ reported = 0

(* skynet_mq_push: write at the tail, and expand a buffer that is full.    *)
Push ==
  /\ pushed < MaxPush
  /\ pushed' = pushed + 1
  /\ LET t == wrap(tail + 1, cap)
         q == [queue EXCEPT ![tail] = pushed + 1]
     IN  IF head = t
         THEN /\ queue' = expanded(q, head, cap)
              /\ head' = 0
              /\ tail' = cap
              /\ cap' = 2 * cap
         ELSE /\ queue' = q
              /\ tail' = t
              /\ UNCHANGED <<head, cap>>
  /\ UNCHANGED <<watchVars, workerVars>>

(* skynet_mq_pop with a message in the queue.                              *)
Pop ==
  /\ wpc = "pop" /\ head # tail
  /\ message' = queue[head]
  /\ head' = wrap(head + 1, cap)
  /\ LET n == mq_length(head', tail, cap)
     IN  /\ overload' = IF n > overload_threshold THEN n ELSE overload
         /\ overload_threshold' = raised(overload_threshold, n)
  /\ wpc' = "overload"
  /\ UNCHANGED <<cap, tail, queue, pushed, seen, reported>>

(* skynet_mq_pop with an empty queue: the threshold starts over.           *)
PopEmpty ==
  /\ wpc = "pop" /\ head = tail
  /\ message' = Junk
  /\ overload_threshold' = MQ_OVERLOAD
  /\ reported' = 0
  /\ UNCHANGED <<ringVars, overload, pushed, wpc, seen>>

(* skynet_mq_overload, outside the lock: a mark is read, ...               *)
ReadOverload ==
  /\ wpc = "overload"
  /\ seen' = overload
  /\ wpc' = IF overload = 0 THEN "pop" ELSE "clear"
  /\ UNCHANGED <<ringVars, watchVars, pushed, message, reported>>

(* ... and cleared, and skynet_context_message_dispatch reports it.        *)
ClearOverload ==
  /\ wpc = "clear"
  /\ overload' = 0
  /\ reported' = seen
  /\ wpc' = "pop"
  /\ UNCHANGED <<ringVars, overload_threshold, pushed, message, seen>>

Next == Push \/ Pop \/ PopEmpty \/ ReadOverload \/ ClearOverload

Spec == Init /\ [][Next]_vars

-----------------------------------------------------------------------------
(* The type of the variables; head and tail stay inside the buffer.        *)
TypeOK ==
  /\ cap \in Nat \ {0}
  /\ head \in 0 .. cap - 1 /\ tail \in 0 .. cap - 1
  /\ queue \in [0 .. cap - 1 -> Messages \cup {Junk}]
  /\ overload \in Nat
  /\ overload_threshold \in Nat \ {0}
  /\ pushed \in 0 .. MaxPush
  /\ message \in Messages \cup {Junk}
  /\ wpc \in {"pop", "overload", "clear"}
  /\ seen \in Nat
  /\ reported \in Nat

(* What is in the ring, oldest first.                                      *)
Contents ==
  [i \in 1 .. mq_length(head, tail, cap) |-> queue[(head + i - 1) % cap]]

F == INSTANCE Fifo WITH Nothing <- Junk, items <- Contents

(* The ring buffer is a FIFO queue of unbounded length: wherever the head  *)
(* stands when it is full, expansion loses, repeats and reorders nothing,  *)
(* and no pop returns memory that was never written.                       *)
FifoSpec == F!Spec

(* The watch reports a queue once for each doubling of its length, though  *)
(* many messages may come between two pops: a pop that leaves at least     *)
(* twice what was last reported since the queue was empty, and more than   *)
(* MQ_OVERLOAD, marks the queue with its length; one that leaves no more   *)
(* than was reported does not mark it; and every report is of a greater    *)
(* length than the one before.                                             *)
DoublingsReported ==
  [][/\ wpc = "pop" /\ wpc' = "overload" =>
          LET n == mq_length(head', tail', cap')
          IN  /\ n > MQ_OVERLOAD /\ n >= 2 * reported => overload' = n
              /\ n <= reported => overload' = 0
     /\ wpc = "clear" /\ wpc' = "pop" => reported' > reported]_vars

=============================================================================
