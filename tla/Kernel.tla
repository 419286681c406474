------------------------------- MODULE Kernel -------------------------------
(***************************************************************************)
(* The message kernel of the skynet server: the life of a service context  *)
(* (skynet_server.c), its registration in the handle table                 *)
(* (skynet_handle.c), its message queue and the global queue of queues     *)
(* (skynet_mq.c), and the loop of the worker threads that dispatch them    *)
(* (skynet_server.c, skynet_start.c).                                      *)
(*                                                                         *)
(* Every action is one critical section (a spinlock, the read-write lock   *)
(* of the handle table) or one atomic instruction of one thread; whatever  *)
(* happens between two of them may be interleaved with the other threads.  *)
(* A thread has three levels of control: the dispatch loop of a worker     *)
(* (wpc), the launch of a service that a callback runs (oppc), and the     *)
(* send, release or delete of a context that any of them may be inside     *)
(* (iopc). The inner level runs to its end before the outer one goes on.   *)
(***************************************************************************)
EXTENDS Integers, Sequences, FiniteSets

CONSTANTS
  Services,  \* the services that may ever be launched, named by handle
  Root,      \* the service skynet_start launches before it starts threads
  Workers,   \* worker threads
  Feeders,   \* threads that only push messages: socket, timer
  Weight,    \* Weight[w]: worker_parm.weight, -1 or a shift count
  None,      \* a null pointer; source 0 of a system message
  MaxSend    \* bound on the messages the services and feeders send

Threads == Workers \cup Feeders

ASSUME KernelAssumption ==
  /\ IsFiniteSet(Services) /\ IsFiniteSet(Workers) /\ IsFiniteSet(Feeders)
  /\ Root \in Services
  /\ None \notin Services
  /\ Workers \cap Feeders = {}
  /\ Weight \in [Workers -> -1..3]
  /\ MaxSend \in Nat

VARIABLES
  slot,       \* handles registered in handle_storage.slot
  ctx,        \* memory of struct skynet_context: none, live or freed
  ref,        \* skynet_context.ref
  init,       \* skynet_context.init
  total,      \* G_NODE.total
  queue,      \* message_queue.queue, oldest message first
  qmem,       \* memory of struct message_queue: none, live or freed
  in_global,  \* message_queue.in_global
  release,    \* message_queue.release
  Q,          \* the global queue
  wpc,        \* where each worker is in its dispatch loop
  hand,       \* the queue a worker has taken from the global queue
  cur,        \* the context it has grabbed for it
  nxt,        \* the queue it takes next, while it pushes hand back
  msg,        \* the message it has popped
  left,       \* how many more messages it may dispatch in this turn
  oppc,       \* where each worker is in skynet_context_new
  opsvc,      \* the service it launches
  iopc,       \* where each thread is in a send, a release or a delete
  iosvc,      \* the context that is about
  iomsg,      \* the message to push
  sent        \* messages sent so far

ctxVars  == <<slot, ctx, ref, init, total>>
mqVars   == <<queue, qmem, in_global, release, Q>>
loopVars == <<wpc, hand, cur, nxt, msg, left>>
opVars   == <<oppc, opsvc>>
ioVars   == <<iopc, iosvc, iomsg>>
vars     == <<ctxVars, mqVars, loopVars, opVars, ioVars, sent>>

Memory  == {"none", "live", "freed"}
Message == [src : Services \cup {None}, id : 0..MaxSend,
            type : {"text", "error"}]

ASSUME NoneAssumption == None \notin Message

-----------------------------------------------------------------------------
(* The critical sections the actions are made of. A definition named       *)
(* Mut_... is a faulty variant of the one that follows it; nothing uses it *)
(* until it is put in that one's place to see which property notices.      *)

(* skynet_globalmq_push: the queue of s goes to the tail of the global one.*)
globalmq_push(s) == Q' = Append(Q, s)

(* The test of in_global in skynet_mq_push and skynet_mq_mark_release: a   *)
(* queue that is not scheduled is scheduled.                               *)
Mut_schedule_always(s) == globalmq_push(s)
schedule(s) == IF in_global[s] THEN UNCHANGED Q ELSE globalmq_push(s)

(* skynet_mq_pop finds the queue empty: it leaves the schedule.            *)
Mut_unschedule_not(s) == UNCHANGED in_global
unschedule(s) == in_global' = [in_global EXCEPT ![s] = FALSE]

(* skynet_mq_create sets in_global, so that no push schedules the queue of *)
(* a service before its init function is done.                             *)
Mut_created_unset == FALSE
created_in_global == TRUE

(* skynet_context_new: one reference for the handle table, one for the     *)
(* launching thread.                                                       *)
Mut_created_ref == 1
created_ref == 2

(* skynet_mq_release drains and frees a queue once delete_context has      *)
(* marked it, and else schedules it again, to be looked at later.          *)
Mut_drainable(s) == TRUE
drainable(s) == release[s]

Mut_putback_not(s) == UNCHANGED Q
putback(s) == globalmq_push(s)

(* skynet_handle_grab, for a registered handle: the reference is counted   *)
(* inside the read lock of the handle table.                               *)
Mut_grab_uncounted(s) == UNCHANGED ref
handle_grab(s) == ref' = [ref EXCEPT ![s] = @ + 1]

(* context_inc and context_dec.                                            *)
context_inc == total' = total + 1
context_dec == total' = total - 1

(* skynet_context_release: the last reference starts delete_context. The   *)
(* caller is inside no other send or release.                              *)
context_release(t, s) ==
  /\ ref' = [ref EXCEPT ![s] = @ - 1]
  /\ iopc' = [iopc EXCEPT ![t] = IF ref[s] = 1 THEN "mark" ELSE "idle"]
  /\ iosvc' = [iosvc EXCEPT ![t] = IF ref[s] = 1 THEN s ELSE None]
  /\ UNCHANGED iomsg

(* n = skynet_mq_length(q) >> weight: how many more messages the turn has, *)
(* after the first. n = 0 does not cut it short.                           *)
more_turns(n) == IF n > 1 THEN n - 1 ELSE 0

(* n >> k, for the weights of skynet_start's table.                        *)
shift_right(n, k) == n \div <<1, 2, 4, 8>>[k + 1]

-----------------------------------------------------------------------------
(* skynet_start has launched the root service and pushed its queue with    *)
(* the first message it sent itself; the worker threads are about to run.  *)
Init ==
  /\ slot = {Root}
  /\ ctx = [s \in Services |-> IF s = Root THEN "live" ELSE "none"]
  /\ ref = [s \in Services |-> IF s = Root THEN 1 ELSE 0]
  /\ init = [s \in Services |-> s = Root]
  /\ total = 1
  /\ queue = [s \in Services |-> IF s = Root
                THEN <<[src |-> Root, id |-> 0, type |-> "text"]>> ELSE <<>>]
  /\ qmem = [s \in Services |-> IF s = Root THEN "live" ELSE "none"]
  /\ in_global = [s \in Services |-> s = Root]
  /\ release = [s \in Services |-> FALSE]
  /\ Q = <<Root>>
  /\ wpc = [w \in Workers |-> "loop"]
  /\ hand = [w \in Workers |-> None]
  /\ cur = [w \in Workers |-> None]
  /\ nxt = [w \in Workers |-> None]
  /\ msg = [w \in Workers |-> None]
  /\ left = [w \in Workers |-> 0]
  /\ oppc = [w \in Workers |-> "none"]
  /\ opsvc = [w \in Workers |-> None]
  /\ iopc = [t \in Threads |-> "idle"]
  /\ iosvc = [t \in Threads |-> None]
  /\ iomsg = [t \in Threads |-> None]
  /\ sent = 0

-----------------------------------------------------------------------------
(* skynet_context_push and skynet_context_release, run by any thread.      *)

(* The thread has a grabbed destination: skynet_mq_push. A queue that is   *)
(* not scheduled is scheduled.                                             *)
MqPush(t) ==
  /\ iopc[t] = "push"
  /\ LET s == iosvc[t]
     IN  /\ queue' = [queue EXCEPT ![s] = Append(@, iomsg[t])]
         /\ in_global' = [in_global EXCEPT ![s] = TRUE]
         /\ schedule(s)
  /\ iopc' = [iopc EXCEPT ![t] = "unref"]
  /\ iomsg' = [iomsg EXCEPT ![t] = None]
  /\ UNCHANGED <<ctxVars, qmem, release, loopVars, opVars, iosvc, sent>>

(* The message was pushed, or a context was taken out of the handle table: *)
(* its reference is given up.                                              *)
Unref(t) ==
  /\ iopc[t] = "unref"
  /\ context_release(t, iosvc[t])
  /\ UNCHANGED <<slot, ctx, init, total, mqVars, loopVars, opVars, sent>>

(* delete_context: skynet_mq_mark_release hands the queue to the workers   *)
(* to be drained.                                                          *)
MarkRelease(t) ==
  /\ iopc[t] = "mark"
  /\ LET s == iosvc[t]
     IN  /\ release' = [release EXCEPT ![s] = TRUE]
         /\ schedule(s)
  /\ iopc' = [iopc EXCEPT ![t] = "free"]
  /\ UNCHANGED <<ctxVars, queue, qmem, in_global, loopVars, opVars, iosvc,
                 iomsg, sent>>

(* delete_context: skynet_free(ctx) and context_dec.                       *)
FreeContext(t) ==
  /\ iopc[t] = "free"
  /\ ctx' = [ctx EXCEPT ![iosvc[t]] = "freed"]
  /\ context_dec
  /\ iopc' = [iopc EXCEPT ![t] = "idle"]
  /\ iosvc' = [iosvc EXCEPT ![t] = None]
  /\ UNCHANGED <<slot, ref, init, mqVars, loopVars, opVars, iomsg, sent>>

(* skynet_context_push inside drop_message: grab the destination, if it is *)
(* still registered.                                                       *)
SendGrab(t) ==
  /\ iopc[t] = "grab"
  /\ LET s == iosvc[t]
     IN  IF s \in slot
         THEN /\ handle_grab(s)
              /\ iopc' = [iopc EXCEPT ![t] = "push"]
              /\ UNCHANGED <<iosvc, iomsg>>
         ELSE /\ iopc' = [iopc EXCEPT ![t] = "idle"]
              /\ iosvc' = [iosvc EXCEPT ![t] = None]
              /\ iomsg' = [iomsg EXCEPT ![t] = None]
              /\ UNCHANGED ref
  /\ UNCHANGED <<slot, ctx, init, total, mqVars, loopVars, opVars, sent>>

-----------------------------------------------------------------------------
(* What the code of a service may do: in a callback on a worker, or in its *)
(* init function on the worker that launches it. Feeders only send.        *)

InService(w) == w \in Workers /\ wpc[w] = "callback" /\ iopc[w] = "idle"

Sender(t) ==
  IF t \in Feeders THEN None
  ELSE IF oppc[t] = "init" THEN opsvc[t] ELSE cur[t]

(* skynet_send to a registered service: skynet_handle_grab succeeds. A     *)
(* send to any other handle is refused and changes nothing.                *)
Send(t, s) ==
  /\ iopc[t] = "idle"
  /\ t \in Feeders \/ (InService(t) /\ oppc[t] \in {"none", "init"})
  /\ s \in slot
  /\ sent < MaxSend
  /\ sent' = sent + 1
  /\ handle_grab(s)
  /\ iopc' = [iopc EXCEPT ![t] = "push"]
  /\ iosvc' = [iosvc EXCEPT ![t] = s]
  /\ iomsg' = [iomsg EXCEPT ![t] =
                 [src |-> Sender(t), id |-> sent + 1, type |-> "text"]]
  /\ UNCHANGED <<slot, ctx, init, total, mqVars, loopVars, opVars>>

(* handle_exit and skynet_handle_retireall: EXIT, KILL and ABORT take a    *)
(* context out of the handle table, then release the table's reference.    *)
Retire(w, s) ==
  /\ InService(w) /\ oppc[w] = "none"
  /\ s \in slot
  /\ slot' = slot \ {s}
  /\ iopc' = [iopc EXCEPT ![w] = "unref"]
  /\ iosvc' = [iosvc EXCEPT ![w] = s]
  /\ UNCHANGED <<ctx, ref, init, total, mqVars, loopVars, opVars, iomsg, sent>>

(* skynet_context_new: the context is registered with two references, one  *)
(* for the table and one for the launching thread; its queue is created    *)
(* with in_global set, so that no push schedules it before init is done.   *)
LaunchRegister(w, s) ==
  /\ InService(w) /\ oppc[w] = "none"
  /\ ctx[s] = "none"
  /\ slot' = slot \cup {s}
  /\ ctx' = [ctx EXCEPT ![s] = "live"]
  /\ ref' = [ref EXCEPT ![s] = created_ref]
  /\ init' = [init EXCEPT ![s] = FALSE]
  /\ context_inc
  /\ queue' = [queue EXCEPT ![s] = <<>>]
  /\ qmem' = [qmem EXCEPT ![s] = "live"]
  /\ in_global' = [in_global EXCEPT ![s] = created_in_global]
  /\ release' = [release EXCEPT ![s] = FALSE]
  /\ oppc' = [oppc EXCEPT ![w] = "init"]
  /\ opsvc' = [opsvc EXCEPT ![w] = s]
  /\ UNCHANGED <<Q, loopVars, ioVars, sent>>

(* The init function returned 0: skynet_context_release tells whether the  *)
(* context outlived it.                                                    *)
LaunchOk(w) ==
  /\ oppc[w] = "init" /\ iopc[w] = "idle"
  /\ context_release(w, opsvc[w])
  /\ oppc' = [oppc EXCEPT ![w] = IF ref[opsvc[w]] = 1 THEN "post" ELSE "setinit"]
  /\ UNCHANGED <<slot, ctx, init, total, mqVars, loopVars, opsvc, sent>>

(* ctx->init = true, if the release returned the context.                  *)
LaunchSetInit(w) ==
  /\ oppc[w] = "setinit"
  /\ init' = [init EXCEPT ![opsvc[w]] = TRUE]
  /\ oppc' = [oppc EXCEPT ![w] = "post"]
  /\ UNCHANGED <<slot, ctx, ref, total, mqVars, loopVars, opsvc, ioVars, sent>>

(* skynet_globalmq_push(queue): the workers may dispatch the new service.  *)
LaunchPost(w) ==
  /\ oppc[w] = "post" /\ iopc[w] = "idle"
  /\ globalmq_push(opsvc[w])
  /\ oppc' = [oppc EXCEPT ![w] = "none"]
  /\ opsvc' = [opsvc EXCEPT ![w] = None]
  /\ UNCHANGED <<ctxVars, queue, qmem, in_global, release, loopVars, ioVars, sent>>

(* The init function failed: release, retire, then skynet_mq_release.      *)
LaunchFail(w) ==
  /\ oppc[w] = "init" /\ iopc[w] = "idle"
  /\ context_release(w, opsvc[w])
  /\ oppc' = [oppc EXCEPT ![w] = "retire"]
  /\ UNCHANGED <<slot, ctx, init, total, mqVars, loopVars, opsvc, sent>>

LaunchRetire(w) ==
  /\ oppc[w] = "retire" /\ iopc[w] = "idle"
  /\ slot' = slot \ {opsvc[w]}
  /\ IF opsvc[w] \in slot
     THEN /\ iopc' = [iopc EXCEPT ![w] = "unref"]
          /\ iosvc' = [iosvc EXCEPT ![w] = opsvc[w]]
     ELSE UNCHANGED <<iopc, iosvc>>
  /\ oppc' = [oppc EXCEPT ![w] = "mqrelease"]
  /\ UNCHANGED <<ctx, ref, init, total, mqVars, loopVars, opsvc, iomsg, sent>>

LaunchMqRelease(w) ==
  /\ oppc[w] = "mqrelease" /\ iopc[w] = "idle"
  /\ IF drainable(opsvc[w])
     THEN /\ oppc' = [oppc EXCEPT ![w] = "drop"]
          /\ UNCHANGED <<Q, opsvc>>
     ELSE /\ putback(opsvc[w])
          /\ oppc' = [oppc EXCEPT ![w] = "none"]
          /\ opsvc' = [opsvc EXCEPT ![w] = None]
  /\ UNCHANGED <<ctxVars, queue, qmem, in_global, release, loopVars, ioVars, sent>>

-----------------------------------------------------------------------------
(* _drop_queue on the queue of a dead service s, by a worker or by the     *)
(* failed launch.                                                          *)

(* drop_message: an error is sent to the service that m came from, none if *)
(* it came from no service. Its session is 0: it says that s is gone, and  *)
(* stands for all the messages of m.src to s.                              *)
Mut_report_not(t, s, m) == UNCHANGED ioVars
report(t, s, m) ==
  IF m.src = None
  THEN UNCHANGED ioVars
  ELSE /\ iopc' = [iopc EXCEPT ![t] = "grab"]
       /\ iosvc' = [iosvc EXCEPT ![t] = m.src]
       /\ iomsg' = [iomsg EXCEPT ![t] =
                      [src |-> s, id |-> 0, type |-> "error"]]

(* The oldest message is popped and reported.                              *)
DropMessage(t, s) ==
  /\ queue[s] # <<>>
  /\ report(t, s, Head(queue[s]))
  /\ queue' = [queue EXCEPT ![s] = Tail(@)]
  /\ UNCHANGED <<ctxVars, qmem, in_global, release, Q, loopVars, opVars, sent>>

(* The pop that finds the queue empty clears in_global; _release frees it. *)
ReleaseQueue(s) ==
  /\ queue[s] = <<>>
  /\ unschedule(s)
  /\ qmem' = [qmem EXCEPT ![s] = "freed"]

LaunchDrop(w) ==
  /\ oppc[w] = "drop" /\ iopc[w] = "idle"
  /\ DropMessage(w, opsvc[w])

LaunchDropEnd(w) ==
  /\ oppc[w] = "drop" /\ iopc[w] = "idle"
  /\ ReleaseQueue(opsvc[w])
  /\ oppc' = [oppc EXCEPT ![w] = "none"]
  /\ opsvc' = [opsvc EXCEPT ![w] = None]
  /\ UNCHANGED <<ctxVars, queue, release, Q, loopVars, ioVars, sent>>

-----------------------------------------------------------------------------
(* thread_worker and skynet_context_message_dispatch.                      *)

At(w, l) == wpc[w] = l /\ iopc[w] = "idle"

(* The worker has no queue: skynet_globalmq_pop. With an empty global      *)
(* queue it sleeps until it is woken to try again.                         *)
TakeQueue(w) ==
  /\ At(w, "loop") /\ hand[w] = None
  /\ Q # <<>>
  /\ hand' = [hand EXCEPT ![w] = Head(Q)]
  /\ Q' = Tail(Q)
  /\ UNCHANGED <<ctxVars, queue, qmem, in_global, release, wpc, cur, nxt, msg,
                 left, opVars, ioVars, sent>>

(* skynet_handle_grab of the queue's handle.                               *)
Grab(w) ==
  /\ At(w, "loop") /\ hand[w] # None
  /\ IF hand[w] \in slot
     THEN /\ handle_grab(hand[w])
          /\ cur' = [cur EXCEPT ![w] = hand[w]]
          /\ wpc' = [wpc EXCEPT ![w] = "first"]
     ELSE /\ wpc' = [wpc EXCEPT ![w] = "mqrelease"]
          /\ UNCHANGED <<ref, cur>>
  /\ UNCHANGED <<slot, ctx, init, total, mqVars, hand, nxt, msg, left, opVars,
                 ioVars, sent>>

(* skynet_mq_release of a queue whose handle is retired: drain it once its *)
(* context is deleted, else put it back and look again later.              *)
MqRelease(w) ==
  /\ At(w, "mqrelease")
  /\ IF drainable(hand[w])
     THEN /\ wpc' = [wpc EXCEPT ![w] = "drop"]
          /\ UNCHANGED <<Q, hand>>
     ELSE /\ putback(hand[w])
          /\ hand' = [hand EXCEPT ![w] = None]
          /\ wpc' = [wpc EXCEPT ![w] = "loop"]
  /\ UNCHANGED <<ctxVars, queue, qmem, in_global, release, cur, nxt, msg, left,
                 opVars, ioVars, sent>>

Drop(w) ==
  /\ At(w, "drop")
  /\ DropMessage(w, hand[w])

DropEnd(w) ==
  /\ At(w, "drop")
  /\ ReleaseQueue(hand[w])
  /\ hand' = [hand EXCEPT ![w] = None]
  /\ wpc' = [wpc EXCEPT ![w] = "loop"]
  /\ UNCHANGED <<ctxVars, queue, release, Q, cur, nxt, msg, left, opVars, ioVars,
                 sent>>

(* skynet_mq_pop gives a message. The first one of a turn is followed by   *)
(* skynet_mq_length, when the worker's weight is not negative.             *)
PopMessage(w) ==
  /\ wpc[w] \in {"first", "more"} /\ iopc[w] = "idle"
  /\ queue[hand[w]] # <<>>
  /\ msg' = [msg EXCEPT ![w] = Head(queue[hand[w]])]
  /\ queue' = [queue EXCEPT ![hand[w]] = Tail(@)]
  /\ wpc' = [wpc EXCEPT ![w] = IF wpc[w] = "first" /\ Weight[w] >= 0
                                 THEN "length" ELSE "callback"]
  /\ UNCHANGED <<ctxVars, qmem, in_global, release, Q, hand, cur, nxt, left,
                 opVars, ioVars, sent>>

(* n = skynet_mq_length(q); n >>= weight.                                  *)
QueueLength(w) ==
  /\ At(w, "length")
  /\ left' = [left EXCEPT ![w] =
                more_turns(shift_right(Len(queue[hand[w]]), Weight[w]))]
  /\ wpc' = [wpc EXCEPT ![w] = "callback"]
  /\ UNCHANGED <<ctxVars, mqVars, hand, cur, nxt, msg, opVars, ioVars, sent>>

(* skynet_mq_pop finds the queue empty: it leaves the schedule, and the    *)
(* worker releases the context and takes another queue.                    *)
PopEmpty(w) ==
  /\ wpc[w] \in {"first", "more"} /\ iopc[w] = "idle"
  /\ queue[hand[w]] = <<>>
  /\ unschedule(hand[w])
  /\ hand' = [hand EXCEPT ![w] = None]
  /\ left' = [left EXCEPT ![w] = 0]
  /\ wpc' = [wpc EXCEPT ![w] = "release"]
  /\ UNCHANGED <<ctxVars, queue, qmem, release, Q, cur, nxt, msg, opVars,
                 ioVars, sent>>

(* dispatch_message returns: the turn goes on or is over.                  *)
CallbackEnd(w) ==
  /\ At(w, "callback") /\ oppc[w] = "none"
  /\ msg' = [msg EXCEPT ![w] = None]
  /\ left' = [left EXCEPT ![w] = IF @ > 0 THEN @ - 1 ELSE 0]
  /\ wpc' = [wpc EXCEPT ![w] = IF left[w] > 0 THEN "more" ELSE "rotate"]
  /\ UNCHANGED <<ctxVars, mqVars, hand, cur, nxt, opVars, ioVars, sent>>

(* The turn is over: nq = skynet_globalmq_pop(). Without another queue to  *)
(* serve the worker keeps the one it has.                                  *)
Rotate(w) ==
  /\ At(w, "rotate")
  /\ IF Q = <<>>
     THEN /\ wpc' = [wpc EXCEPT ![w] = "release"]
          /\ UNCHANGED <<Q, nxt>>
     ELSE /\ nxt' = [nxt EXCEPT ![w] = Head(Q)]
          /\ Q' = Tail(Q)
          /\ wpc' = [wpc EXCEPT ![w] = "pushback"]
  /\ UNCHANGED <<ctxVars, queue, qmem, in_global, release, hand, cur, msg, left,
                 opVars, ioVars, sent>>

(* skynet_globalmq_push(q); q = nq.                                        *)
PushBack(w) ==
  /\ At(w, "pushback")
  /\ globalmq_push(hand[w])
  /\ hand' = [hand EXCEPT ![w] = nxt[w]]
  /\ nxt' = [nxt EXCEPT ![w] = None]
  /\ wpc' = [wpc EXCEPT ![w] = "release"]
  /\ UNCHANGED <<ctxVars, queue, qmem, in_global, release, cur, msg, left,
                 opVars, ioVars, sent>>

(* skynet_context_release of the context grabbed for the turn.             *)
EndTurn(w) ==
  /\ At(w, "release")
  /\ context_release(w, cur[w])
  /\ cur' = [cur EXCEPT ![w] = None]
  /\ wpc' = [wpc EXCEPT ![w] = "loop"]
  /\ UNCHANGED <<slot, ctx, init, total, mqVars, hand, nxt, msg, left, opVars,
                 sent>>

-----------------------------------------------------------------------------
Context(t) == MqPush(t) \/ Unref(t) \/ MarkRelease(t) \/ FreeContext(t)
                \/ SendGrab(t)

Launch(w) ==
  \/ LaunchOk(w) \/ LaunchSetInit(w) \/ LaunchPost(w) \/ LaunchFail(w)
  \/ LaunchRetire(w) \/ LaunchMqRelease(w) \/ LaunchDrop(w) \/ LaunchDropEnd(w)

Dispatch(w) ==
  \/ TakeQueue(w) \/ Grab(w) \/ MqRelease(w) \/ Drop(w) \/ DropEnd(w)
  \/ PopMessage(w) \/ QueueLength(w) \/ PopEmpty(w) \/ CallbackEnd(w)
  \/ Rotate(w) \/ PushBack(w) \/ EndTurn(w)

Service(w, s) == Retire(w, s) \/ LaunchRegister(w, s)

Next ==
  \/ \E t \in Threads : Context(t) \/ \E s \in Services : Send(t, s)
  \/ \E w \in Workers : Launch(w) \/ Dispatch(w)
                          \/ \E s \in Services : Service(w, s)

Spec == Init /\ [][Next]_vars

(* Every thread that can run does run: the threads are preemptive, a lock  *)
(* is held for a bounded time, a callback and an init function return. A   *)
(* service need not send, launch or retire anything.                       *)
Fairness ==
  /\ \A t \in Threads : WF_vars(Context(t))
  /\ \A w \in Workers : WF_vars(Launch(w)) /\ WF_vars(Dispatch(w))

FairSpec == Spec /\ Fairness

-----------------------------------------------------------------------------
(* The type of every variable.                                             *)
TypeOK ==
  /\ slot \subseteq Services
  /\ ctx \in [Services -> Memory]
  /\ ref \in [Services -> Int]
  /\ init \in [Services -> BOOLEAN]
  /\ total \in Int
  /\ queue \in [Services -> Seq(Message)]
  /\ qmem \in [Services -> Memory]
  /\ in_global \in [Services -> BOOLEAN]
  /\ release \in [Services -> BOOLEAN]
  /\ Q \in Seq(Services)
  /\ wpc \in [Workers -> {"loop", "mqrelease", "drop", "first", "length",
                          "callback", "more", "rotate", "pushback", "release"}]
  /\ hand \in [Workers -> Services \cup {None}]
  /\ cur \in [Workers -> Services \cup {None}]
  /\ nxt \in [Workers -> Services \cup {None}]
  /\ msg \in [Workers -> Message \cup {None}]
  /\ left \in [Workers -> Nat]
  /\ oppc \in [Workers -> {"none", "init", "setinit", "post", "retire",
                           "mqrelease", "drop"}]
  /\ opsvc \in [Workers -> Services \cup {None}]
  /\ iopc \in [Threads -> {"idle", "grab", "push", "unref", "mark", "free"}]
  /\ iosvc \in [Threads -> Services \cup {None}]
  /\ iomsg \in [Threads -> Message \cup {None}]
  /\ sent \in 0..MaxSend

(* Who has the queue of s: a link of the global queue, a worker that has   *)
(* taken it, or the worker that is still launching s.                      *)
Owners(s) ==
  {<<"Q", i>> : i \in {j \in 1..Len(Q) : Q[j] = s}}
    \cup {<<"hand", w>> : w \in {v \in Workers : hand[v] = s}}
    \cup {<<"nxt", w>> : w \in {v \in Workers : nxt[v] = s}}
    \cup {<<"op", w>> : w \in {v \in Workers : opsvc[v] = s}}

(* Who holds a counted reference to the context of s: the handle table, a  *)
(* worker in a turn of s, a send or a retire in progress, or its launcher. *)
Tokens == ({"cur", "op"} \X Workers) \cup ({"io"} \X Threads)
            \cup {<<"slot", None>>}

Holds(k, s) ==
  \/ k[1] = "slot" /\ s \in slot
  \/ k[1] = "cur" /\ cur[k[2]] = s
  \/ k[1] = "op" /\ opsvc[k[2]] = s /\ oppc[k[2]] = "init"
  \/ k[1] = "io" /\ iosvc[k[2]] = s /\ iopc[k[2]] \in {"push", "unref"}

Holders(s) == {k \in Tokens : Holds(k, s)}

(* A queue is in at most one place: no two workers can take the same one,  *)
(* and skynet_globalmq_push's assert(queue->next == NULL) cannot fail. The *)
(* in_global flag, the release flag and the launch protocol all have to    *)
(* agree for this.                                                         *)
OnePlace == \A s \in Services : \A p, q \in Owners(s) : p = q

(* No message is stranded: a queue that has a message, or that waits to be *)
(* drained and freed, is scheduled or in the hands of a thread.            *)
NothingStranded ==
  \A s \in Services :
    qmem[s] = "live" /\ (queue[s] # <<>> \/ release[s]) => Owners(s) # {}

(* The threads that run code of s: its init function or its callback.      *)
Callers(s) == {w \in Workers : opsvc[w] = s /\ oppc[w] = "init"}
  \cup {w \in Workers : cur[w] = s /\ wpc[w] = "callback"}

(* CHECKCALLING_BEGIN never fails: no two threads run the code of one      *)
(* service at a time, though any worker may run any service; and the       *)
(* assert(ctx->init) of dispatch_message holds in every callback.          *)
OneCaller ==
  \A s \in Services :
    /\ \A v, w \in Callers(s) : v = w
    /\ \A w \in Workers : cur[w] = s /\ wpc[w] = "callback" => init[s]

(* The reference count counts exactly the threads and the table entry that *)
(* hold the context, so the thread that brings it to zero is the only one  *)
(* that can still reach it.                                                *)
RefExact == \A s \in Services : ref[s] = Cardinality(Holders(s))

(* Memory is safe, but for one use. What a counted holder uses, and a      *)
(* thread that deletes a context, is not freed; nor is the queue a thread  *)
(* pushes to, marks or has in hand, the launcher that has given up its     *)
(* reference included, nor one linked in the global queue. And nothing is  *)
(* freed twice: a context is deleted by one thread only, and the           *)
(* assert(q->release == 0) of skynet_mq_mark_release holds. The exception  *)
(* is the ctx->init = true of skynet_context_new, which no reference       *)
(* covers: only the handle table keeps that context alive, and a launcher  *)
(* can write to freed memory once its service has been retired.            *)
MemorySafety ==
  /\ \A s \in Services :
       /\ Holders(s) # {} => ctx[s] = "live"
       /\ Owners(s) # {} => qmem[s] = "live"
  /\ \A t \in Threads :
       /\ iopc[t] \in {"push", "mark"} => qmem[iosvc[t]] = "live"
       /\ iopc[t] \in {"mark", "free"} => ctx[iosvc[t]] = "live"
       /\ iopc[t] = "mark" => ~ release[iosvc[t]]
  /\ \A w \in Workers : oppc[w] = "setinit" =>
       ctx[opsvc[w]] = "live" \/ opsvc[w] \notin slot
  /\ \A t, u \in Threads :
       t # u /\ iopc[t] \in {"mark", "free"} /\ iopc[u] \in {"mark", "free"}
         => iosvc[t] # iosvc[u]

(* CHECK_ABORT ends the threads when G_NODE.total is 0. By then no context *)
(* is held by anyone: no callback, launch or send is cut off.              *)
AbortIsSafe == total = 0 => \A s \in Services : Holders(s) = {}

(* A queue is freed only when it is empty and no thread can ever push to   *)
(* it again: its context is out of the table and held by no sender.        *)
FreedWhenUnreachable ==
  [][\A s \in Services : qmem[s] = "live" /\ qmem'[s] = "freed" =>
       /\ queue[s] = <<>> /\ s \notin slot /\ Holders(s) = {}
       /\ \A t \in Threads : ~(iopc[t] \in {"push", "mark"} /\ iosvc[t] = s)]_vars

-----------------------------------------------------------------------------
(* The abstract view of a service: its phase, its mailbox, and what it is  *)
(* doing, whichever worker does it.                                        *)
Phase ==
  [s \in Services |-> CASE ctx[s] = "none" -> "unborn"
                        [] ctx[s] # "none" /\ s \in slot -> "open"
                        [] ctx[s] # "none" /\ s \notin slot
                             /\ qmem[s] = "live" -> "closed"
                        [] OTHER -> "gone"]

Activity ==
  [s \in Services |->
     IF \E w \in Workers : opsvc[w] = s /\ oppc[w] = "init" THEN "starting"
     ELSE IF \E w \in Workers : cur[w] = s /\ msg[w] # None
       THEN msg[CHOOSE w \in Workers : cur[w] = s /\ msg[w] # None]
     ELSE None]

A == INSTANCE Actor WITH
       Messages <- Message, First <- [src |-> Root, id |-> 0, type |-> "text"],
       Starting <- "starting", Idle <- None,
       phase <- Phase, mailbox <- queue, activity <- Activity

(* The kernel implements Actor: seen from one service, all the threads,    *)
(* queues and reference counts amount to a mailbox in FIFO order that is   *)
(* served by one activity at a time and thrown away only at rest.          *)
ActorSpec == A!Spec

(* A sender is not left waiting: a message of r in the queue of s is       *)
(* handled, or r gets the error that drop_message sends, or r is retired   *)
(* itself.                                                                 *)
Waiting(r, s, n) == \E i \in DOMAIN queue[s] :
  queue[s][i] = [src |-> r, id |-> n, type |-> "text"]

Answered(r, s, n) ==
  \/ \E w \in Workers : cur[w] = s /\ msg[w] = [src |-> r, id |-> n, type |-> "text"]
  \/ \E i \in DOMAIN queue[r] :
       queue[r][i] = [src |-> s, id |-> 0, type |-> "error"]
  \/ r \notin slot

SenderLearns ==
  \A r, s \in Services : \A n \in 1..MaxSend :
    Waiting(r, s, n) ~> Answered(r, s, n)

(* A retired service is reclaimed: its context and its queue are freed,    *)
(* once the callbacks that still run have returned.                        *)
Reclaimed ==
  \A s \in Services :
    (ctx[s] = "live" /\ s \notin slot)
      ~> (ctx[s] = "freed" /\ qmem[s] = "freed")
=============================================================================
