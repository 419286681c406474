---------------------------- MODULE KernelProofs ----------------------------
(***************************************************************************)
(* Proofs of the safety properties of Kernel, for any finite sets of       *)
(* services, workers and feeders, any weights and any number of messages.  *)
(*                                                                         *)
(* None of the properties is inductive alone. IInv joins five parts, each  *)
(* of which needs the ones before it:                                      *)
(*   TypeOK, Ctl    what the local variables of a thread hold at each of   *)
(*                  its control states;                                    *)
(*   Refs           the reference count of a context is the number of its  *)
(*                  holders, and a context is deleted after the last one   *)
(*                  is gone, by one thread;                                *)
(*   Places         a queue is in one place, its flags tell which, and its *)
(*                  memory lives as long as anyone can reach it;           *)
(*   TotalExact     G_NODE.total is the number of contexts.                *)
(* Each part has a lemma for Init and one for a step, which goes through   *)
(* the actions one by one; most actions are instances of a few lemmas that *)
(* say how a reference is taken, moved or given up, and how a queue enters *)
(* or leaves the global queue. The last part shows that Kernel implements  *)
(* Actor: ActivityKnown says what the CHOOSE in Activity picks, and        *)
(* ActorStep maps the actions one by one.                                  *)
(***************************************************************************)
EXTENDS Kernel, FiniteSetTheorems, TLAPS

(* The control states of a worker in a turn of a service, and outside one. *)
InTurn == {"first", "length", "callback", "more", "rotate", "pushback"}

(* What the local variables of a thread hold at each control state.        *)
WorkerCtl(w) ==
  /\ wpc[w] \in InTurn => hand[w] # None /\ cur[w] = hand[w]
  /\ wpc[w] = "release" => cur[w] # None
  /\ wpc[w] \in {"loop", "mqrelease", "drop"} => cur[w] = None
  /\ wpc[w] \in {"mqrelease", "drop"} => hand[w] # None
  /\ nxt[w] # None <=> wpc[w] = "pushback"
  /\ msg[w] # None <=> wpc[w] \in {"length", "callback"}
  /\ wpc[w] = "length" => Weight[w] >= 0
  /\ opsvc[w] # None <=> oppc[w] # "none"
  /\ oppc[w] # "none" => wpc[w] = "callback"

ThreadCtl(t) ==
  /\ iosvc[t] # None <=> iopc[t] # "idle"
  /\ iopc[t] \in {"grab", "push"} => iomsg[t] # None

Ctl == (\A w \in Workers : WorkerCtl(w)) /\ (\A t \in Threads : ThreadCtl(t))

(* A shifted queue length is a natural number.                             *)
LEMMA ShiftType ==
  ASSUME NEW n \in Nat, NEW k \in 0..3
  PROVE  shift_right(n, k) \in Nat
<1>1. <<1, 2, 4, 8>>[k + 1] \in Nat \ {0}
  OBVIOUS
<1> QED BY <1>1 DEF shift_right

(* The initial state is well typed and every thread is at the start of its *)
(* loop with empty hands.                                                  *)
LEMMA InitCtl == Init => TypeOK /\ Ctl
<1> SUFFICES ASSUME Init PROVE TypeOK /\ Ctl
  OBVIOUS
<1> USE KernelAssumption, NoneAssumption DEF Init
<1>1. [src |-> Root, id |-> 0, type |-> "text"] \in Message
  BY DEF Message
<1>2. TypeOK
  BY <1>1 DEF TypeOK, Memory, Threads
<1>3. Ctl
  BY DEF Ctl, WorkerCtl, ThreadCtl, InTurn, Threads
<1> QED BY <1>2, <1>3

(* Every action keeps the types, and keeps the local variables of the      *)
(* thread that takes it in line with its control state.                    *)
LEMMA NextCtl ==
  ASSUME TypeOK, Ctl, [Next]_vars
  PROVE  TypeOK' /\ Ctl'
<1> USE KernelAssumption, NoneAssumption
        DEF TypeOK, Memory, Ctl, WorkerCtl, ThreadCtl, InTurn, Threads, ctxVars,
            mqVars, loopVars, opVars, ioVars, At, InService
<1>1. ASSUME NEW t \in Threads, MqPush(t) PROVE TypeOK' /\ Ctl'
  <2>1. iosvc[t] \in Services /\ iosvc[t] # None /\ iomsg[t] \in Message
    BY <1>1 DEF MqPush
  <2>2. CASE in_global[iosvc[t]]
    <3>1. /\ Q' = Q
          /\ queue' = [queue EXCEPT ![iosvc[t]] = Append(queue[iosvc[t]], iomsg[t])]
          /\ in_global' = [in_global EXCEPT ![iosvc[t]] = TRUE]
          /\ iopc' = [iopc EXCEPT ![t] = "unref"]
          /\ iomsg' = [iomsg EXCEPT ![t] = None]
          /\ UNCHANGED <<ctxVars, qmem, release, loopVars, opVars, iosvc, sent>>
      BY <1>1, <2>2 DEF MqPush, schedule, globalmq_push
    <3>2. TypeOK'
      BY <3>1, <2>1
    <3>3. Ctl'
      BY <3>1, <2>1
    <3> QED BY <3>2, <3>3
  <2>3. CASE ~ in_global[iosvc[t]]
    <3>1. /\ Q' = Append(Q, iosvc[t])
          /\ queue' = [queue EXCEPT ![iosvc[t]] = Append(queue[iosvc[t]], iomsg[t])]
          /\ in_global' = [in_global EXCEPT ![iosvc[t]] = TRUE]
          /\ iopc' = [iopc EXCEPT ![t] = "unref"]
          /\ iomsg' = [iomsg EXCEPT ![t] = None]
          /\ UNCHANGED <<ctxVars, qmem, release, loopVars, opVars, iosvc, sent>>
      BY <1>1, <2>3 DEF MqPush, schedule, globalmq_push
    <3>2. TypeOK'
      BY <3>1, <2>1
    <3>3. Ctl'
      BY <3>1, <2>1
    <3> QED BY <3>2, <3>3
  <2> QED BY <2>2, <2>3
<1>2. ASSUME NEW t \in Threads, Unref(t) PROVE TypeOK' /\ Ctl'
  BY <1>2 DEF Unref, context_release
<1>3. ASSUME NEW t \in Threads, MarkRelease(t) PROVE TypeOK' /\ Ctl'
  <2>1. iosvc[t] \in Services /\ iosvc[t] # None
    BY <1>3 DEF MarkRelease
  <2>2. CASE in_global[iosvc[t]]
    <3>1. /\ Q' = Q
          /\ release' = [release EXCEPT ![iosvc[t]] = TRUE]
          /\ iopc' = [iopc EXCEPT ![t] = "free"]
          /\ UNCHANGED <<ctxVars, queue, qmem, in_global, loopVars, opVars, iosvc,
                          iomsg, sent>>
      BY <1>3, <2>2 DEF MarkRelease, schedule, globalmq_push
    <3>2. TypeOK'
      BY <3>1, <2>1
    <3>3. Ctl'
      BY <3>1, <2>1
    <3> QED BY <3>2, <3>3
  <2>3. CASE ~ in_global[iosvc[t]]
    <3>1. /\ Q' = Append(Q, iosvc[t])
          /\ release' = [release EXCEPT ![iosvc[t]] = TRUE]
          /\ iopc' = [iopc EXCEPT ![t] = "free"]
          /\ UNCHANGED <<ctxVars, queue, qmem, in_global, loopVars, opVars, iosvc,
                          iomsg, sent>>
      BY <1>3, <2>3 DEF MarkRelease, schedule, globalmq_push
    <3>2. TypeOK'
      BY <3>1, <2>1
    <3>3. Ctl'
      BY <3>1, <2>1
    <3> QED BY <3>2, <3>3
  <2> QED BY <2>2, <2>3
<1>4. ASSUME NEW t \in Threads, FreeContext(t) PROVE TypeOK' /\ Ctl'
  BY <1>4 DEF FreeContext, context_dec
<1>5. ASSUME NEW t \in Threads, SendGrab(t) PROVE TypeOK' /\ Ctl'
  <2>1. iosvc[t] \in Services /\ iosvc[t] # None /\ iomsg[t] # None
    BY <1>5 DEF SendGrab
  <2>2. CASE iosvc[t] \in slot
    <3>1. /\ ref' = [ref EXCEPT ![iosvc[t]] = ref[iosvc[t]] + 1]
          /\ iopc' = [iopc EXCEPT ![t] = "push"]
          /\ UNCHANGED <<slot, ctx, init, total, mqVars, loopVars, opVars, sent,
                          iosvc, iomsg>>
      BY <1>5, <2>2 DEF SendGrab, handle_grab
    <3>2. TypeOK'
      BY <3>1, <2>1
    <3>3. Ctl'
      BY <3>1, <2>1
    <3> QED BY <3>2, <3>3
  <2>3. CASE iosvc[t] \notin slot
    <3>1. /\ iopc' = [iopc EXCEPT ![t] = "idle"]
          /\ iosvc' = [iosvc EXCEPT ![t] = None]
          /\ iomsg' = [iomsg EXCEPT ![t] = None]
          /\ UNCHANGED <<slot, ctx, ref, init, total, mqVars, loopVars, opVars,
                          sent>>
      BY <1>5, <2>3 DEF SendGrab, handle_grab
    <3>2. TypeOK'
      BY <3>1, <2>1
    <3>3. Ctl'
      BY <3>1, <2>1
    <3> QED BY <3>2, <3>3
  <2> QED BY <2>2, <2>3
<1>6. ASSUME NEW t \in Threads, NEW s \in Services, Send(t, s)
     PROVE  TypeOK' /\ Ctl'
  <2>1. [src |-> Sender(t), id |-> sent + 1, type |-> "text"] \in Message
    BY <1>6 DEF Send, Sender, Message
  <2> QED BY <1>6, <2>1 DEF Send, handle_grab
<1>7. ASSUME NEW w \in Workers, NEW s \in Services, Retire(w, s)
     PROVE  TypeOK' /\ Ctl'
  BY <1>7 DEF Retire
<1>8. ASSUME NEW w \in Workers, NEW s \in Services, LaunchRegister(w, s)
     PROVE  TypeOK' /\ Ctl'
  BY <1>8 DEF LaunchRegister, context_inc, created_in_global, created_ref
<1>9. ASSUME NEW w \in Workers, LaunchOk(w) PROVE TypeOK' /\ Ctl'
  BY <1>9 DEF LaunchOk, context_release
<1>10. ASSUME NEW w \in Workers, LaunchSetInit(w) PROVE TypeOK' /\ Ctl'
  BY <1>10 DEF LaunchSetInit
<1>11. ASSUME NEW w \in Workers, LaunchPost(w) PROVE TypeOK' /\ Ctl'
  BY <1>11 DEF LaunchPost, globalmq_push
<1>12. ASSUME NEW w \in Workers, LaunchFail(w) PROVE TypeOK' /\ Ctl'
  BY <1>12 DEF LaunchFail, context_release
<1>13. ASSUME NEW w \in Workers, LaunchRetire(w) PROVE TypeOK' /\ Ctl'
  <2>1. opsvc[w] \in Services /\ opsvc[w] # None /\ wpc[w] = "callback" /\ w \in Threads
    BY <1>13 DEF LaunchRetire
  <2>2. CASE opsvc[w] \in slot
    <3>1. /\ slot' = slot \ {opsvc[w]}
          /\ iopc' = [iopc EXCEPT ![w] = "unref"]
          /\ iosvc' = [iosvc EXCEPT ![w] = opsvc[w]]
          /\ oppc' = [oppc EXCEPT ![w] = "mqrelease"]
          /\ UNCHANGED <<ctx, ref, init, total, mqVars, loopVars, opsvc, iomsg, sent>>
      BY <1>13, <2>2 DEF LaunchRetire
    <3>2. TypeOK'
      BY <3>1, <2>1
    <3>3. Ctl'
      BY <3>1, <2>1
    <3> QED BY <3>2, <3>3
  <2>3. CASE opsvc[w] \notin slot
    <3>1. /\ slot' = slot \ {opsvc[w]}
          /\ oppc' = [oppc EXCEPT ![w] = "mqrelease"]
          /\ UNCHANGED <<ctx, ref, init, total, mqVars, loopVars, opsvc, ioVars, sent>>
      BY <1>13, <2>3 DEF LaunchRetire
    <3>2. TypeOK'
      BY <3>1, <2>1
    <3>3. Ctl'
      BY <3>1, <2>1
    <3> QED BY <3>2, <3>3
  <2> QED BY <2>2, <2>3
<1>14. ASSUME NEW w \in Workers, LaunchMqRelease(w) PROVE TypeOK' /\ Ctl'
  <2>1. opsvc[w] \in Services /\ opsvc[w] # None /\ wpc[w] = "callback"
    BY <1>14 DEF LaunchMqRelease
  <2>2. CASE drainable(opsvc[w])
    <3>1. /\ oppc' = [oppc EXCEPT ![w] = "drop"]
          /\ UNCHANGED <<ctxVars, mqVars, loopVars, opsvc, ioVars, sent>>
      BY <1>14, <2>2 DEF LaunchMqRelease, putback, globalmq_push
    <3>2. TypeOK'
      BY <3>1, <2>1
    <3>3. Ctl'
      BY <3>1, <2>1
    <3> QED BY <3>2, <3>3
  <2>3. CASE ~ drainable(opsvc[w])
    <3>1. /\ Q' = Append(Q, opsvc[w])
          /\ oppc' = [oppc EXCEPT ![w] = "none"]
          /\ opsvc' = [opsvc EXCEPT ![w] = None]
          /\ UNCHANGED <<ctxVars, queue, qmem, in_global, release, loopVars, ioVars,
                          sent>>
      BY <1>14, <2>3 DEF LaunchMqRelease, putback, globalmq_push
    <3>2. TypeOK'
      BY <3>1, <2>1
    <3>3. Ctl'
      BY <3>1, <2>1
    <3> QED BY <3>2, <3>3
  <2> QED BY <2>2, <2>3
<1>15. ASSUME NEW w \in Workers, LaunchDrop(w) PROVE TypeOK' /\ Ctl'
  <2>1. opsvc[w] \in Services /\ w \in Threads
    BY <1>15 DEF LaunchDrop
  <2>2. Head(queue[opsvc[w]]) \in Message /\ Tail(queue[opsvc[w]]) \in Seq(Message)
    BY <1>15, <2>1 DEF LaunchDrop, DropMessage
  <2>3. /\ Head(queue[opsvc[w]]).src # None => Head(queue[opsvc[w]]).src \in Services
        /\ [src |-> opsvc[w], id |-> 0,
            type |-> "error"] \in Message \ {None}
    BY <2>1, <2>2 DEF Message
  <2>4. CASE Head(queue[opsvc[w]]).src = None
    <3>1. /\ queue' = [queue EXCEPT ![opsvc[w]] = Tail(queue[opsvc[w]])]
          /\ UNCHANGED <<ctxVars, qmem, in_global, release, Q, loopVars, opVars, sent,
                          ioVars>>
      BY <1>15, <2>4 DEF LaunchDrop, DropMessage, report
    <3>2. TypeOK'
      BY <3>1, <2>1, <2>2, <2>3
    <3>3. Ctl'
      BY <3>1, <2>1, <2>2, <2>3
    <3> QED BY <3>2, <3>3
  <2>5. CASE Head(queue[opsvc[w]]).src # None
    <3>1. /\ queue' = [queue EXCEPT ![opsvc[w]] = Tail(queue[opsvc[w]])]
          /\ Head(queue[opsvc[w]]).src # None
          /\ iopc' = [iopc EXCEPT ![w] = "grab"]
          /\ iosvc' = [iosvc EXCEPT ![w] = Head(queue[opsvc[w]]).src]
          /\ iomsg' = [iomsg EXCEPT ![w] =
                          [src |-> opsvc[w], id |-> 0,
                           type |-> "error"]]
          /\ UNCHANGED <<ctxVars, qmem, in_global, release, Q, loopVars, opVars, sent>>
      BY <1>15, <2>5 DEF LaunchDrop, DropMessage, report
    <3>2. TypeOK'
      BY <3>1, <2>1, <2>2, <2>3
    <3>3. Ctl'
      BY <3>1, <2>1, <2>2, <2>3
    <3> QED BY <3>2, <3>3
  <2> QED BY <2>4, <2>5
<1>16. ASSUME NEW w \in Workers, LaunchDropEnd(w) PROVE TypeOK' /\ Ctl'
  BY <1>16 DEF LaunchDropEnd, ReleaseQueue, unschedule
<1>17. ASSUME NEW w \in Workers, TakeQueue(w) PROVE TypeOK' /\ Ctl'
  BY <1>17 DEF TakeQueue
<1>18. ASSUME NEW w \in Workers, Grab(w) PROVE TypeOK' /\ Ctl'
  <2>1. hand[w] \in Services /\ hand[w] # None /\ wpc[w] = "loop"
    BY <1>18 DEF Grab
  <2>2. CASE hand[w] \in slot
    <3>1. /\ ref' = [ref EXCEPT ![hand[w]] = ref[hand[w]] + 1]
          /\ cur' = [cur EXCEPT ![w] = hand[w]]
          /\ wpc' = [wpc EXCEPT ![w] = "first"]
          /\ UNCHANGED <<slot, ctx, init, total, mqVars, hand, nxt, msg, left, opVars,
                          ioVars, sent>>
      BY <1>18, <2>2 DEF Grab, handle_grab
    <3>2. TypeOK'
      BY <3>1, <2>1
    <3>3. Ctl'
      BY <3>1, <2>1
    <3> QED BY <3>2, <3>3
  <2>3. CASE hand[w] \notin slot
    <3>1. /\ wpc' = [wpc EXCEPT ![w] = "mqrelease"]
          /\ UNCHANGED <<ctxVars, mqVars, hand, cur, nxt, msg, left, opVars, ioVars, sent>>
      BY <1>18, <2>3 DEF Grab, handle_grab
    <3>2. TypeOK'
      BY <3>1, <2>1
    <3>3. Ctl'
      BY <3>1, <2>1
    <3> QED BY <3>2, <3>3
  <2> QED BY <2>2, <2>3
<1>19. ASSUME NEW w \in Workers, MqRelease(w) PROVE TypeOK' /\ Ctl'
  <2>1. hand[w] \in Services /\ hand[w] # None /\ wpc[w] = "mqrelease"
    BY <1>19 DEF MqRelease
  <2>2. CASE drainable(hand[w])
    <3>1. /\ wpc' = [wpc EXCEPT ![w] = "drop"]
          /\ UNCHANGED <<ctxVars, mqVars, hand, cur, nxt, msg, left, opVars, ioVars, sent>>
      BY <1>19, <2>2 DEF MqRelease, putback, globalmq_push
    <3>2. TypeOK'
      BY <3>1, <2>1
    <3>3. Ctl'
      BY <3>1, <2>1
    <3> QED BY <3>2, <3>3
  <2>3. CASE ~ drainable(hand[w])
    <3>1. /\ Q' = Append(Q, hand[w])
          /\ hand' = [hand EXCEPT ![w] = None]
          /\ wpc' = [wpc EXCEPT ![w] = "loop"]
          /\ UNCHANGED <<ctxVars, queue, qmem, in_global, release, cur, nxt, msg, left,
                          opVars, ioVars, sent>>
      BY <1>19, <2>3 DEF MqRelease, putback, globalmq_push
    <3>2. TypeOK'
      BY <3>1, <2>1
    <3>3. Ctl'
      BY <3>1, <2>1
    <3> QED BY <3>2, <3>3
  <2> QED BY <2>2, <2>3
<1>20. ASSUME NEW w \in Workers, Drop(w) PROVE TypeOK' /\ Ctl'
  <2>1. hand[w] \in Services /\ w \in Threads
    BY <1>20 DEF Drop
  <2>2. Head(queue[hand[w]]) \in Message /\ Tail(queue[hand[w]]) \in Seq(Message)
    BY <1>20, <2>1 DEF Drop, DropMessage
  <2>3. /\ Head(queue[hand[w]]).src # None => Head(queue[hand[w]]).src \in Services
        /\ [src |-> hand[w], id |-> 0,
            type |-> "error"] \in Message \ {None}
    BY <2>1, <2>2 DEF Message
  <2>4. CASE Head(queue[hand[w]]).src = None
    <3>1. /\ queue' = [queue EXCEPT ![hand[w]] = Tail(queue[hand[w]])]
          /\ UNCHANGED <<ctxVars, qmem, in_global, release, Q, loopVars, opVars, sent,
                          ioVars>>
      BY <1>20, <2>4 DEF Drop, DropMessage, report
    <3>2. TypeOK'
      BY <3>1, <2>1, <2>2, <2>3
    <3>3. Ctl'
      BY <3>1, <2>1, <2>2, <2>3
    <3> QED BY <3>2, <3>3
  <2>5. CASE Head(queue[hand[w]]).src # None
    <3>1. /\ queue' = [queue EXCEPT ![hand[w]] = Tail(queue[hand[w]])]
          /\ Head(queue[hand[w]]).src # None
          /\ iopc' = [iopc EXCEPT ![w] = "grab"]
          /\ iosvc' = [iosvc EXCEPT ![w] = Head(queue[hand[w]]).src]
          /\ iomsg' = [iomsg EXCEPT ![w] =
                          [src |-> hand[w], id |-> 0,
                           type |-> "error"]]
          /\ UNCHANGED <<ctxVars, qmem, in_global, release, Q, loopVars, opVars, sent>>
      BY <1>20, <2>5 DEF Drop, DropMessage, report
    <3>2. TypeOK'
      BY <3>1, <2>1, <2>2, <2>3
    <3>3. Ctl'
      BY <3>1, <2>1, <2>2, <2>3
    <3> QED BY <3>2, <3>3
  <2> QED BY <2>4, <2>5
<1>21. ASSUME NEW w \in Workers, DropEnd(w) PROVE TypeOK' /\ Ctl'
  BY <1>21 DEF DropEnd, ReleaseQueue, unschedule
<1>22. ASSUME NEW w \in Workers, PopMessage(w) PROVE TypeOK' /\ Ctl'
  BY <1>22 DEF PopMessage
<1>23. ASSUME NEW w \in Workers, QueueLength(w) PROVE TypeOK' /\ Ctl'
  <2>0. Len(queue[hand[w]]) \in Nat /\ Weight[w] \in 0..3
    BY <1>23 DEF QueueLength
  <2>1. shift_right(Len(queue[hand[w]]), Weight[w]) \in Nat
    BY <2>0, ShiftType
  <2>2. more_turns(shift_right(Len(queue[hand[w]]), Weight[w])) \in Nat
    BY <2>1 DEF more_turns
  <2> QED BY <1>23, <2>2 DEF QueueLength
<1>24. ASSUME NEW w \in Workers, PopEmpty(w) PROVE TypeOK' /\ Ctl'
  BY <1>24 DEF PopEmpty, unschedule
<1>25. ASSUME NEW w \in Workers, CallbackEnd(w) PROVE TypeOK' /\ Ctl'
  BY <1>25 DEF CallbackEnd
<1>26. ASSUME NEW w \in Workers, Rotate(w) PROVE TypeOK' /\ Ctl'
  <2>1. wpc[w] = "rotate"
    BY <1>26 DEF Rotate
  <2>2. CASE Q = << >>
    <3>1. /\ wpc' = [wpc EXCEPT ![w] = "release"]
          /\ UNCHANGED <<ctxVars, mqVars, hand, cur, nxt, msg, left, opVars, ioVars, sent>>
      BY <1>26, <2>2 DEF Rotate
    <3>2. TypeOK'
      BY <3>1, <2>1
    <3>3. Ctl'
      BY <3>1, <2>1
    <3> QED BY <3>2, <3>3
  <2>3. CASE Q # << >>
    <3>1. /\ nxt' = [nxt EXCEPT ![w] = Head(Q)]
          /\ Q' = Tail(Q)
          /\ wpc' = [wpc EXCEPT ![w] = "pushback"]
          /\ Head(Q) \in Services /\ Tail(Q) \in Seq(Services)
          /\ UNCHANGED <<ctxVars, queue, qmem, in_global, release, hand, cur, msg, left,
                          opVars, ioVars, sent>>
      BY <1>26, <2>3 DEF Rotate
    <3>2. TypeOK'
      BY <3>1, <2>1
    <3>3. Ctl'
      BY <3>1, <2>1
    <3> QED BY <3>2, <3>3
  <2> QED BY <2>2, <2>3
<1>27. ASSUME NEW w \in Workers, PushBack(w) PROVE TypeOK' /\ Ctl'
  BY <1>27 DEF PushBack, globalmq_push
<1>28. ASSUME NEW w \in Workers, EndTurn(w) PROVE TypeOK' /\ Ctl'
  BY <1>28 DEF EndTurn, context_release
<1>29. CASE UNCHANGED vars
  BY <1>29 DEF vars
<1> QED
  BY <1>1, <1>2, <1>3, <1>4, <1>5, <1>6, <1>7, <1>8, <1>9, <1>10, <1>11,
     <1>12, <1>13, <1>14, <1>15, <1>16, <1>17, <1>18, <1>19, <1>20, <1>21,
     <1>22, <1>23, <1>24, <1>25, <1>26, <1>27, <1>28, <1>29
     DEF Next, Context, Launch, Dispatch, Service

-----------------------------------------------------------------------------
(* Reference counts. RefExact is inductive together with what it means for *)
(* a context to be on its way out: nobody holds it, and one thread only    *)
(* deletes it.                                                             *)
Deleting(t) == iopc[t] \in {"mark", "free"}

Refs ==
  /\ RefExact
  /\ \A s \in Services : ctx[s] # "live" \/ release[s] => Holders(s) = {}
  /\ \A s \in Services : ctx[s] = "none" => ~ release[s]
  /\ \A t \in Threads : Deleting(t) =>
       /\ Holders(iosvc[t]) = {}
       /\ ctx[iosvc[t]] = "live"
       /\ release[iosvc[t]] <=> iopc[t] = "free"
  /\ \A t, u \in Threads :
       t # u /\ Deleting(t) /\ Deleting(u) => iosvc[t] # iosvc[u]

(* The set that RefExact counts is finite.                                 *)
LEMMA HoldersFinite ==
  ASSUME NEW s
  PROVE  IsFiniteSet(Holders(s)) /\ Cardinality(Holders(s)) \in Nat
<1>1. IsFiniteSet(Workers) /\ IsFiniteSet(Threads)
  BY KernelAssumption, FS_Union DEF Threads
<1>2. IsFiniteSet({"cur", "op"}) /\ IsFiniteSet({"io"})
  <2>1. {"cur", "op"} = {"cur"} \cup {"op"}
    OBVIOUS
  <2>2. IsFiniteSet({"cur"}) /\ IsFiniteSet({"op"}) /\ IsFiniteSet({"io"})
    BY FS_Singleton
  <2> QED BY <2>1, <2>2, FS_Union
<1>3. IsFiniteSet({"cur", "op"} \X Workers) /\ IsFiniteSet({"io"} \X Threads)
  BY <1>1, <1>2, FS_Product
<1>4. IsFiniteSet(Tokens)
  BY <1>3, FS_Union, FS_Singleton DEF Tokens
<1>5. Holders(s) \subseteq Tokens
  BY DEF Holders
<1> QED BY <1>4, <1>5, FS_Subset, FS_CardinalityType

(* The same in the next state.                                             *)
LEMMA HoldersFinitePrime ==
  ASSUME NEW s \in Services
  PROVE  IsFiniteSet(Holders(s)')
<1>1. IsFiniteSet(Holders(s))'
  BY HoldersFinite, PTL
<1> QED BY <1>1

(* A step that moves no reference.                                         *)
LEMMA SameRefs ==
  ASSUME TypeOK, Refs, UNCHANGED <<ctx, ref, release>>,
         \A s \in Services : Holders(s)' = Holders(s),
         \A t \in Threads : Deleting(t)' =>
           iopc'[t] = iopc[t] /\ iosvc'[t] = iosvc[t] /\ iosvc[t] \in Services
  PROVE  Refs'
<1>1. RefExact'
  BY DEF Refs, RefExact
<1>2. \A t \in Threads : Deleting(t)' => Deleting(t)
  BY DEF Deleting
<1> QED BY <1>1, <1>2 DEF Refs

(* A step that adds the holder k of a context that somebody holds.         *)
LEMMA GrabRefs ==
  ASSUME TypeOK, Refs, NEW s \in Services, NEW k, k \notin Holders(s),
         Holders(s) # {}, handle_grab(s), UNCHANGED <<ctx, release>>,
         \A x \in Services :
           Holders(x)' = IF x = s THEN Holders(x) \cup {k} ELSE Holders(x),
         \A t \in Threads : Deleting(t)' =>
           iopc'[t] = iopc[t] /\ iosvc'[t] = iosvc[t] /\ iosvc[t] \in Services
  PROVE  Refs'
<1>1. Cardinality(Holders(s) \cup {k}) = Cardinality(Holders(s)) + 1
  BY HoldersFinite, FS_AddElement
<1>2. RefExact'
  <2> SUFFICES ASSUME NEW x \in Services
               PROVE  ref'[x] = Cardinality(Holders(x)')
    BY DEF RefExact
  <2>1. ref[x] = Cardinality(Holders(x)) /\ ref[x] \in Int
    BY DEF Refs, RefExact, TypeOK
  <2>2. ref'[x] = IF x = s THEN ref[x] + 1 ELSE ref[x]
    BY DEF handle_grab, TypeOK
  <2> QED BY <1>1, <2>1, <2>2
<1>3. \A t \in Threads : Deleting(t)' => Deleting(t)
  BY DEF Deleting
<1>4. ctx[s] = "live" /\ ~ release[s]
  BY DEF Refs
<1>5. \A t \in Threads : Deleting(t) => iosvc[t] # s
  BY DEF Refs
<1> QED BY <1>2, <1>3, <1>4, <1>5 DEF Refs

(* skynet_context_release by thread t, which gives up the holder k of s.   *)
LEMMA ReleaseRefs ==
  ASSUME TypeOK, Refs, NEW t \in Threads, NEW s \in Services,
         NEW k \in Holders(s), ~ Deleting(t),
         context_release(t, s), UNCHANGED <<ctx, release>>,
         \A x \in Services :
           Holders(x)' = IF x = s THEN Holders(x) \ {k} ELSE Holders(x),
         \A u \in Threads : Deleting(u) => iosvc[u] \in Services
  PROVE  /\ Refs'
         /\ ref[s] = 1 => Holders(s)' = {}
<1>1. /\ IsFiniteSet(Holders(s)) /\ IsFiniteSet(Holders(s) \ {k})
      /\ Cardinality(Holders(s) \ {k}) = Cardinality(Holders(s)) - 1
  BY HoldersFinite, FS_RemoveElement
<1>2. RefExact'
  <2> SUFFICES ASSUME NEW x \in Services
               PROVE  ref'[x] = Cardinality(Holders(x)')
    BY DEF RefExact
  <2>1. ref[x] = Cardinality(Holders(x)) /\ ref[x] \in Int
    BY DEF Refs, RefExact, TypeOK
  <2>2. ref'[x] = IF x = s THEN ref[x] - 1 ELSE ref[x]
    BY DEF context_release, TypeOK
  <2> QED BY <1>1, <2>1, <2>2
<1>3. ref[s] = 1 => Holders(s)' = {}
  BY <1>1, FS_EmptySet DEF Refs, RefExact
<1>4. ctx[s] = "live" /\ ~ release[s]
  BY DEF Refs
<1>5. \A u \in Threads : Deleting(u)' =>
        \/ u # t /\ iopc'[u] = iopc[u] /\ iosvc'[u] = iosvc[u] /\ Deleting(u)
        \/ u = t /\ ref[s] = 1 /\ iopc'[u] = "mark" /\ iosvc'[u] = s
  BY DEF TypeOK, Deleting, context_release
<1>6. \A u \in Threads : Deleting(u) => iosvc[u] # s
  BY DEF Refs
<1> QED BY <1>2, <1>3, <1>4, <1>5, <1>6 DEF Refs

(* Replacing an element of a finite set does not change its size.          *)
LEMMA SwapCardinality ==
  ASSUME NEW S, IsFiniteSet(S), NEW a \in S, NEW b, b \notin S
  PROVE  Cardinality((S \ {a}) \cup {b}) = Cardinality(S)
<1>1. /\ IsFiniteSet(S \ {a}) /\ Cardinality(S \ {a}) = Cardinality(S) - 1
      /\ Cardinality(S) \in Nat
  BY FS_RemoveElement, FS_CardinalityType
<1>2. Cardinality((S \ {a}) \cup {b}) = Cardinality(S \ {a}) + 1
  <2>1. b \notin S \ {a}
    OBVIOUS
  <2> QED BY <1>1, <2>1, FS_AddElement
<1> QED BY <1>1, <1>2

(* The two references of a new context, the table's and its launcher's.    *)
LEMMA PairCardinality ==
  ASSUME NEW a, NEW b, a # b
  PROVE  Cardinality({a, b}) = 2
<1>1. IsFiniteSet({a}) /\ Cardinality({a}) = 1 /\ b \notin {a}
  BY FS_Singleton
<1>2. Cardinality({a} \cup {b}) = 2
  BY <1>1, FS_AddElement
<1>3. {a, b} = {a} \cup {b}
  OBVIOUS
<1> QED BY <1>2, <1>3

(* Retiring a handle moves the reference of the table to the thread.       *)
LEMMA MoveRefs ==
  ASSUME TypeOK, Ctl, Refs, NEW w \in Threads, NEW s \in Services,
         iopc[w] = "idle", s \in slot, slot' = slot \ {s},
         iopc' = [iopc EXCEPT ![w] = "unref"],
         iosvc' = [iosvc EXCEPT ![w] = s],
         UNCHANGED <<ctx, ref, release, cur, opsvc>>,
         \A v \in Workers : oppc'[v] = "init" <=> oppc[v] = "init"
  PROVE  Refs'
<1> DEFINE a == <<"slot", None>>
           b == <<"io", w>>
<1>1. \A x \in Services : Holders(x)' =
        IF x = s THEN (Holders(x) \ {a}) \cup {b} ELSE Holders(x)
  BY DEF TypeOK, Holders, Holds, Tokens
<1>2. a \in Holders(s) /\ b \notin Holders(s) /\ b \notin Holders(s) \ {a}
  BY DEF Holders, Holds, Tokens
<1>3. Cardinality((Holders(s) \ {a}) \cup {b}) = Cardinality(Holders(s))
  BY <1>2, HoldersFinite, SwapCardinality
<1>4. RefExact'
  BY <1>1, <1>3 DEF Refs, RefExact
<1>5. ctx[s] = "live" /\ ~ release[s]
  BY <1>2 DEF Refs
<1>6. \A u \in Threads : Deleting(u)' =>
        /\ u # w /\ Deleting(u) /\ iosvc[u] # s /\ iosvc[u] \in Services
        /\ iopc'[u] = iopc[u] /\ iosvc'[u] = iosvc[u]
  BY <1>2 DEF TypeOK, Ctl, ThreadCtl, Refs, Deleting
<1> QED BY <1>1, <1>4, <1>5, <1>6 DEF Refs

(* Initially the root service has the reference of the table, and no other *)
(* context exists.                                                         *)
LEMMA InitRefs == Init => Refs
<1> SUFFICES ASSUME Init PROVE Refs
  OBVIOUS
<1> USE KernelAssumption DEF Init
<1>1. /\ Holders(Root) = {<<"slot", None>>}
      /\ \A s \in Services \ {Root} : Holders(s) = {}
  BY DEF Holders, Holds, Tokens, Threads
<1>2. RefExact
  BY <1>1, FS_Singleton, FS_EmptySet DEF RefExact
<1> QED BY <1>1, <1>2 DEF Refs, Deleting, Threads

(* Every action keeps the counts exact and the deletes apart.              *)
LEMMA NextRefs ==
  ASSUME TypeOK, Ctl, Refs, [Next]_vars
  PROVE  Refs'
<1> USE KernelAssumption, NoneAssumption
<1> DEFINE Unmoved == \A t \in Threads : Deleting(t)' =>
             iopc'[t] = iopc[t] /\ iosvc'[t] = iosvc[t] /\ iosvc[t] \in Services
<1>0. \A t \in Threads : Deleting(t) => iosvc[t] \in Services
  BY DEF TypeOK, Ctl, ThreadCtl, Deleting, Threads
<1>a. \A w \in Workers : w \in Threads
  BY DEF Threads
<1>b. ASSUME UNCHANGED <<slot, ctx, ref, release, cur, opsvc, oppc, iopc, iosvc>>
      PROVE  Refs'
  <2>1. \A x \in Services : Holders(x)' = Holders(x)
    BY <1>b DEF Holders, Holds, Tokens
  <2>2. Unmoved
    BY <1>0, <1>b DEF Deleting
  <2> QED BY <1>b, <2>1, <2>2, SameRefs
<1>1. ASSUME NEW t \in Threads, MqPush(t) PROVE Refs'
  <2>1. /\ iopc[t] = "push" /\ iopc' = [iopc EXCEPT ![t] = "unref"]
        /\ UNCHANGED <<slot, ctx, ref, release, cur, opsvc, oppc, iosvc>>
    BY <1>a, <1>1 DEF MqPush, TypeOK, Ctl, WorkerCtl, ThreadCtl, ctxVars, mqVars,
           opVars, ioVars, loopVars, At
  <2>2. \A x \in Services : Holders(x)' = Holders(x)
    BY <1>a, <2>1 DEF TypeOK, Holders, Holds, Tokens
  <2>3. Unmoved
    BY <1>0, <1>a, <2>1 DEF TypeOK, Deleting
  <2> QED BY <2>1, <2>2, <2>3, SameRefs
<1>2. ASSUME NEW t \in Threads, Unref(t) PROVE Refs'
  <2>1. /\ iopc[t] = "unref" /\ iosvc[t] \in Services /\ ~ Deleting(t)
        /\ context_release(t, iosvc[t])
        /\ UNCHANGED <<slot, ctx, release, cur, opsvc, oppc>>
    BY <1>a, <1>2 DEF Unref, TypeOK, Ctl, WorkerCtl, ThreadCtl, ctxVars, mqVars,
           opVars, ioVars, loopVars, At, Deleting
  <2>2. \A x \in Services : Holders(x)' =
          IF x = iosvc[t] THEN Holders(x) \ {<<"io", t>>} ELSE Holders(x)
    BY <1>a, <2>1 DEF TypeOK, Holders, Holds, Tokens, context_release
  <2>3. <<"io", t>> \in Holders(iosvc[t])
    BY <1>a, <2>1 DEF Holders, Holds, Tokens
  <2> QED BY <1>0, <1>a, <2>1, <2>2, <2>3, ReleaseRefs
<1>3. ASSUME NEW t \in Threads, MarkRelease(t) PROVE Refs'
  <2>1. /\ iopc[t] = "mark" /\ iosvc[t] \in Services
        /\ release' = [release EXCEPT ![iosvc[t]] = TRUE]
        /\ iopc' = [iopc EXCEPT ![t] = "free"]
        /\ UNCHANGED <<slot, ctx, ref, cur, opsvc, oppc, iosvc>>
    BY <1>0, <1>3 DEF MarkRelease, Deleting, ctxVars, loopVars, opVars
  <2>2. \A x \in Services : Holders(x)' = Holders(x)
    BY <2>1 DEF TypeOK, Holders, Holds, Tokens
  <2>3. RefExact'
    BY <2>1, <2>2 DEF Refs, RefExact
  <2>4. \A u \in Threads : Deleting(u)' =>
          /\ Deleting(u) /\ iosvc[u] \in Services
          /\ u # t => iopc'[u] = iopc[u] /\ iosvc[u] # iosvc[t]
    BY <1>0, <2>1 DEF TypeOK, Refs, Deleting
  <2>5. \A x \in Services : release'[x] <=> (release[x] \/ x = iosvc[t])
    BY <2>1 DEF TypeOK
  <2>6. ctx[iosvc[t]] = "live" /\ Holders(iosvc[t]) = {} /\ iopc'[t] = "free"
    BY <2>1 DEF TypeOK, Refs, Deleting
  <2>7. \A x \in Services : ctx'[x] # "live" \/ release'[x] => Holders(x)' = {}
    BY <2>1, <2>2, <2>5, <2>6 DEF Refs
  <2>8. \A u \in Threads : Deleting(u)' =>
          /\ Holders(iosvc[u])' = {}
          /\ ctx'[iosvc'[u]] = "live"
          /\ release'[iosvc'[u]] <=> iopc'[u] = "free"
    BY <2>1, <2>2, <2>4, <2>5, <2>6 DEF Refs
  <2> QED BY <2>1, <2>3, <2>4, <2>5, <2>6, <2>7, <2>8 DEF Refs
<1>4. ASSUME NEW t \in Threads, FreeContext(t) PROVE Refs'
  <2>1. /\ iopc[t] = "free" /\ iosvc[t] \in Services
        /\ ctx' = [ctx EXCEPT ![iosvc[t]] = "freed"]
        /\ iopc' = [iopc EXCEPT ![t] = "idle"]
        /\ iosvc' = [iosvc EXCEPT ![t] = None]
        /\ UNCHANGED <<slot, ref, release, cur, opsvc, oppc>>
    BY <1>0, <1>4 DEF FreeContext, Deleting, mqVars, loopVars, opVars
  <2>2. \A x \in Services : Holders(x)' = Holders(x)
    BY <2>1 DEF TypeOK, Holders, Holds, Tokens
  <2>3. RefExact'
    BY <2>1, <2>2 DEF Refs, RefExact
  <2>4. \A u \in Threads : Deleting(u)' =>
          /\ u # t /\ Deleting(u) /\ iosvc[u] \in Services
          /\ iopc'[u] = iopc[u] /\ iosvc'[u] = iosvc[u] /\ iosvc[u] # iosvc[t]
    BY <1>0, <2>1 DEF TypeOK, Refs, Deleting
  <2>5. \A x \in Services :
          ctx'[x] = IF x = iosvc[t] THEN "freed" ELSE ctx[x]
    BY <2>1 DEF TypeOK
  <2>6. Holders(iosvc[t]) = {}
    BY <2>1 DEF TypeOK, Refs, Deleting
  <2> QED BY <2>1, <2>2, <2>3, <2>4, <2>5, <2>6 DEF Refs
<1>5. ASSUME NEW t \in Threads, SendGrab(t) PROVE Refs'
  <2>1. CASE iosvc[t] \in slot
    <3>1. /\ iopc[t] = "grab" /\ iosvc[t] \in Services /\ iosvc[t] \in slot
          /\ handle_grab(iosvc[t]) /\ iopc' = [iopc EXCEPT ![t] = "push"]
          /\ UNCHANGED <<slot, ctx, release, cur, opsvc, oppc, iosvc>>
      BY <1>a, <1>5, <2>1 DEF SendGrab, TypeOK, Ctl, WorkerCtl, ThreadCtl, ctxVars, mqVars,
             opVars, ioVars, loopVars, At
    <3>2. \A x \in Services : Holders(x)' =
            IF x = iosvc[t] THEN Holders(x) \cup {<<"io", t>>} ELSE Holders(x)
      BY <1>a, <3>1 DEF TypeOK, Holders, Holds, Tokens
    <3>3. <<"io", t>> \notin Holders(iosvc[t]) /\ <<"slot", None>> \in Holders(iosvc[t])
      BY <1>a, <3>1 DEF Holders, Holds, Tokens
    <3>4. Unmoved
      BY <1>0, <1>a, <3>1 DEF TypeOK, Deleting
    <3> QED BY <3>1, <3>2, <3>3, <3>4, GrabRefs
  <2>2. CASE iosvc[t] \notin slot
    <3>1. /\ iopc[t] = "grab" /\ iopc' = [iopc EXCEPT ![t] = "idle"]
          /\ iosvc' = [iosvc EXCEPT ![t] = None]
          /\ UNCHANGED <<slot, ctx, ref, release, cur, opsvc, oppc>>
      BY <1>a, <1>5, <2>2 DEF SendGrab, TypeOK, Ctl, WorkerCtl, ThreadCtl, ctxVars, mqVars,
             opVars, ioVars, loopVars, At
    <3>2. \A x \in Services : Holders(x)' = Holders(x)
      BY <1>a, <3>1 DEF TypeOK, Holders, Holds, Tokens
    <3>3. Unmoved
      BY <1>0, <1>a, <3>1 DEF TypeOK, Deleting
    <3> QED BY <3>1, <3>2, <3>3, SameRefs
  <2> QED BY <2>1, <2>2
<1>6. ASSUME NEW t \in Threads, NEW s \in Services, Send(t, s) PROVE Refs'
  <2>1. /\ iopc[t] = "idle" /\ s \in slot
        /\ handle_grab(s) /\ iopc' = [iopc EXCEPT ![t] = "push"]
        /\ iosvc' = [iosvc EXCEPT ![t] = s]
        /\ UNCHANGED <<slot, ctx, release, cur, opsvc, oppc>>
    BY <1>a, <1>6 DEF Send, TypeOK, Ctl, WorkerCtl, ThreadCtl, ctxVars, mqVars,
           opVars, ioVars, loopVars, At
  <2>2. \A x \in Services : Holders(x)' =
          IF x = s THEN Holders(x) \cup {<<"io", t>>} ELSE Holders(x)
    BY <1>a, <2>1 DEF TypeOK, Holders, Holds, Tokens
  <2>3. <<"io", t>> \notin Holders(s) /\ <<"slot", None>> \in Holders(s)
    BY <1>a, <2>1 DEF Holders, Holds, Tokens
  <2>4. Unmoved
    BY <1>0, <1>a, <2>1 DEF TypeOK, Deleting
  <2> QED BY <2>1, <2>2, <2>3, <2>4, GrabRefs
<1>7. ASSUME NEW w \in Workers, NEW s \in Services, Retire(w, s) PROVE Refs'
  <2>1. /\ iopc[w] = "idle" /\ s \in slot /\ slot' = slot \ {s}
        /\ iopc' = [iopc EXCEPT ![w] = "unref"] /\ iosvc' = [iosvc EXCEPT ![w] = s]
        /\ UNCHANGED <<ctx, ref, release, cur, opsvc>>
        /\ \A v \in Workers : oppc'[v] = "init" <=> oppc[v] = "init"
    BY <1>a, <1>7 DEF Retire, TypeOK, Ctl, WorkerCtl, ThreadCtl, ctxVars, mqVars,
           opVars, ioVars, loopVars, At, InService
  <2> QED BY <1>a, <2>1, MoveRefs
<1>8. ASSUME NEW w \in Workers, NEW s \in Services, LaunchRegister(w, s) PROVE Refs'
  <2>1. /\ opsvc[w] = None /\ ctx[s] = "none" /\ slot' = slot \cup {s}
        /\ ctx' = [ctx EXCEPT ![s] = "live"] /\ ref' = [ref EXCEPT ![s] = 2]
        /\ release' = [release EXCEPT ![s] = FALSE]
        /\ oppc' = [oppc EXCEPT ![w] = "init"]
        /\ opsvc' = [opsvc EXCEPT ![w] = s]
        /\ UNCHANGED <<cur, iopc, iosvc>>
    BY <1>8 DEF LaunchRegister, created_ref, Ctl, WorkerCtl, loopVars, ioVars
  <2>2. Holders(s) = {} /\ s \notin slot
    <3>1. Holders(s) = {}
      BY <2>1 DEF Refs
    <3>2. s \in slot => <<"slot", None>> \in Holders(s)
      BY DEF Holders, Holds, Tokens
    <3> QED BY <3>1, <3>2
  <2>3. \A x \in Services : Holders(x)' =
          IF x = s THEN {<<"slot", None>>, <<"op", w>>} ELSE Holders(x)
    BY <2>1, <2>2 DEF TypeOK, Holders, Holds, Tokens
  <2>4. Cardinality({<<"slot", None>>, <<"op", w>>}) = 2
    BY PairCardinality
  <2>5. RefExact'
    <3> SUFFICES ASSUME NEW x \in Services
                 PROVE  ref'[x] = Cardinality(Holders(x)')
      BY DEF RefExact
    <3>1. ref'[x] = IF x = s THEN 2 ELSE ref[x]
      BY <2>1 DEF TypeOK
    <3>2. ref[x] = Cardinality(Holders(x))
      BY DEF Refs, RefExact
    <3> QED BY <2>3, <2>4, <3>1, <3>2
  <2>6. \A u \in Threads : Deleting(u)' =>
          Deleting(u) /\ iosvc[u] \in Services /\ iosvc[u] # s
    BY <1>0, <2>1 DEF Refs, Deleting
  <2>7. \A x \in Services :
          /\ ctx'[x] = IF x = s THEN "live" ELSE ctx[x]
          /\ release'[x] <=> (x # s /\ release[x])
    BY <2>1 DEF TypeOK
  <2>8. \A x \in Services : ctx'[x] # "live" \/ release'[x] => Holders(x)' = {}
    BY <2>3, <2>7 DEF Refs
  <2>9. \A u \in Threads : Deleting(u)' =>
          /\ Holders(iosvc[u])' = {}
          /\ ctx'[iosvc'[u]] = "live"
          /\ release'[iosvc'[u]] <=> iopc'[u] = "free"
    BY <2>1, <2>3, <2>6, <2>7 DEF Refs
  <2> QED BY <2>1, <2>5, <2>6, <2>7, <2>8, <2>9 DEF Refs
<1>9. ASSUME NEW w \in Workers, LaunchOk(w) PROVE Refs'
  <2>1. /\ oppc[w] = "init" /\ iopc[w] = "idle" /\ opsvc[w] \in Services
        /\ oppc'[w] # "init" /\ \A v \in Workers \ {w} : oppc'[v] = oppc[v]
        /\ ~ Deleting(w) /\ context_release(w, opsvc[w])
        /\ UNCHANGED <<slot, ctx, release, cur, opsvc>>
    BY <1>a, <1>9 DEF LaunchOk, TypeOK, Ctl, WorkerCtl, ThreadCtl, ctxVars, mqVars,
           opVars, ioVars, loopVars, At, Deleting
  <2>2. \A x \in Services : Holders(x)' =
          IF x = opsvc[w] THEN Holders(x) \ {<<"op", w>>} ELSE Holders(x)
    BY <1>a, <2>1 DEF TypeOK, Holders, Holds, Tokens, context_release
  <2>3. <<"op", w>> \in Holders(opsvc[w])
    BY <1>a, <2>1 DEF Holders, Holds, Tokens
  <2> QED BY <1>0, <1>a, <2>1, <2>2, <2>3, ReleaseRefs
<1>10. ASSUME NEW w \in Workers, LaunchFail(w) PROVE Refs'
  <2>1. /\ oppc[w] = "init" /\ iopc[w] = "idle" /\ opsvc[w] \in Services
        /\ oppc'[w] # "init" /\ \A v \in Workers \ {w} : oppc'[v] = oppc[v]
        /\ ~ Deleting(w) /\ context_release(w, opsvc[w])
        /\ UNCHANGED <<slot, ctx, release, cur, opsvc>>
    BY <1>a, <1>10 DEF LaunchFail, TypeOK, Ctl, WorkerCtl, ThreadCtl, ctxVars, mqVars,
           opVars, ioVars, loopVars, At, Deleting
  <2>2. \A x \in Services : Holders(x)' =
          IF x = opsvc[w] THEN Holders(x) \ {<<"op", w>>} ELSE Holders(x)
    BY <1>a, <2>1 DEF TypeOK, Holders, Holds, Tokens, context_release
  <2>3. <<"op", w>> \in Holders(opsvc[w])
    BY <1>a, <2>1 DEF Holders, Holds, Tokens
  <2> QED BY <1>0, <1>a, <2>1, <2>2, <2>3, ReleaseRefs
<1>11. ASSUME NEW w \in Workers, LaunchSetInit(w) PROVE Refs'
  <2>1. /\ oppc[w] = "setinit" /\ oppc' = [oppc EXCEPT ![w] = "post"]
        /\ UNCHANGED <<slot, ctx, ref, release, cur, opsvc, iopc, iosvc>>
    BY <1>a, <1>11 DEF LaunchSetInit, TypeOK, Ctl, WorkerCtl, ThreadCtl, ctxVars, mqVars,
           opVars, ioVars, loopVars, At
  <2>2. \A x \in Services : Holders(x)' = Holders(x)
    BY <1>a, <2>1 DEF TypeOK, Holders, Holds, Tokens
  <2>3. Unmoved
    BY <1>0, <1>a, <2>1 DEF TypeOK, Deleting
  <2> QED BY <2>1, <2>2, <2>3, SameRefs
<1>12. ASSUME NEW w \in Workers, LaunchPost(w) PROVE Refs'
  <2>1. /\ oppc[w] = "post" /\ oppc' = [oppc EXCEPT ![w] = "none"]
        /\ opsvc' = [opsvc EXCEPT ![w] = None]
        /\ UNCHANGED <<slot, ctx, ref, release, cur, iopc, iosvc>>
    BY <1>a, <1>12 DEF LaunchPost, TypeOK, Ctl, WorkerCtl, ThreadCtl, ctxVars, mqVars,
           opVars, ioVars, loopVars, At
  <2>2. \A x \in Services : Holders(x)' = Holders(x)
    BY <1>a, <2>1 DEF TypeOK, Holders, Holds, Tokens
  <2>3. Unmoved
    BY <1>0, <1>a, <2>1 DEF TypeOK, Deleting
  <2> QED BY <2>1, <2>2, <2>3, SameRefs
<1>13. ASSUME NEW w \in Workers, LaunchRetire(w) PROVE Refs'
  <2>1. CASE opsvc[w] \in slot
    <3>1. /\ iopc[w] = "idle" /\ opsvc[w] \in slot /\ slot' = slot \ {opsvc[w]}
          /\ iopc' = [iopc EXCEPT ![w] = "unref"]
          /\ iosvc' = [iosvc EXCEPT ![w] = opsvc[w]]
          /\ UNCHANGED <<ctx, ref, release, cur, opsvc>> /\ opsvc[w] \in Services
          /\ \A v \in Workers : oppc'[v] = "init" <=> oppc[v] = "init"
      BY <1>a, <1>13, <2>1 DEF LaunchRetire, TypeOK, Ctl, WorkerCtl, ThreadCtl, ctxVars, mqVars,
             opVars, ioVars, loopVars, At, InService
    <3> QED BY <1>a, <3>1, MoveRefs
  <2>2. CASE opsvc[w] \notin slot
    <3>1. /\ oppc[w] = "retire" /\ oppc' = [oppc EXCEPT ![w] = "mqrelease"]
          /\ UNCHANGED <<slot, ctx, ref, release, cur, opsvc, iopc, iosvc>>
      BY <1>a, <1>13, <2>2 DEF LaunchRetire, TypeOK, Ctl, WorkerCtl, ThreadCtl, ctxVars, mqVars,
             opVars, ioVars, loopVars, At
    <3>2. \A x \in Services : Holders(x)' = Holders(x)
      BY <1>a, <3>1 DEF TypeOK, Holders, Holds, Tokens
    <3>3. Unmoved
      BY <1>0, <1>a, <3>1 DEF TypeOK, Deleting
    <3> QED BY <3>1, <3>2, <3>3, SameRefs
  <2> QED BY <2>1, <2>2
<1>14. ASSUME NEW w \in Workers, LaunchMqRelease(w) PROVE Refs'
  <2>1. /\ oppc[w] = "mqrelease" /\ oppc'[w] # "init"
        /\ \A v \in Workers \ {w} : oppc'[v] = oppc[v] /\ opsvc'[v] = opsvc[v]
        /\ UNCHANGED <<slot, ctx, ref, release, cur, iopc, iosvc>>
    BY <1>a, <1>14 DEF LaunchMqRelease, TypeOK, Ctl, WorkerCtl, ThreadCtl, ctxVars, mqVars,
           opVars, ioVars, loopVars, At
  <2>2. \A x \in Services : Holders(x)' = Holders(x)
    BY <1>a, <2>1 DEF TypeOK, Holders, Holds, Tokens
  <2>3. Unmoved
    BY <1>0, <1>a, <2>1 DEF TypeOK, Deleting
  <2> QED BY <2>1, <2>2, <2>3, SameRefs
<1>15. ASSUME NEW w \in Workers, LaunchDrop(w) PROVE Refs'
  <2>1. /\ iopc[w] = "idle" /\ iopc'[w] \in {"idle", "grab"}
        /\ \A u \in Threads \ {w} : iopc'[u] = iopc[u] /\ iosvc'[u] = iosvc[u]
        /\ UNCHANGED <<slot, ctx, ref, release, cur, opsvc, oppc>>
    BY <1>a, <1>15 DEF LaunchDrop, DropMessage, report, TypeOK, Ctl, WorkerCtl, ThreadCtl, ctxVars, mqVars,
           opVars, ioVars, loopVars, At
  <2>2. \A x \in Services : Holders(x)' = Holders(x)
    BY <1>a, <2>1 DEF TypeOK, Holders, Holds, Tokens
  <2>3. Unmoved
    BY <1>0, <1>a, <2>1 DEF TypeOK, Deleting
  <2> QED BY <2>1, <2>2, <2>3, SameRefs
<1>16. ASSUME NEW w \in Workers, Drop(w) PROVE Refs'
  <2>1. /\ iopc[w] = "idle" /\ iopc'[w] \in {"idle", "grab"}
        /\ \A u \in Threads \ {w} : iopc'[u] = iopc[u] /\ iosvc'[u] = iosvc[u]
        /\ UNCHANGED <<slot, ctx, ref, release, cur, opsvc, oppc>>
    BY <1>a, <1>16 DEF Drop, DropMessage, report, TypeOK, Ctl, WorkerCtl, ThreadCtl, ctxVars, mqVars,
           opVars, ioVars, loopVars, At
  <2>2. \A x \in Services : Holders(x)' = Holders(x)
    BY <1>a, <2>1 DEF TypeOK, Holders, Holds, Tokens
  <2>3. Unmoved
    BY <1>0, <1>a, <2>1 DEF TypeOK, Deleting
  <2> QED BY <2>1, <2>2, <2>3, SameRefs
<1>17. ASSUME NEW w \in Workers, LaunchDropEnd(w) PROVE Refs'
  <2>1. /\ oppc[w] = "drop" /\ oppc' = [oppc EXCEPT ![w] = "none"]
        /\ opsvc' = [opsvc EXCEPT ![w] = None]
        /\ UNCHANGED <<slot, ctx, ref, release, cur, iopc, iosvc>>
    BY <1>a, <1>17 DEF LaunchDropEnd, ReleaseQueue, TypeOK, Ctl, WorkerCtl, ThreadCtl, ctxVars, mqVars,
           opVars, ioVars, loopVars, At
  <2>2. \A x \in Services : Holders(x)' = Holders(x)
    BY <1>a, <2>1 DEF TypeOK, Holders, Holds, Tokens
  <2>3. Unmoved
    BY <1>0, <1>a, <2>1 DEF TypeOK, Deleting
  <2> QED BY <2>1, <2>2, <2>3, SameRefs
<1>18. ASSUME NEW w \in Workers, Grab(w) PROVE Refs'
  <2>1. CASE hand[w] \in slot
    <3>1. /\ cur[w] = None /\ hand[w] \in Services /\ hand[w] # None
          /\ handle_grab(hand[w]) /\ cur' = [cur EXCEPT ![w] = hand[w]]
          /\ hand[w] \in slot
          /\ UNCHANGED <<slot, ctx, release, opsvc, oppc, iopc, iosvc>>
      BY <1>a, <1>18, <2>1 DEF Grab, TypeOK, Ctl, WorkerCtl, ThreadCtl, ctxVars, mqVars,
             opVars, ioVars, loopVars, At
    <3>2. \A x \in Services : Holders(x)' =
            IF x = hand[w] THEN Holders(x) \cup {<<"cur", w>>} ELSE Holders(x)
      BY <1>a, <3>1 DEF TypeOK, Holders, Holds, Tokens
    <3>3. <<"cur", w>> \notin Holders(hand[w]) /\ <<"slot", None>> \in Holders(hand[w])
      BY <1>a, <3>1 DEF Holders, Holds, Tokens
    <3>4. Unmoved
      BY <1>0, <1>a, <3>1 DEF TypeOK, Deleting
    <3> QED BY <3>1, <3>2, <3>3, <3>4, GrabRefs
  <2>2. CASE hand[w] \notin slot
    BY <1>b, <1>18, <2>2 DEF Grab, ctxVars, mqVars, opVars, ioVars
  <2> QED BY <2>1, <2>2
<1>19. ASSUME NEW w \in Workers, EndTurn(w) PROVE Refs'
  <2>1. /\ iopc[w] = "idle" /\ cur[w] \in Services /\ cur[w] # None
        /\ cur' = [cur EXCEPT ![w] = None]
        /\ ~ Deleting(w) /\ context_release(w, cur[w])
        /\ UNCHANGED <<slot, ctx, release, opsvc, oppc>>
    BY <1>a, <1>19 DEF EndTurn, TypeOK, Ctl, WorkerCtl, ThreadCtl, ctxVars, mqVars,
           opVars, ioVars, loopVars, At, Deleting
  <2>2. \A x \in Services : Holders(x)' =
          IF x = cur[w] THEN Holders(x) \ {<<"cur", w>>} ELSE Holders(x)
    BY <1>a, <2>1 DEF TypeOK, Holders, Holds, Tokens, context_release
  <2>3. <<"cur", w>> \in Holders(cur[w])
    BY <1>a, <2>1 DEF Holders, Holds, Tokens
  <2> QED BY <1>0, <1>a, <2>1, <2>2, <2>3, ReleaseRefs
<1>20. ASSUME NEW w \in Workers, TakeQueue(w) PROVE Refs'
  BY <1>b, <1>20 DEF TakeQueue, ctxVars, mqVars, loopVars, opVars, ioVars
<1>21. ASSUME NEW w \in Workers, MqRelease(w) PROVE Refs'
  BY <1>b, <1>21 DEF MqRelease, ctxVars, mqVars, loopVars, opVars, ioVars
<1>22. ASSUME NEW w \in Workers, DropEnd(w) PROVE Refs'
  BY <1>b, <1>22 DEF DropEnd, ReleaseQueue, ctxVars, mqVars, loopVars, opVars, ioVars
<1>23. ASSUME NEW w \in Workers, PopMessage(w) PROVE Refs'
  BY <1>b, <1>23 DEF PopMessage, ctxVars, mqVars, loopVars, opVars, ioVars
<1>24. ASSUME NEW w \in Workers, QueueLength(w) PROVE Refs'
  BY <1>b, <1>24 DEF QueueLength, ctxVars, mqVars, loopVars, opVars, ioVars
<1>25. ASSUME NEW w \in Workers, PopEmpty(w) PROVE Refs'
  BY <1>b, <1>25 DEF PopEmpty, ctxVars, mqVars, loopVars, opVars, ioVars
<1>26. ASSUME NEW w \in Workers, CallbackEnd(w) PROVE Refs'
  BY <1>b, <1>26 DEF CallbackEnd, ctxVars, mqVars, loopVars, opVars, ioVars
<1>27. ASSUME NEW w \in Workers, Rotate(w) PROVE Refs'
  BY <1>b, <1>27 DEF Rotate, ctxVars, mqVars, loopVars, opVars, ioVars
<1>28. ASSUME NEW w \in Workers, PushBack(w) PROVE Refs'
  BY <1>b, <1>28 DEF PushBack, ctxVars, mqVars, loopVars, opVars, ioVars
<1>29. CASE UNCHANGED vars
  BY <1>b, <1>29 DEF vars, ctxVars, mqVars, loopVars, opVars, ioVars
<1> QED
  BY <1>1, <1>2, <1>3, <1>4, <1>5, <1>6, <1>7, <1>8, <1>9, <1>10, <1>11,
     <1>12, <1>13, <1>14, <1>15, <1>16, <1>17, <1>18, <1>19, <1>20, <1>21,
     <1>22, <1>23, <1>24, <1>25, <1>26, <1>27, <1>28, <1>29
     DEF Next, Context, Launch, Dispatch, Service

-----------------------------------------------------------------------------
(* Where a queue is, and what its flags say. Own spells OnePlace out for   *)
(* the four kinds of places.                                               *)
OnQ(s) == \E i \in 1..Len(Q) : Q[i] = s

Held(s) == \E w \in Workers : hand[w] = s \/ nxt[w] = s \/ opsvc[w] = s

Distinct(q) == \A i, j \in 1..Len(q) : q[i] = q[j] => i = j

Own ==
  /\ Distinct(Q)
  /\ \A s \in Services : ~(OnQ(s) /\ Held(s))
  /\ \A v, w \in Workers : v # w =>
       /\ hand[v] # None => hand[v] # hand[w]
       /\ nxt[v] # None => nxt[v] # nxt[w]
       /\ opsvc[v] # None => opsvc[v] # opsvc[w]
  /\ \A v, w \in Workers :
       /\ hand[v] # None => hand[v] # nxt[w] /\ hand[v] # opsvc[w]
       /\ nxt[v] # None => nxt[v] # opsvc[w]

(* A queue is somewhere exactly while in_global or release is set, and one *)
(* with messages has one of them set.                                      *)
Flags ==
  /\ \A s \in Services : OnQ(s) \/ Held(s) =>
       qmem[s] = "live" /\ (in_global[s] \/ release[s])
  /\ \A s \in Services : qmem[s] = "live" /\ (in_global[s] \/ release[s]) =>
       OnQ(s) \/ Held(s)
  /\ \A s \in Services : qmem[s] = "live" /\ queue[s] # << >> =>
       in_global[s] \/ release[s]

(* The memory of a queue, the drain of a released one, and init.           *)
Mem ==
  /\ \A s \in Services : ctx[s] = "none" <=> qmem[s] = "none"
  /\ \A s \in Services : qmem[s] = "freed" => release[s]
  /\ \A w \in Workers : wpc[w] = "drop" => release[hand[w]]
  /\ \A w \in Workers : oppc[w] = "drop" => release[opsvc[w]]

InitDone ==
  /\ \A s \in slot : init[s] \/ \E w \in Workers : opsvc[w] = s
  /\ \A w \in Workers : cur[w] # None => init[cur[w]]
  /\ \A w \in Workers : oppc[w] = "post" =>
       init[opsvc[w]] \/ opsvc[w] \notin slot
  /\ \A w \in Workers : oppc[w] \in {"mqrelease", "drop"} =>
       opsvc[w] \notin slot

(* skynet_globalmq_push of a queue that is not linked, and                 *)
(* skynet_globalmq_pop.                                                    *)
LEMMA PushList ==
  ASSUME NEW q \in Seq(Services), NEW s \in Services, Distinct(q),
         ~ \E i \in 1..Len(q) : q[i] = s
  PROVE  /\ Distinct(Append(q, s))
         /\ \A x : (\E i \in 1..Len(Append(q, s)) : Append(q, s)[i] = x)
                      <=> (x = s \/ \E i \in 1..Len(q) : q[i] = x)
<1>1. /\ Len(Append(q, s)) = Len(q) + 1 /\ Len(q) \in Nat
      /\ \A i \in 1..Len(q) : Append(q, s)[i] = q[i]
      /\ Append(q, s)[Len(q) + 1] = s
  OBVIOUS
<1>2. Distinct(Append(q, s))
  BY <1>1 DEF Distinct
<1>3. ASSUME NEW x, NEW i \in 1..Len(q), q[i] = x
      PROVE  \E j \in 1..Len(Append(q, s)) : Append(q, s)[j] = x
  BY <1>1, <1>3
<1>4. \E j \in 1..Len(Append(q, s)) : Append(q, s)[j] = s
  BY <1>1
<1>5. ASSUME NEW x, NEW j \in 1..Len(Append(q, s)), Append(q, s)[j] = x
      PROVE  x = s \/ \E i \in 1..Len(q) : q[i] = x
  BY <1>1, <1>5
<1> QED BY <1>2, <1>3, <1>4, <1>5

(* skynet_globalmq_pop takes the first queue off the list and leaves the   *)
(* others where they were.                                                 *)
LEMMA PopList ==
  ASSUME NEW q \in Seq(Services), q # << >>, Distinct(q)
  PROVE  /\ Head(q) \in Services /\ Tail(q) \in Seq(Services)
         /\ Distinct(Tail(q))
         /\ \E i \in 1..Len(q) : q[i] = Head(q)
         /\ \A x : (\E i \in 1..Len(Tail(q)) : Tail(q)[i] = x)
                      <=> (x # Head(q) /\ \E i \in 1..Len(q) : q[i] = x)
<1>1. /\ Len(Tail(q)) = Len(q) - 1 /\ Len(q) \in Nat /\ Len(q) > 0
      /\ \A i \in 1..Len(Tail(q)) : Tail(q)[i] = q[i + 1]
      /\ Head(q) = q[1]
      /\ Head(q) \in Services /\ Tail(q) \in Seq(Services)
  OBVIOUS
<1>2. Distinct(Tail(q))
  BY <1>1 DEF Distinct
<1>3. ASSUME NEW x, NEW i \in 1..Len(q), q[i] = x, x # Head(q)
      PROVE  \E j \in 1..Len(Tail(q)) : Tail(q)[j] = x
  <2>1. i - 1 \in 1..Len(Tail(q)) /\ Tail(q)[i - 1] = q[i]
    BY <1>1, <1>3
  <2> QED BY <1>3, <2>1
<1>4. ASSUME NEW x, NEW j \in 1..Len(Tail(q)), Tail(q)[j] = x
      PROVE  x # Head(q) /\ \E i \in 1..Len(q) : q[i] = x
  <2>1. j + 1 \in 1..Len(q) /\ q[j + 1] = x /\ j + 1 # 1 /\ 1 \in 1..Len(q)
    BY <1>1, <1>4
  <2> QED BY <1>1, <2>1 DEF Distinct
<1>5. \E i \in 1..Len(q) : q[i] = Head(q)
  BY <1>1
<1> QED BY <1>1, <1>2, <1>3, <1>4, <1>5

(* A queue that is in no place is pushed: it is then in the global queue,  *)
(* once.                                                                   *)
LEMMA PushOwn ==
  ASSUME TypeOK, Own, NEW s \in Services, ~ OnQ(s), Q' = Append(Q, s)
  PROVE  /\ Distinct(Q)'
         /\ \A x : OnQ(x)' <=> (OnQ(x) \/ x = s)
<1>1. Q \in Seq(Services) /\ Distinct(Q) /\ ~ \E i \in 1..Len(Q) : Q[i] = s
  BY DEF TypeOK, Own, OnQ
<1>2. /\ Distinct(Append(Q, s))
      /\ \A x : (\E i \in 1..Len(Append(Q, s)) : Append(Q, s)[i] = x)
                   <=> (x = s \/ \E i \in 1..Len(Q) : Q[i] = x)
  BY <1>1, PushList
<1>3. Distinct(Q)'
  BY <1>2 DEF Distinct
<1>4. \A x : OnQ(x)' <=> (OnQ(x) \/ x = s)
  BY <1>2 DEF OnQ
<1> QED BY <1>3, <1>4

(* A thread takes the first queue into its hands: the queue changes its    *)
(* place and still has one.                                                *)
LEMMA PopOwn ==
  ASSUME TypeOK, Own, Q # << >>, Q' = Tail(Q)
  PROVE  /\ Head(Q) \in Services /\ OnQ(Head(Q))
         /\ Distinct(Q)'
         /\ \A x : OnQ(x)' <=> (OnQ(x) /\ x # Head(Q))
<1>1. Q \in Seq(Services) /\ Distinct(Q)
  BY DEF TypeOK, Own
<1>2. /\ Head(Q) \in Services /\ Distinct(Tail(Q))
      /\ \E i \in 1..Len(Q) : Q[i] = Head(Q)
      /\ \A x : (\E i \in 1..Len(Tail(Q)) : Tail(Q)[i] = x)
                   <=> (x # Head(Q) /\ \E i \in 1..Len(Q) : Q[i] = x)
  BY <1>1, PopList
<1>3. Distinct(Q)'
  BY <1>2 DEF Distinct
<1>4. \A x : OnQ(x)' <=> (OnQ(x) /\ x # Head(Q))
  BY <1>2 DEF OnQ
<1> QED BY <1>2, <1>3, <1>4 DEF OnQ

Places == Own /\ Flags /\ Mem /\ InitDone

(* A context that is registered, grabbed, or about to be marked is alive,  *)
(* and so is its queue.                                                    *)
Alive(s) == ctx[s] = "live" /\ qmem[s] = "live" /\ ~ release[s]

(* A context that somebody holds is alive, and so is its queue.            *)
LEMMA HolderAlive ==
  ASSUME TypeOK, Ctl, Refs, Mem
  PROVE  /\ \A s \in slot : Alive(s)
         /\ \A w \in Workers : cur[w] # None => Alive(cur[w])
         /\ \A w \in Workers : oppc[w] = "init" => Alive(opsvc[w])
         /\ \A t \in Threads : iopc[t] \in {"push", "unref", "mark"} =>
              Alive(iosvc[t])
<1>1. ASSUME NEW s \in Services, ctx[s] = "live", ~ release[s] PROVE Alive(s)
  BY <1>1 DEF Alive, Mem, TypeOK, Memory
<1>2. ASSUME NEW s \in Services, Holders(s) # {} PROVE Alive(s)
  BY <1>1, <1>2 DEF Refs
<1>3. \A s \in slot : <<"slot", None>> \in Holders(s) /\ s \in Services
  BY DEF TypeOK, Holders, Holds, Tokens
<1>4. \A w \in Workers : cur[w] # None =>
        <<"cur", w>> \in Holders(cur[w]) /\ cur[w] \in Services
  BY DEF TypeOK, Holders, Holds, Tokens
<1>5. \A w \in Workers : oppc[w] = "init" =>
        <<"op", w>> \in Holders(opsvc[w]) /\ opsvc[w] \in Services
  BY DEF TypeOK, Ctl, WorkerCtl, Holders, Holds, Tokens
<1>6. \A t \in Threads : iopc[t] \in {"push", "unref"} =>
        <<"io", t>> \in Holders(iosvc[t]) /\ iosvc[t] \in Services
  BY DEF TypeOK, Ctl, ThreadCtl, Holders, Holds, Tokens
<1>7. \A t \in Threads : iopc[t] = "mark" =>
        iosvc[t] \in Services /\ ctx[iosvc[t]] = "live" /\ ~ release[iosvc[t]]
  BY DEF TypeOK, Ctl, ThreadCtl, Refs, Deleting
<1> QED BY <1>1, <1>2, <1>3, <1>4, <1>5, <1>6, <1>7

(* Initially the queue of the root service is in the global queue, and no  *)
(* other queue exists.                                                     *)
LEMMA InitPlaces == Init => Places
<1> SUFFICES ASSUME Init PROVE Places
  OBVIOUS
<1> USE KernelAssumption DEF Init
<1>1. Len(Q) = 1 /\ Q[1] = Root
  OBVIOUS
<1>2. \A s : OnQ(s) <=> s = Root
  BY <1>1 DEF OnQ
<1>3. \A s \in Services : ~ Held(s)
  BY DEF Held
<1>4. Own
  BY <1>1, <1>2, <1>3 DEF Own, Distinct
<1>5. Flags
  BY <1>2, <1>3 DEF Flags
<1> QED BY <1>4, <1>5 DEF Places, Mem, InitDone

(* Every action leaves each queue in one place at most, with the flags     *)
(* that belong to it and with its memory alive as long as it is reachable. *)
LEMMA NextPlaces ==
  ASSUME TypeOK, Ctl, Refs, Refs', Places, [Next]_vars
  PROVE  Places'
<1> USE KernelAssumption, NoneAssumption DEF Places
<1>a. \A w \in Workers : w \in Threads
  BY DEF Threads
<1>b. /\ \A s \in slot : Alive(s)
      /\ \A w \in Workers : cur[w] # None => Alive(cur[w])
      /\ \A w \in Workers : oppc[w] = "init" => Alive(opsvc[w])
      /\ \A t \in Threads : iopc[t] \in {"push", "unref", "mark"} =>
           Alive(iosvc[t])
  BY HolderAlive
<1> DEFINE Still == /\ Own'
                    /\ \A x \in Services : OnQ(x)' <=> OnQ(x)
                    /\ \A x \in Services : Held(x)' <=> Held(x)
           Quiet == UNCHANGED <<slot, ctx, init, queue, qmem, in_global, release,
                                Q, hand, cur, nxt, opsvc>>
<1>c. UNCHANGED <<Q, hand, nxt, opsvc>> => Still
  BY DEF Own, OnQ, Held, Distinct
<1>d. ASSUME Quiet,
             \A w \in Workers : wpc'[w] = "drop" => release[hand[w]],
             \A w \in Workers : oppc'[w] = "drop" => release[opsvc[w]],
             \A w \in Workers : oppc'[w] = "post" =>
               init[opsvc[w]] \/ opsvc[w] \notin slot,
             \A w \in Workers : oppc'[w] \in {"mqrelease", "drop"} =>
               opsvc[w] \notin slot
      PROVE  Places'
  <2>1. Still
    BY <1>c, <1>d
  <2>2. Flags'
    BY <1>d, <2>1 DEF Flags
  <2>3. Mem'
    BY <1>d DEF Mem
  <2>4. InitDone'
    BY <1>d DEF InitDone
  <2> QED BY <2>1, <2>2, <2>3, <2>4
<1> HIDE DEF Still, Quiet
<1>1. ASSUME NEW t \in Threads, MqPush(t) PROVE Places'
  <2>1. CASE in_global[iosvc[t]]
    <3>1. /\ Q' = Q /\ in_global[iosvc[t]]
          /\ iopc[t] = "push" /\ iosvc[t] \in Services
          /\ queue' = [queue EXCEPT ![iosvc[t]] = Append(queue[iosvc[t]], iomsg[t])]
          /\ in_global' = [in_global EXCEPT ![iosvc[t]] = TRUE]
          /\ UNCHANGED <<slot, ctx, init, qmem, release, wpc, oppc, cur, hand, nxt,
                        opsvc>>
      BY <1>a, <1>1, <2>1 DEF MqPush, schedule, TypeOK, Ctl, WorkerCtl, ThreadCtl, InTurn, ctxVars, mqVars, loopVars,
             opVars, ioVars, At
    <3>2. Still
      BY <1>c, <3>1
    <3>3. /\ \A x \in Services : OnQ(x)' <=> OnQ(x)
          /\ \A x \in Services : Held(x)' <=> Held(x)
      BY <3>2 DEF Still
    <3>4. Own'
      BY <3>2 DEF Still
    <3>5. Flags'
      BY <1>a, <1>b, <3>1, <3>2, <3>3 DEF Flags, TypeOK, Alive
    <3>6. Mem'
      BY <1>a, <1>b, <3>1, <3>2, <3>3 DEF Mem, TypeOK, Alive
    <3>7. InitDone'
      BY <1>a, <1>b, <3>1, <3>2, <3>3 DEF InitDone, TypeOK, Alive
    <3> QED BY <3>4, <3>5, <3>6, <3>7
  <2>2. CASE ~ in_global[iosvc[t]]
    <3>1. /\ Q' = Append(Q, iosvc[t]) /\ ~ in_global[iosvc[t]]
          /\ iopc[t] = "push" /\ iosvc[t] \in Services
          /\ queue' = [queue EXCEPT ![iosvc[t]] = Append(queue[iosvc[t]], iomsg[t])]
          /\ in_global' = [in_global EXCEPT ![iosvc[t]] = TRUE]
          /\ UNCHANGED <<slot, ctx, init, qmem, release, wpc, oppc, cur, hand, nxt,
                        opsvc>>
      BY <1>a, <1>1, <2>2 DEF MqPush, schedule, globalmq_push, TypeOK, Ctl, WorkerCtl, ThreadCtl, InTurn, ctxVars, mqVars, loopVars,
             opVars, ioVars, At
    <3>2. ~ OnQ(iosvc[t]) /\ ~ Held(iosvc[t])
      BY <1>b, <3>1 DEF Flags, Alive
    <3>3. Distinct(Q)' /\ \A x : OnQ(x)' <=> (OnQ(x) \/ x = iosvc[t])
      BY <3>1, <3>2, PushOwn
    <3>4. \A x \in Services : Held(x)' <=> Held(x)
      BY <3>1 DEF Held
    <3>5. Own'
      BY <1>a, <1>b, <3>1, <3>2, <3>3, <3>4 DEF Own
    <3>6. Flags'
      BY <1>a, <1>b, <3>1, <3>2, <3>3, <3>4 DEF Flags, TypeOK, Alive
    <3>7. Mem'
      BY <1>a, <1>b, <3>1, <3>2, <3>3, <3>4 DEF Mem, TypeOK, Alive
    <3>8. InitDone'
      BY <1>a, <1>b, <3>1, <3>2, <3>3, <3>4 DEF InitDone, TypeOK, Alive
    <3> QED BY <3>5, <3>6, <3>7, <3>8
  <2> QED BY <2>1, <2>2
<1>2. ASSUME NEW t \in Threads, MarkRelease(t) PROVE Places'
  <2>1. CASE in_global[iosvc[t]]
    <3>1. /\ Q' = Q /\ in_global[iosvc[t]]
          /\ iopc[t] = "mark" /\ iosvc[t] \in Services
          /\ release' = [release EXCEPT ![iosvc[t]] = TRUE]
          /\ UNCHANGED <<slot, ctx, init, queue, qmem, in_global, wpc, oppc, cur,
                        hand, nxt, opsvc>>
      BY <1>a, <1>2, <2>1 DEF MarkRelease, schedule, TypeOK, Ctl, WorkerCtl, ThreadCtl, InTurn, ctxVars, mqVars, loopVars,
             opVars, ioVars, At
    <3>2. Still
      BY <1>c, <3>1
    <3>3. /\ \A x \in Services : OnQ(x)' <=> OnQ(x)
          /\ \A x \in Services : Held(x)' <=> Held(x)
      BY <3>2 DEF Still
    <3>4. Own'
      BY <3>2 DEF Still
    <3>5. Flags'
      BY <1>a, <1>b, <3>1, <3>2, <3>3 DEF Flags, TypeOK, Alive
    <3>6. Mem'
      BY <1>a, <1>b, <3>1, <3>2, <3>3 DEF Mem, TypeOK, Alive
    <3>7. InitDone'
      BY <1>a, <1>b, <3>1, <3>2, <3>3 DEF InitDone, TypeOK, Alive
    <3> QED BY <3>4, <3>5, <3>6, <3>7
  <2>2. CASE ~ in_global[iosvc[t]]
    <3>1. /\ Q' = Append(Q, iosvc[t]) /\ ~ in_global[iosvc[t]]
          /\ iopc[t] = "mark" /\ iosvc[t] \in Services
          /\ release' = [release EXCEPT ![iosvc[t]] = TRUE]
          /\ UNCHANGED <<slot, ctx, init, queue, qmem, in_global, wpc, oppc, cur,
                        hand, nxt, opsvc>>
      BY <1>a, <1>2, <2>2 DEF MarkRelease, schedule, globalmq_push, TypeOK, Ctl, WorkerCtl, ThreadCtl, InTurn, ctxVars, mqVars, loopVars,
             opVars, ioVars, At
    <3>2. ~ OnQ(iosvc[t]) /\ ~ Held(iosvc[t])
      BY <1>b, <3>1 DEF Flags, Alive
    <3>3. Distinct(Q)' /\ \A x : OnQ(x)' <=> (OnQ(x) \/ x = iosvc[t])
      BY <3>1, <3>2, PushOwn
    <3>4. \A x \in Services : Held(x)' <=> Held(x)
      BY <3>1 DEF Held
    <3>5. Own'
      BY <1>a, <1>b, <3>1, <3>2, <3>3, <3>4 DEF Own
    <3>6. Flags'
      BY <1>a, <1>b, <3>1, <3>2, <3>3, <3>4 DEF Flags, TypeOK, Alive
    <3>7. Mem'
      BY <1>a, <1>b, <3>1, <3>2, <3>3, <3>4 DEF Mem, TypeOK, Alive
    <3>8. InitDone'
      BY <1>a, <1>b, <3>1, <3>2, <3>3, <3>4 DEF InitDone, TypeOK, Alive
    <3> QED BY <3>5, <3>6, <3>7, <3>8
  <2> QED BY <2>1, <2>2
<1>3. ASSUME NEW t \in Threads, FreeContext(t) PROVE Places'
  <2>1. /\ iosvc[t] \in Services /\ ctx[iosvc[t]] = "live"
        /\ ctx' = [ctx EXCEPT ![iosvc[t]] = "freed"]
        /\ UNCHANGED <<slot, init, mqVars, wpc, oppc, cur, hand, nxt, opsvc>>
    BY <1>a, <1>3 DEF FreeContext, Refs, Deleting, TypeOK, Ctl, WorkerCtl, ThreadCtl, InTurn, ctxVars, mqVars, loopVars,
           opVars, ioVars, At
  <2>2. Still
    BY <1>c, <2>1 DEF mqVars
  <2>3. /\ \A x \in Services : OnQ(x)' <=> OnQ(x)
        /\ \A x \in Services : Held(x)' <=> Held(x)
    BY <2>2 DEF Still
  <2>4. Own'
    BY <2>2 DEF Still
  <2>5. Flags'
    BY <2>1, <2>3 DEF Flags, mqVars
  <2>6. Mem'
    BY <2>1 DEF Mem, TypeOK, mqVars
  <2>7. InitDone'
    BY <2>1 DEF InitDone, mqVars
  <2> QED BY <2>4, <2>5, <2>6, <2>7
<1>4. ASSUME NEW t \in Threads, Unref(t) PROVE Places'
  <2>1. Quiet
    BY <1>4 DEF Quiet, Unref, context_release, ctxVars, mqVars, loopVars, opVars, ioVars
  <2>2. /\ \A v \in Workers : wpc'[v] = "drop" => wpc[v] = "drop"
        /\ \A v \in Workers : oppc'[v] \in {"post", "mqrelease", "drop"} =>
             oppc'[v] = oppc[v]
    BY <1>4 DEF Unref, context_release, TypeOK, ctxVars, mqVars, loopVars, opVars, ioVars, At
  <2> QED BY <1>d, <2>1, <2>2 DEF Mem, InitDone, Quiet
<1>5. ASSUME NEW t \in Threads, SendGrab(t) PROVE Places'
  <2>1. Quiet
    BY <1>5 DEF Quiet, SendGrab, ctxVars, mqVars, loopVars, opVars, ioVars
  <2>2. /\ \A v \in Workers : wpc'[v] = "drop" => wpc[v] = "drop"
        /\ \A v \in Workers : oppc'[v] \in {"post", "mqrelease", "drop"} =>
             oppc'[v] = oppc[v]
    BY <1>5 DEF SendGrab, TypeOK, ctxVars, mqVars, loopVars, opVars, ioVars, At
  <2> QED BY <1>d, <2>1, <2>2 DEF Mem, InitDone, Quiet
<1>6. ASSUME NEW t \in Threads, NEW s \in Services, Send(t, s) PROVE Places'
  <2>1. Quiet
    BY <1>6 DEF Quiet, Send, ctxVars, mqVars, loopVars, opVars, ioVars
  <2>2. /\ \A v \in Workers : wpc'[v] = "drop" => wpc[v] = "drop"
        /\ \A v \in Workers : oppc'[v] \in {"post", "mqrelease", "drop"} =>
             oppc'[v] = oppc[v]
    BY <1>6 DEF Send, TypeOK, ctxVars, mqVars, loopVars, opVars, ioVars, At
  <2> QED BY <1>d, <2>1, <2>2 DEF Mem, InitDone, Quiet
<1>7. ASSUME NEW w \in Workers, NEW s \in Services, Retire(w, s) PROVE Places'
  <2>1. /\ slot' = slot \ {s}
        /\ UNCHANGED <<ctx, init, mqVars, loopVars, opVars>>
    BY <1>a, <1>7 DEF Retire, TypeOK, Ctl, WorkerCtl, ThreadCtl, InTurn, ctxVars, mqVars, loopVars,
           opVars, ioVars, At
  <2>2. Still
    BY <1>c, <2>1 DEF mqVars, loopVars, opVars
  <2>3. /\ \A x \in Services : OnQ(x)' <=> OnQ(x)
        /\ \A x \in Services : Held(x)' <=> Held(x)
    BY <2>2 DEF Still
  <2>4. Own'
    BY <2>2 DEF Still
  <2>5. Flags'
    BY <2>1, <2>3 DEF Flags, mqVars
  <2>6. Mem'
    BY <2>1 DEF Mem, mqVars, loopVars, opVars
  <2>7. InitDone'
    BY <2>1 DEF InitDone, loopVars, opVars
  <2> QED BY <2>4, <2>5, <2>6, <2>7
<1>8. ASSUME NEW w \in Workers, NEW s \in Services, LaunchRegister(w, s) PROVE Places'
  <2>1. /\ oppc[w] = "none" /\ opsvc[w] = None /\ ctx[s] = "none" /\ slot' = slot \cup {s}
        /\ ctx' = [ctx EXCEPT ![s] = "live"] /\ init' = [init EXCEPT ![s] = FALSE]
        /\ queue' = [queue EXCEPT ![s] = << >>] /\ qmem' = [qmem EXCEPT ![s] = "live"]
        /\ in_global' = [in_global EXCEPT ![s] = TRUE]
        /\ release' = [release EXCEPT ![s] = FALSE]
        /\ oppc' = [oppc EXCEPT ![w] = "init"] /\ opsvc' = [opsvc EXCEPT ![w] = s]
        /\ UNCHANGED <<Q, loopVars>>
    BY <1>a, <1>8 DEF LaunchRegister, created_in_global, InService, TypeOK, Ctl, WorkerCtl, ThreadCtl, InTurn, ctxVars, mqVars, loopVars,
           opVars, ioVars, At
  <2>2. qmem[s] = "none" /\ ~ OnQ(s) /\ ~ Held(s) /\ ~ release[s]
    BY <2>1 DEF Mem, Flags, Refs
  <2>3. s \notin slot /\ \A v \in Workers : cur[v] # s
    BY <1>b, <2>1 DEF Alive
  <2>4. \A x \in Services : OnQ(x)' <=> OnQ(x)
    BY <2>1 DEF OnQ
  <2>5. \A x \in Services : Held(x)' <=> (Held(x) \/ x = s)
    BY <2>1 DEF Held, TypeOK, loopVars
  <2>6. \A v \in Workers : hand[v] # s /\ nxt[v] # s /\ opsvc[v] # s
    BY <2>2 DEF Held
  <2>7. Own'
    BY <2>1, <2>2, <2>4, <2>5, <2>6 DEF Own, TypeOK, loopVars, Distinct
  <2>8. Flags'
    BY <1>a, <1>b, <2>1, <2>2, <2>3, <2>4, <2>5, <2>6 DEF Flags, TypeOK, Alive
  <2>9. Mem'
    BY <2>1, <2>2, <2>6 DEF Mem, TypeOK, loopVars, Ctl, WorkerCtl
  <2>10. InitDone'
    BY <2>1, <2>2, <2>3, <2>6 DEF InitDone, TypeOK, loopVars
  <2> QED BY <2>7, <2>8, <2>9, <2>10
<1>9. ASSUME NEW w \in Workers, LaunchOk(w) PROVE Places'
  <2>1. Quiet
    BY <1>9 DEF Quiet, LaunchOk, mqVars, loopVars
  <2>2. /\ oppc[w] = "init" /\ opsvc[w] \in Services
        /\ oppc' = [oppc EXCEPT ![w] =
                      IF ref[opsvc[w]] = 1 THEN "post" ELSE "setinit"]
        /\ ref' = [ref EXCEPT ![opsvc[w]] = ref[opsvc[w]] - 1]
        /\ wpc' = wpc
    BY <1>9 DEF LaunchOk, context_release, TypeOK, Ctl, WorkerCtl, loopVars
  <2>3. ref[opsvc[w]] = 1 => opsvc[w] \notin slot
    <3>1. PICK s \in Services : s = opsvc[w]
      BY <2>2
    <3>2. SUFFICES ASSUME ref[s] = 1 PROVE s \notin slot
      BY <3>1
    <3>3. ref'[s] = 0
      BY <2>2, <3>1, <3>2 DEF TypeOK
    <3>4. IsFiniteSet(Holders(s)') /\ Cardinality(Holders(s)') = 0
      BY <3>3, HoldersFinitePrime DEF Refs, RefExact
    <3>5. Holders(s)' = {}
      BY <3>4, FS_EmptySet
    <3>6. s \in slot => <<"slot", None>> \in Holders(s)'
      BY <2>1 DEF Quiet, Holders, Holds, Tokens
    <3> QED BY <3>5, <3>6
  <2>4. \A v \in Workers : oppc'[v] \in {"post", "mqrelease", "drop"} =>
          oppc'[v] = oppc[v] \/ (v = w /\ oppc'[v] = "post" /\ ref[opsvc[w]] = 1)
    BY <2>2 DEF TypeOK
  <2> QED BY <1>d, <2>1, <2>2, <2>3, <2>4 DEF Mem, InitDone
<1>10. ASSUME NEW w \in Workers, LaunchSetInit(w) PROVE Places'
  <2>1. /\ oppc[w] = "setinit" /\ opsvc[w] \in Services
        /\ init' = [init EXCEPT ![opsvc[w]] = TRUE]
        /\ oppc' = [oppc EXCEPT ![w] = "post"]
        /\ UNCHANGED <<slot, ctx, mqVars, loopVars, opsvc>>
    BY <1>a, <1>10 DEF LaunchSetInit, TypeOK, Ctl, WorkerCtl, ThreadCtl, InTurn, ctxVars, mqVars, loopVars,
           opVars, ioVars, At
  <2>2. Still
    BY <1>c, <2>1 DEF mqVars, loopVars
  <2>3. /\ \A x \in Services : OnQ(x)' <=> OnQ(x)
        /\ \A x \in Services : Held(x)' <=> Held(x)
    BY <2>2 DEF Still
  <2>4. Own'
    BY <2>2 DEF Still
  <2>5. Flags'
    BY <2>1, <2>3 DEF Flags, mqVars
  <2>6. Mem'
    BY <2>1 DEF Mem, TypeOK, mqVars, loopVars
  <2>7. InitDone'
    BY <2>1 DEF InitDone, TypeOK, loopVars
  <2> QED BY <2>4, <2>5, <2>6, <2>7
<1>11. ASSUME NEW w \in Workers, LaunchPost(w) PROVE Places'
  <2>1. /\ oppc[w] = "post" /\ opsvc[w] \in Services /\ opsvc[w] # None
        /\ Q' = Append(Q, opsvc[w])
        /\ oppc' = [oppc EXCEPT ![w] = "none"] /\ opsvc' = [opsvc EXCEPT ![w] = None]
        /\ UNCHANGED <<slot, ctx, init, queue, qmem, in_global, release, wpc, cur,
                          hand, nxt>>
    BY <1>a, <1>11 DEF LaunchPost, globalmq_push, TypeOK, Ctl, WorkerCtl, ThreadCtl, InTurn, ctxVars, mqVars, loopVars,
           opVars, ioVars, At
  <2>2. ~ OnQ(opsvc[w]) /\ Held(opsvc[w])
    BY <2>1 DEF Own, Held
  <2>3. Distinct(Q)' /\ \A x : OnQ(x)' <=> (OnQ(x) \/ x = opsvc[w])
    BY <2>1, <2>2, PushOwn
  <2>4. \A x \in Services : Held(x)' <=> (Held(x) /\ x # opsvc[w])
    BY <2>1 DEF Held, Own, TypeOK
  <2>5. Own'
    BY <2>1, <2>2, <2>3, <2>4 DEF Own, TypeOK
  <2>6. Flags'
    BY <1>a, <1>b, <2>1, <2>2, <2>3, <2>4 DEF Flags, TypeOK, Alive
  <2>7. Mem'
    BY <1>a, <1>b, <2>1, <2>2, <2>3, <2>4 DEF Mem, TypeOK, Alive
  <2>8. InitDone'
    BY <1>a, <1>b, <2>1, <2>2, <2>3, <2>4 DEF InitDone, TypeOK, Alive
  <2> QED BY <2>5, <2>6, <2>7, <2>8
<1>12. ASSUME NEW w \in Workers, LaunchFail(w) PROVE Places'
  <2>1. Quiet
    BY <1>12 DEF Quiet, LaunchFail, ctxVars, mqVars, loopVars, opVars, ioVars
  <2>2. /\ \A v \in Workers : wpc'[v] = "drop" => wpc[v] = "drop"
        /\ \A v \in Workers : oppc'[v] \in {"post", "mqrelease", "drop"} =>
             oppc'[v] = oppc[v]
    BY <1>12 DEF LaunchFail, TypeOK, ctxVars, mqVars, loopVars, opVars, ioVars, At
  <2> QED BY <1>d, <2>1, <2>2 DEF Mem, InitDone, Quiet
<1>13. ASSUME NEW w \in Workers, LaunchRetire(w) PROVE Places'
  <2>1. /\ oppc[w] = "retire" /\ opsvc[w] \in Services
        /\ slot' = slot \ {opsvc[w]}
        /\ oppc' = [oppc EXCEPT ![w] = "mqrelease"]
        /\ UNCHANGED <<ctx, init, mqVars, loopVars, opsvc>>
    BY <1>a, <1>13 DEF LaunchRetire, TypeOK, Ctl, WorkerCtl, ThreadCtl, InTurn, ctxVars, mqVars, loopVars,
           opVars, ioVars, At
  <2>2. Still
    BY <1>c, <2>1 DEF mqVars, loopVars
  <2>3. /\ \A x \in Services : OnQ(x)' <=> OnQ(x)
        /\ \A x \in Services : Held(x)' <=> Held(x)
    BY <2>2 DEF Still
  <2>4. Own'
    BY <2>2 DEF Still
  <2>5. Flags'
    BY <2>1, <2>3 DEF Flags, mqVars
  <2>6. Mem'
    BY <2>1 DEF Mem, TypeOK, mqVars, loopVars
  <2>7. InitDone'
    BY <2>1 DEF InitDone, TypeOK, loopVars
  <2> QED BY <2>4, <2>5, <2>6, <2>7
<1>14. ASSUME NEW w \in Workers, LaunchMqRelease(w) PROVE Places'
  <2>1. CASE drainable(opsvc[w])
    <3>1. Quiet /\ oppc[w] = "mqrelease" /\ oppc' = [oppc EXCEPT ![w] = "drop"]
          /\ wpc' = wpc
      BY <1>14, <2>1 DEF Quiet, LaunchMqRelease, ctxVars, mqVars, loopVars
    <3>2. release[opsvc[w]]
      BY <2>1 DEF drainable
    <3> QED BY <1>d, <3>1, <3>2 DEF Mem, InitDone, TypeOK
  <2>2. CASE ~ drainable(opsvc[w])
    <3>1. /\ oppc[w] = "mqrelease" /\ opsvc[w] \in Services /\ opsvc[w] # None
          /\ Q' = Append(Q, opsvc[w])
          /\ oppc' = [oppc EXCEPT ![w] = "none"] /\ opsvc' = [opsvc EXCEPT ![w] = None]
          /\ UNCHANGED <<slot, ctx, init, queue, qmem, in_global, release, wpc, cur,
                            hand, nxt>>
      BY <1>a, <1>14, <2>2 DEF LaunchMqRelease, putback, globalmq_push, TypeOK, Ctl, WorkerCtl, ThreadCtl, InTurn, ctxVars, mqVars, loopVars,
             opVars, ioVars, At
    <3>2. ~ OnQ(opsvc[w]) /\ Held(opsvc[w])
      BY <3>1 DEF Own, Held
    <3>3. Distinct(Q)' /\ \A x : OnQ(x)' <=> (OnQ(x) \/ x = opsvc[w])
      BY <3>1, <3>2, PushOwn
    <3>4. \A x \in Services : Held(x)' <=> (Held(x) /\ x # opsvc[w])
      BY <3>1 DEF Held, Own, TypeOK
    <3>5. Own'
      BY <3>1, <3>2, <3>3, <3>4 DEF Own, TypeOK
    <3>6. Flags'
      BY <1>a, <1>b, <3>1, <3>2, <3>3, <3>4 DEF Flags, TypeOK, Alive
    <3>7. Mem'
      BY <1>a, <1>b, <3>1, <3>2, <3>3, <3>4 DEF Mem, TypeOK, Alive
    <3>8. InitDone'
      BY <1>a, <1>b, <3>1, <3>2, <3>3, <3>4 DEF InitDone, TypeOK, Alive
    <3> QED BY <3>5, <3>6, <3>7, <3>8
  <2> QED BY <2>1, <2>2
<1>15. ASSUME NEW w \in Workers, LaunchDrop(w) PROVE Places'
  <2>1. /\ opsvc[w] \in Services /\ queue[opsvc[w]] # << >>
        /\ queue' = [queue EXCEPT ![opsvc[w]] = Tail(queue[opsvc[w]])]
        /\ UNCHANGED <<ctxVars, qmem, in_global, release, Q, loopVars, opVars>>
    BY <1>a, <1>15 DEF LaunchDrop, DropMessage, TypeOK, Ctl, WorkerCtl, ThreadCtl, InTurn, ctxVars, mqVars, loopVars,
           opVars, ioVars, At
  <2>2. Still
    BY <1>c, <2>1 DEF loopVars, opVars
  <2>3. /\ \A x \in Services : OnQ(x)' <=> OnQ(x)
        /\ \A x \in Services : Held(x)' <=> Held(x)
    BY <2>2 DEF Still
  <2>4. Own'
    BY <2>2 DEF Still
  <2>5. Flags'
    BY <2>1, <2>3 DEF Flags, TypeOK
  <2>6. Mem'
    BY <2>1 DEF Mem, ctxVars, loopVars, opVars
  <2>7. InitDone'
    BY <2>1 DEF InitDone, ctxVars, loopVars, opVars
  <2> QED BY <2>4, <2>5, <2>6, <2>7
<1>16. ASSUME NEW w \in Workers, LaunchDropEnd(w) PROVE Places'
  <2>1. /\ oppc[w] = "drop" /\ opsvc[w] \in Services /\ opsvc[w] # None
        /\ qmem' = [qmem EXCEPT ![opsvc[w]] = "freed"]
        /\ in_global' = [in_global EXCEPT ![opsvc[w]] = FALSE]
        /\ oppc' = [oppc EXCEPT ![w] = "none"] /\ opsvc' = [opsvc EXCEPT ![w] = None]
        /\ UNCHANGED <<slot, ctx, init, queue, release, Q, wpc, cur, hand, nxt>>
    BY <1>a, <1>16 DEF LaunchDropEnd, ReleaseQueue, unschedule, TypeOK, Ctl, WorkerCtl, ThreadCtl, InTurn, ctxVars, mqVars, loopVars,
           opVars, ioVars, At
  <2>2. release[opsvc[w]] /\ ~ OnQ(opsvc[w]) /\ Held(opsvc[w])
    BY <2>1 DEF Mem, Own, Held
  <2>3. \A x \in Services : OnQ(x)' <=> OnQ(x)
    BY <2>1 DEF OnQ
  <2>4. \A x \in Services : Held(x)' <=> (Held(x) /\ x # opsvc[w])
    BY <2>1 DEF Held, Own, TypeOK
  <2>5. qmem[opsvc[w]] = "live" /\ ctx[opsvc[w]] # "none"
    BY <2>1, <2>2 DEF Flags, Mem
  <2>6. Own'
    BY <2>1, <2>3, <2>4 DEF Own, TypeOK, Distinct
  <2>7. Flags'
    BY <1>a, <1>b, <2>1, <2>2, <2>3, <2>4, <2>5 DEF Flags, TypeOK, Alive
  <2>8. Mem'
    BY <2>1, <2>2, <2>5 DEF Mem, TypeOK
  <2>9. InitDone'
    BY <2>1 DEF InitDone, TypeOK
  <2> QED BY <2>6, <2>7, <2>8, <2>9
<1>17. ASSUME NEW w \in Workers, TakeQueue(w) PROVE Places'
  <2>1. /\ hand[w] = None /\ Q # << >> /\ Q' = Tail(Q)
        /\ wpc[w] = "loop" /\ hand' = [hand EXCEPT ![w] = Head(Q)]
        /\ UNCHANGED <<slot, ctx, init, queue, qmem, in_global, release, wpc, cur,
                          nxt, oppc, opsvc>>
    BY <1>a, <1>17 DEF TakeQueue, TypeOK, Ctl, WorkerCtl, ThreadCtl, InTurn, ctxVars, mqVars, loopVars,
           opVars, ioVars, At
  <2>2. /\ Head(Q) \in Services /\ OnQ(Head(Q)) /\ Distinct(Q)'
        /\ \A x : OnQ(x)' <=> (OnQ(x) /\ x # Head(Q))
    BY <2>1, PopOwn
  <2>3. \A x \in Services : Held(x)' <=> (Held(x) \/ x = Head(Q))
    BY <2>1, <2>2 DEF Held, TypeOK
  <2>4. Head(Q) # None /\ \A v \in Workers :
          hand[v] # Head(Q) /\ nxt[v] # Head(Q) /\ opsvc[v] # Head(Q)
    BY <2>2 DEF Own, Held
  <2>5. Own'
    BY <2>1, <2>2, <2>3, <2>4 DEF Own, TypeOK
  <2>6. Flags'
    BY <1>a, <1>b, <2>1, <2>2, <2>3, <2>4 DEF Flags, TypeOK, Alive
  <2>7. Mem'
    BY <1>a, <1>b, <2>1, <2>2, <2>3, <2>4 DEF Mem, TypeOK, Alive
  <2>8. InitDone'
    BY <1>a, <1>b, <2>1, <2>2, <2>3, <2>4 DEF InitDone, TypeOK, Alive
  <2> QED BY <2>5, <2>6, <2>7, <2>8
<1>18. ASSUME NEW w \in Workers, Grab(w) PROVE Places'
  <2>1. CASE hand[w] \in slot
    <3>1. /\ hand[w] \in Services /\ hand[w] \in slot /\ cur' = [cur EXCEPT ![w] = hand[w]]
          /\ wpc' = [wpc EXCEPT ![w] = "first"]
          /\ UNCHANGED <<slot, ctx, init, mqVars, hand, nxt, opVars>>
      BY <1>a, <1>18, <2>1 DEF Grab, TypeOK, Ctl, WorkerCtl, ThreadCtl, InTurn, ctxVars, mqVars, loopVars,
             opVars, ioVars, At
    <3>2. Still
      BY <1>c, <3>1 DEF mqVars, opVars
    <3>3. /\ \A x \in Services : OnQ(x)' <=> OnQ(x)
          /\ \A x \in Services : Held(x)' <=> Held(x)
      BY <3>2 DEF Still
    <3>4. init[hand[w]]
      BY <3>1 DEF InitDone, Own, TypeOK
    <3>5. Own'
      BY <3>2 DEF Still
    <3>6. Flags'
      BY <3>1, <3>3 DEF Flags, mqVars
    <3>7. Mem'
      BY <3>1 DEF Mem, TypeOK, mqVars, opVars
    <3>8. InitDone'
      BY <3>1, <3>4 DEF InitDone, TypeOK, opVars
    <3> QED BY <3>5, <3>6, <3>7, <3>8
  <2>2. CASE hand[w] \notin slot
    <3>1. Quiet /\ wpc' = [wpc EXCEPT ![w] = "mqrelease"] /\ oppc' = oppc
      BY <1>18, <2>2 DEF Quiet, Grab, ctxVars, mqVars, opVars
    <3> QED BY <1>d, <3>1 DEF Mem, InitDone, TypeOK
  <2> QED BY <2>1, <2>2
<1>19. ASSUME NEW w \in Workers, MqRelease(w) PROVE Places'
  <2>1. CASE drainable(hand[w])
    <3>1. Quiet /\ wpc' = [wpc EXCEPT ![w] = "drop"] /\ oppc' = oppc
      BY <1>19, <2>1 DEF Quiet, MqRelease, ctxVars, mqVars, opVars
    <3>2. release[hand[w]]
      BY <2>1 DEF drainable
    <3> QED BY <1>d, <3>1, <3>2 DEF Mem, InitDone, TypeOK
  <2>2. CASE ~ drainable(hand[w])
    <3>1. /\ hand[w] \in Services /\ hand[w] # None /\ Q' = Append(Q, hand[w])
          /\ hand' = [hand EXCEPT ![w] = None] /\ wpc' = [wpc EXCEPT ![w] = "loop"]
          /\ UNCHANGED <<slot, ctx, init, queue, qmem, in_global, release, cur, nxt,
                            opVars>>
      BY <1>a, <1>19, <2>2 DEF MqRelease, putback, globalmq_push, TypeOK, Ctl, WorkerCtl, ThreadCtl, InTurn, ctxVars, mqVars, loopVars,
             opVars, ioVars, At
    <3>2. ~ OnQ(hand[w]) /\ Held(hand[w])
      BY <3>1 DEF Own, Held
    <3>3. Distinct(Q)' /\ \A x : OnQ(x)' <=> (OnQ(x) \/ x = hand[w])
      BY <3>1, <3>2, PushOwn
    <3>4. \A x \in Services : Held(x)' <=> (Held(x) /\ x # hand[w])
      BY <3>1 DEF Held, Own, TypeOK, opVars
    <3>5. Own'
      BY <3>1, <3>2, <3>3, <3>4 DEF Own, TypeOK, opVars
    <3>6. Flags'
      BY <1>a, <1>b, <3>1, <3>2, <3>3, <3>4 DEF Flags, TypeOK, Alive
    <3>7. Mem'
      BY <3>1 DEF Mem, TypeOK, opVars
    <3>8. InitDone'
      BY <3>1 DEF InitDone, TypeOK, opVars
    <3> QED BY <3>5, <3>6, <3>7, <3>8
  <2> QED BY <2>1, <2>2
<1>20. ASSUME NEW w \in Workers, Drop(w) PROVE Places'
  <2>1. /\ hand[w] \in Services /\ queue[hand[w]] # << >>
        /\ queue' = [queue EXCEPT ![hand[w]] = Tail(queue[hand[w]])]
        /\ UNCHANGED <<ctxVars, qmem, in_global, release, Q, loopVars, opVars>>
    BY <1>a, <1>20 DEF Drop, DropMessage, TypeOK, Ctl, WorkerCtl, ThreadCtl, InTurn, ctxVars, mqVars, loopVars,
           opVars, ioVars, At
  <2>2. Still
    BY <1>c, <2>1 DEF loopVars, opVars
  <2>3. /\ \A x \in Services : OnQ(x)' <=> OnQ(x)
        /\ \A x \in Services : Held(x)' <=> Held(x)
    BY <2>2 DEF Still
  <2>4. Own'
    BY <2>2 DEF Still
  <2>5. Flags'
    BY <2>1, <2>3 DEF Flags, TypeOK
  <2>6. Mem'
    BY <2>1 DEF Mem, ctxVars, loopVars, opVars
  <2>7. InitDone'
    BY <2>1 DEF InitDone, ctxVars, loopVars, opVars
  <2> QED BY <2>4, <2>5, <2>6, <2>7
<1>21. ASSUME NEW w \in Workers, DropEnd(w) PROVE Places'
  <2>1. /\ wpc[w] = "drop" /\ hand[w] \in Services /\ hand[w] # None
        /\ qmem' = [qmem EXCEPT ![hand[w]] = "freed"]
        /\ in_global' = [in_global EXCEPT ![hand[w]] = FALSE]
        /\ wpc' = [wpc EXCEPT ![w] = "loop"] /\ hand' = [hand EXCEPT ![w] = None]
        /\ UNCHANGED <<slot, ctx, init, queue, release, Q, cur, nxt, oppc, opsvc>>
    BY <1>a, <1>21 DEF DropEnd, ReleaseQueue, unschedule, TypeOK, Ctl, WorkerCtl, ThreadCtl, InTurn, ctxVars, mqVars, loopVars,
           opVars, ioVars, At
  <2>2. release[hand[w]] /\ ~ OnQ(hand[w]) /\ Held(hand[w])
    BY <2>1 DEF Mem, Own, Held
  <2>3. \A x \in Services : OnQ(x)' <=> OnQ(x)
    BY <2>1 DEF OnQ
  <2>4. \A x \in Services : Held(x)' <=> (Held(x) /\ x # hand[w])
    BY <2>1 DEF Held, Own, TypeOK
  <2>5. qmem[hand[w]] = "live" /\ ctx[hand[w]] # "none"
    BY <2>1, <2>2 DEF Flags, Mem
  <2>6. Own'
    BY <2>1, <2>3, <2>4 DEF Own, TypeOK, Distinct
  <2>7. Flags'
    BY <1>a, <1>b, <2>1, <2>2, <2>3, <2>4, <2>5 DEF Flags, TypeOK, Alive
  <2>8. Mem'
    BY <2>1, <2>2, <2>5 DEF Mem, TypeOK
  <2>9. InitDone'
    BY <2>1 DEF InitDone, TypeOK
  <2> QED BY <2>6, <2>7, <2>8, <2>9
<1>22. ASSUME NEW w \in Workers, PopMessage(w) PROVE Places'
  <2>1. /\ hand[w] \in Services /\ queue[hand[w]] # << >>
        /\ queue' = [queue EXCEPT ![hand[w]] = Tail(queue[hand[w]])]
        /\ \A v \in Workers : wpc'[v] = "drop" => wpc[v] = "drop"
        /\ UNCHANGED <<ctxVars, qmem, in_global, release, Q, hand, cur, nxt, opVars>>
    BY <1>a, <1>22 DEF PopMessage, TypeOK, Ctl, WorkerCtl, ThreadCtl, InTurn, ctxVars, mqVars, loopVars,
           opVars, ioVars, At
  <2>2. Still
    BY <1>c, <2>1 DEF opVars
  <2>3. /\ \A x \in Services : OnQ(x)' <=> OnQ(x)
        /\ \A x \in Services : Held(x)' <=> Held(x)
    BY <2>2 DEF Still
  <2>4. Own'
    BY <2>2 DEF Still
  <2>5. Flags'
    BY <2>1, <2>3 DEF Flags, TypeOK
  <2>6. Mem'
    BY <2>1 DEF Mem, ctxVars, opVars
  <2>7. InitDone'
    BY <2>1 DEF InitDone, ctxVars, opVars
  <2> QED BY <2>4, <2>5, <2>6, <2>7
<1>23. ASSUME NEW w \in Workers, QueueLength(w) PROVE Places'
  <2>1. Quiet
    BY <1>23 DEF Quiet, QueueLength, ctxVars, mqVars, loopVars, opVars, ioVars
  <2>2. /\ \A v \in Workers : wpc'[v] = "drop" => wpc[v] = "drop"
        /\ \A v \in Workers : oppc'[v] \in {"post", "mqrelease", "drop"} =>
             oppc'[v] = oppc[v]
    BY <1>23 DEF QueueLength, TypeOK, ctxVars, mqVars, loopVars, opVars, ioVars, At
  <2> QED BY <1>d, <2>1, <2>2 DEF Mem, InitDone, Quiet
<1>24. ASSUME NEW w \in Workers, PopEmpty(w) PROVE Places'
  <2>1. /\ hand[w] \in Services /\ hand[w] # None /\ cur[w] = hand[w]
        /\ queue[hand[w]] = << >> /\ in_global' = [in_global EXCEPT ![hand[w]] = FALSE]
        /\ hand' = [hand EXCEPT ![w] = None] /\ wpc' = [wpc EXCEPT ![w] = "release"]
        /\ UNCHANGED <<slot, ctx, init, queue, qmem, release, Q, cur, nxt, opVars>>
    BY <1>a, <1>24 DEF PopEmpty, unschedule, TypeOK, Ctl, WorkerCtl, ThreadCtl, InTurn, ctxVars, mqVars, loopVars,
           opVars, ioVars, At
  <2>2. ~ OnQ(hand[w]) /\ Held(hand[w]) /\ ~ release[hand[w]]
    BY <1>b, <2>1 DEF Own, Held, Alive
  <2>3. \A x \in Services : OnQ(x)' <=> OnQ(x)
    BY <2>1 DEF OnQ
  <2>4. \A x \in Services : Held(x)' <=> (Held(x) /\ x # hand[w])
    BY <2>1 DEF Held, Own, TypeOK, opVars
  <2>5. Own'
    BY <2>1, <2>3, <2>4 DEF Own, TypeOK, opVars, Distinct
  <2>6. Flags'
    BY <1>a, <1>b, <2>1, <2>2, <2>3, <2>4 DEF Flags, TypeOK, Alive
  <2>7. Mem'
    BY <2>1 DEF Mem, TypeOK, opVars
  <2>8. InitDone'
    BY <2>1 DEF InitDone, TypeOK, opVars
  <2> QED BY <2>5, <2>6, <2>7, <2>8
<1>25. ASSUME NEW w \in Workers, CallbackEnd(w) PROVE Places'
  <2>1. Quiet
    BY <1>25 DEF Quiet, CallbackEnd, ctxVars, mqVars, loopVars, opVars, ioVars
  <2>2. /\ \A v \in Workers : wpc'[v] = "drop" => wpc[v] = "drop"
        /\ \A v \in Workers : oppc'[v] \in {"post", "mqrelease", "drop"} =>
             oppc'[v] = oppc[v]
    BY <1>25 DEF CallbackEnd, TypeOK, ctxVars, mqVars, loopVars, opVars, ioVars, At
  <2> QED BY <1>d, <2>1, <2>2 DEF Mem, InitDone, Quiet
<1>26. ASSUME NEW w \in Workers, Rotate(w) PROVE Places'
  <2>1. CASE Q = << >>
    <3>1. Quiet /\ wpc' = [wpc EXCEPT ![w] = "release"] /\ oppc' = oppc
      BY <1>26, <2>1 DEF Quiet, Rotate, ctxVars, mqVars, opVars
    <3> QED BY <1>d, <3>1 DEF Mem, InitDone, TypeOK
  <2>2. CASE Q # << >>
    <3>1. /\ Q # << >> /\ Q' = Tail(Q) /\ nxt[w] = None
          /\ nxt' = [nxt EXCEPT ![w] = Head(Q)] /\ wpc' = [wpc EXCEPT ![w] = "pushback"]
          /\ UNCHANGED <<slot, ctx, init, queue, qmem, in_global, release, cur, hand,
                            oppc, opsvc>>
      BY <1>a, <1>26, <2>2 DEF Rotate, TypeOK, Ctl, WorkerCtl, ThreadCtl, InTurn, ctxVars, mqVars, loopVars,
             opVars, ioVars, At
    <3>2. /\ Head(Q) \in Services /\ OnQ(Head(Q)) /\ Distinct(Q)'
          /\ \A x : OnQ(x)' <=> (OnQ(x) /\ x # Head(Q))
      BY <3>1, PopOwn
    <3>3. \A x \in Services : Held(x)' <=> (Held(x) \/ x = Head(Q))
      BY <3>1, <3>2 DEF Held, TypeOK
    <3>4. Head(Q) # None /\ \A v \in Workers :
            hand[v] # Head(Q) /\ nxt[v] # Head(Q) /\ opsvc[v] # Head(Q)
      BY <3>2 DEF Own, Held
    <3>5. Own'
      BY <3>1, <3>2, <3>3, <3>4 DEF Own, TypeOK
    <3>6. Flags'
      BY <1>a, <1>b, <3>1, <3>2, <3>3, <3>4 DEF Flags, TypeOK, Alive
    <3>7. Mem'
      BY <1>a, <1>b, <3>1, <3>2, <3>3, <3>4 DEF Mem, TypeOK, Alive
    <3>8. InitDone'
      BY <1>a, <1>b, <3>1, <3>2, <3>3, <3>4 DEF InitDone, TypeOK, Alive
    <3> QED BY <3>5, <3>6, <3>7, <3>8
  <2> QED BY <2>1, <2>2
<1>27. ASSUME NEW w \in Workers, PushBack(w) PROVE Places'
  <2>1. /\ hand[w] \in Services /\ hand[w] # None /\ nxt[w] \in Services /\ nxt[w] # None
        /\ Q' = Append(Q, hand[w]) /\ hand' = [hand EXCEPT ![w] = nxt[w]]
        /\ nxt' = [nxt EXCEPT ![w] = None] /\ wpc' = [wpc EXCEPT ![w] = "release"]
        /\ UNCHANGED <<slot, ctx, init, queue, qmem, in_global, release, cur, oppc,
                          opsvc>>
    BY <1>a, <1>27 DEF PushBack, globalmq_push, TypeOK, Ctl, WorkerCtl, ThreadCtl, InTurn, ctxVars, mqVars, loopVars,
           opVars, ioVars, At
  <2>2. ~ OnQ(hand[w]) /\ Held(hand[w])
    BY <2>1 DEF Own, Held
  <2>3. Distinct(Q)' /\ \A x : OnQ(x)' <=> (OnQ(x) \/ x = hand[w])
    BY <2>1, <2>2, PushOwn
  <2>4. \A x \in Services : Held(x)' <=> (Held(x) /\ x # hand[w])
    BY <2>1 DEF Held, Own, TypeOK
  <2>5. Own'
    BY <2>1, <2>2, <2>3, <2>4 DEF Own, TypeOK
  <2>6. Flags'
    BY <1>a, <1>b, <2>1, <2>2, <2>3, <2>4 DEF Flags, TypeOK, Alive
  <2>7. Mem'
    BY <1>a, <1>b, <2>1, <2>2, <2>3, <2>4 DEF Mem, TypeOK, Alive
  <2>8. InitDone'
    BY <1>a, <1>b, <2>1, <2>2, <2>3, <2>4 DEF InitDone, TypeOK, Alive
  <2> QED BY <2>5, <2>6, <2>7, <2>8
<1>28. ASSUME NEW w \in Workers, EndTurn(w) PROVE Places'
  <2>1. /\ cur' = [cur EXCEPT ![w] = None] /\ wpc' = [wpc EXCEPT ![w] = "loop"]
        /\ UNCHANGED <<slot, ctx, init, mqVars, hand, nxt, opVars>>
    BY <1>a, <1>28 DEF EndTurn, TypeOK, Ctl, WorkerCtl, ThreadCtl, InTurn, ctxVars, mqVars, loopVars,
           opVars, ioVars, At
  <2>2. Still
    BY <1>c, <2>1 DEF mqVars, opVars
  <2>3. /\ \A x \in Services : OnQ(x)' <=> OnQ(x)
        /\ \A x \in Services : Held(x)' <=> Held(x)
    BY <2>2 DEF Still
  <2>4. Own'
    BY <2>2 DEF Still
  <2>5. Flags'
    BY <2>1, <2>3 DEF Flags, mqVars
  <2>6. Mem'
    BY <2>1 DEF Mem, TypeOK, mqVars, opVars
  <2>7. InitDone'
    BY <2>1 DEF InitDone, TypeOK, opVars
  <2> QED BY <2>4, <2>5, <2>6, <2>7
<1>29. CASE UNCHANGED vars
  <2>1. Quiet /\ wpc' = wpc /\ oppc' = oppc
    BY <1>29 DEF Quiet, vars, ctxVars, mqVars, loopVars, opVars
  <2> QED BY <1>d, <2>1 DEF Mem, InitDone
<1> QED
  BY <1>1, <1>2, <1>3, <1>4, <1>5, <1>6, <1>7, <1>8, <1>9, <1>10, <1>11,
     <1>12, <1>13, <1>14, <1>15, <1>16, <1>17, <1>18, <1>19, <1>20, <1>21,
     <1>22, <1>23, <1>24, <1>25, <1>26, <1>27, <1>28, <1>29
     DEF Next, Context, Launch, Dispatch, Service

-----------------------------------------------------------------------------
(* G_NODE.total counts the contexts that are not freed.                    *)
LiveContexts == {s \in Services : ctx[s] = "live"}

TotalExact == total = Cardinality(LiveContexts)

(* Initially there is one context.                                         *)
LEMMA InitTotal == Init => TotalExact
<1> SUFFICES ASSUME Init PROVE TotalExact
  OBVIOUS
<1>1. LiveContexts = {Root}
  BY KernelAssumption DEF Init, LiveContexts
<1> QED BY <1>1, FS_Singleton DEF Init, TotalExact

(* G_NODE.total follows the launches and the deletes of contexts.          *)
LEMMA NextTotal ==
  ASSUME TypeOK, Ctl, Refs, TotalExact, [Next]_vars
  PROVE  TotalExact'
<1>0. IsFiniteSet(LiveContexts) /\ Cardinality(LiveContexts) \in Nat
  <2>1. LiveContexts \subseteq Services
    BY DEF LiveContexts
  <2> QED BY <2>1, KernelAssumption, FS_Subset, FS_CardinalityType
<1>1. ASSUME NEW w \in Workers, NEW s \in Services, LaunchRegister(w, s)
      PROVE  TotalExact'
  <2>1. /\ ctx[s] = "none" /\ ctx' = [ctx EXCEPT ![s] = "live"]
        /\ total' = total + 1
    BY <1>1 DEF LaunchRegister, context_inc
  <2>2. s \notin LiveContexts /\ LiveContexts' = LiveContexts \cup {s}
    BY <2>1 DEF TypeOK, LiveContexts
  <2>3. Cardinality(LiveContexts \cup {s}) = Cardinality(LiveContexts) + 1
    BY <1>0, <2>2, FS_AddElement
  <2> QED BY <2>1, <2>2, <2>3 DEF TotalExact
<1>2. ASSUME NEW t \in Threads, FreeContext(t) PROVE TotalExact'
  <2>1. /\ ctx' = [ctx EXCEPT ![iosvc[t]] = "freed"]
        /\ total' = total - 1
        /\ ctx[iosvc[t]] = "live" /\ iosvc[t] \in Services
    BY <1>2 DEF FreeContext, context_dec, Refs, Deleting, Ctl, ThreadCtl, TypeOK
  <2>2. /\ iosvc[t] \in LiveContexts
        /\ LiveContexts' = LiveContexts \ {iosvc[t]}
    BY <2>1 DEF TypeOK, LiveContexts
  <2>3. Cardinality(LiveContexts \ {iosvc[t]}) = Cardinality(LiveContexts) - 1
    BY <1>0, <2>2, FS_RemoveElement
  <2> QED BY <2>1, <2>2, <2>3 DEF TotalExact
<1>3. ASSUME UNCHANGED <<ctx, total>> PROVE TotalExact'
  BY <1>3 DEF TotalExact, LiveContexts
<1>4. ASSUME NEW t \in Threads,
             MqPush(t) \/ Unref(t) \/ MarkRelease(t) \/ SendGrab(t)
               \/ \E s \in Services : Send(t, s)
      PROVE  TotalExact'
  BY <1>3, <1>4 DEF MqPush, Unref, MarkRelease, SendGrab, Send, ctxVars
<1>5. ASSUME NEW w \in Workers, Launch(w) PROVE TotalExact'
  BY <1>3, <1>5 DEF Launch, LaunchOk, LaunchSetInit, LaunchPost, LaunchFail,
     LaunchRetire, LaunchMqRelease, LaunchDrop, LaunchDropEnd, DropMessage, ctxVars
<1>6. ASSUME NEW w \in Workers, Dispatch(w) PROVE TotalExact'
  BY <1>3, <1>6 DEF Dispatch, TakeQueue, Grab, MqRelease, Drop, DropEnd,
     DropMessage, PopMessage, QueueLength, PopEmpty, CallbackEnd, Rotate,
     PushBack, EndTurn, ctxVars
<1>7. ASSUME NEW w \in Workers, NEW s \in Services, Retire(w, s)
      PROVE  TotalExact'
  BY <1>3, <1>7 DEF Retire
<1>8. CASE UNCHANGED vars
  BY <1>3, <1>8 DEF vars, ctxVars
<1> QED BY <1>1, <1>2, <1>4, <1>5, <1>6, <1>7, <1>8 DEF Next, Context, Service

-----------------------------------------------------------------------------
(* The inductive invariant, and what it implies.                           *)
IInv == TypeOK /\ Ctl /\ Refs /\ Places /\ TotalExact

(* The kernel keeps the inductive invariant: the local state of every      *)
(* thread, the counts, and the place of every queue agree.                 *)
THEOREM Invariance == Spec => []IInv
<1>1. Init => IInv
  BY InitCtl, InitRefs, InitPlaces, InitTotal DEF IInv
<1>2. IInv /\ [Next]_vars => IInv'
  <2> SUFFICES ASSUME IInv, [Next]_vars PROVE IInv'
    OBVIOUS
  <2>1. TypeOK' /\ Ctl'
    BY NextCtl DEF IInv
  <2>2. Refs'
    BY NextRefs DEF IInv
  <2>3. Places'
    BY <2>2, NextPlaces DEF IInv
  <2>4. TotalExact'
    BY NextTotal DEF IInv
  <2> QED BY <2>1, <2>2, <2>3, <2>4 DEF IInv
<1> QED BY <1>1, <1>2, PTL DEF Spec

(* Every variable of the kernel keeps its type.                            *)
THEOREM TypeCorrect == Spec => []TypeOK
<1>1. IInv => TypeOK
  BY DEF IInv
<1> QED BY <1>1, Invariance, PTL

(* A queue is in at most one place, however pushes, launches, releases and *)
(* the workers interleave: skynet_globalmq_push never links a queue twice. *)
THEOREM QueueInOnePlace == Spec => []OnePlace
<1>1. IInv => OnePlace
  <2> SUFFICES ASSUME IInv, NEW s \in Services,
                      NEW p \in Owners(s), NEW q \in Owners(s)
               PROVE  p = q
    BY DEF OnePlace
  <2>1. Own /\ s # None
    BY KernelAssumption DEF IInv, Places
  <2>2. \A k \in Owners(s) :
          \/ \E i \in 1..Len(Q) : k = <<"Q", i>> /\ Q[i] = s
          \/ \E w \in Workers : k = <<"hand", w>> /\ hand[w] = s
          \/ \E w \in Workers : k = <<"nxt", w>> /\ nxt[w] = s
          \/ \E w \in Workers : k = <<"op", w>> /\ opsvc[w] = s
    BY DEF Owners
  <2> QED BY <2>1, <2>2 DEF Own, OnQ, Held, Distinct
<1> QED BY <1>1, Invariance, PTL

(* No message is left in a queue that no thread will look at.              *)
THEOREM NoStrandedMessage == Spec => []NothingStranded
<1>1. IInv => NothingStranded
  <2> SUFFICES ASSUME IInv, NEW s \in Services, qmem[s] = "live",
                      queue[s] # << >> \/ release[s]
               PROVE  Owners(s) # {}
    BY DEF NothingStranded
  <2>1. OnQ(s) \/ Held(s)
    BY DEF IInv, Places, Flags
  <2>2. ASSUME NEW i \in 1..Len(Q), Q[i] = s PROVE <<"Q", i>> \in Owners(s)
    BY <2>2 DEF Owners
  <2>3. ASSUME NEW w \in Workers, hand[w] = s PROVE <<"hand", w>> \in Owners(s)
    BY <2>3 DEF Owners
  <2>4. ASSUME NEW w \in Workers, nxt[w] = s PROVE <<"nxt", w>> \in Owners(s)
    BY <2>4 DEF Owners
  <2>5. ASSUME NEW w \in Workers, opsvc[w] = s PROVE <<"op", w>> \in Owners(s)
    BY <2>5 DEF Owners
  <2> QED BY <2>1, <2>2, <2>3, <2>4, <2>5 DEF OnQ, Held
<1> QED BY <1>1, Invariance, PTL

(* The code of a service never runs on two threads at once, and never      *)
(* before its init function has returned.                                  *)
THEOREM SingleCaller == Spec => []OneCaller
<1>1. IInv => OneCaller
  <2> SUFFICES ASSUME IInv, NEW s \in Services
               PROVE  /\ \A v, w \in Callers(s) : v = w
                      /\ \A w \in Workers :
                           cur[w] = s /\ wpc[w] = "callback" => init[s]
    BY DEF OneCaller
  <2>1. s # None
    BY KernelAssumption
  <2>2. \A w \in Workers : cur[w] = s /\ wpc[w] = "callback" => hand[w] = s
    BY DEF IInv, Ctl, WorkerCtl, InTurn
  <2>3. ASSUME NEW v \in Callers(s), NEW w \in Callers(s) PROVE v = w
    BY <2>1, <2>2 DEF IInv, Places, Own, Callers
  <2>4. \A w \in Workers : cur[w] = s => init[s]
    BY <2>1 DEF IInv, Places, InitDone
  <2> QED BY <2>3, <2>4
<1> QED BY <1>1, Invariance, PTL

(* The reference count of a context is the number of its holders.          *)
THEOREM CountsAreExact == Spec => []RefExact
<1>1. IInv => RefExact
  BY DEF IInv, Refs
<1> QED BY <1>1, Invariance, PTL

(* No counted holder, deleting thread, pusher or queue owner ever uses     *)
(* freed memory; nor does a launcher that sets ctx->init, as long as the   *)
(* service it launched is registered.                                      *)
THEOREM MemorySafe == Spec => []MemorySafety
<1>1. IInv => MemorySafety
  <2> SUFFICES ASSUME IInv PROVE MemorySafety
    OBVIOUS
  <2>1. \A s \in Services : Holders(s) # {} => ctx[s] = "live"
    BY DEF IInv, Refs
  <2>2. \A s \in Services : Owners(s) # {} => qmem[s] = "live"
    <3> SUFFICES ASSUME NEW s \in Services, NEW k \in Owners(s)
                 PROVE  qmem[s] = "live"
      OBVIOUS
    <3>1. OnQ(s) \/ Held(s)
      BY DEF Owners, OnQ, Held
    <3> QED BY <3>1 DEF IInv, Places, Flags
  <2>3. \A t \in Threads : iopc[t] \in {"push", "mark"} =>
          qmem[iosvc[t]] = "live"
    BY HolderAlive DEF IInv, Places, Alive
  <2>4. \A t \in Threads : iopc[t] \in {"mark", "free"} =>
          ctx[iosvc[t]] = "live"
    BY DEF IInv, Refs, Deleting
  <2>5. \A t \in Threads : iopc[t] = "mark" => ~ release[iosvc[t]]
    BY DEF IInv, Refs, Deleting
  <2>6. \A t, u \in Threads :
          t # u /\ iopc[t] \in {"mark", "free"} /\ iopc[u] \in {"mark", "free"}
            => iosvc[t] # iosvc[u]
    BY DEF IInv, Refs, Deleting
  <2>7. ASSUME NEW w \in Workers, oppc[w] = "setinit"
        PROVE  ctx[opsvc[w]] = "live" \/ opsvc[w] \notin slot
    <3> SUFFICES ASSUME opsvc[w] \in slot PROVE ctx[opsvc[w]] = "live"
      OBVIOUS
    <3>1. opsvc[w] \in Services
      BY DEF IInv, TypeOK
    <3>2. <<"slot", None>> \in Holders(opsvc[w])
      BY DEF Holders, Tokens, Holds
    <3> QED BY <2>1, <3>1, <3>2
  <2> QED BY <2>1, <2>2, <2>3, <2>4, <2>5, <2>6, <2>7 DEF MemorySafety
<1> QED BY <1>1, Invariance, PTL

(* When CHECK_ABORT sees no context, no thread holds one.                  *)
THEOREM AbortSafe == Spec => []AbortIsSafe
<1>1. IInv => AbortIsSafe
  <2> SUFFICES ASSUME IInv, total = 0, NEW s \in Services
               PROVE  Holders(s) = {}
    BY DEF AbortIsSafe
  <2>1. LiveContexts \subseteq Services
    BY DEF LiveContexts
  <2>2. LiveContexts = {}
    BY <2>1, KernelAssumption, FS_Subset, FS_EmptySet DEF IInv, TotalExact
  <2> QED BY <2>2 DEF LiveContexts, IInv, Refs
<1> QED BY <1>1, Invariance, PTL

(* A queue is freed only when it is empty and out of everybody's reach.    *)
THEOREM FreedQueueUnreachable == Spec => FreedWhenUnreachable
<1> DEFINE Step == \A s \in Services : qmem[s] = "live" /\ qmem'[s] = "freed" =>
             /\ queue[s] = << >> /\ s \notin slot /\ Holders(s) = {}
             /\ \A t \in Threads :
                  ~(iopc[t] \in {"push", "mark"} /\ iosvc[t] = s)
<1>1. IInv /\ [Next]_vars => [Step]_vars
  <2> SUFFICES ASSUME IInv, Next, NEW s \in Services,
                      qmem[s] = "live", qmem'[s] = "freed"
               PROVE  /\ queue[s] = << >> /\ s \notin slot /\ Holders(s) = {}
                      /\ \A t \in Threads :
                           ~(iopc[t] \in {"push", "mark"} /\ iosvc[t] = s)
    BY DEF vars
  <2>1. qmem' # qmem
    OBVIOUS
  <2>2. ASSUME NEW w \in Workers, NEW x \in Services, LaunchRegister(w, x)
        PROVE  FALSE
    BY <2>2 DEF LaunchRegister, IInv, TypeOK
  <2>3. PICK w \in Workers : DropEnd(w) \/ LaunchDropEnd(w)
    BY <2>1, <2>2 DEF Next, Context, Launch, Dispatch, Service, MqPush, Unref,
       MarkRelease, FreeContext, SendGrab, Send, Retire, LaunchOk, LaunchSetInit,
       LaunchPost, LaunchFail, LaunchRetire, LaunchMqRelease, LaunchDrop,
       TakeQueue, Grab, MqRelease, Drop, DropMessage, PopMessage, QueueLength,
       PopEmpty, CallbackEnd, Rotate, PushBack, EndTurn, mqVars
  <2>4. queue[s] = << >> /\ release[s]
    <3>1. CASE DropEnd(w)
      BY <3>1 DEF DropEnd, ReleaseQueue, At, IInv, TypeOK, Places, Mem
    <3>2. CASE LaunchDropEnd(w)
      BY <3>2 DEF LaunchDropEnd, ReleaseQueue, IInv, TypeOK, Places, Mem
    <3> QED BY <2>3, <3>1, <3>2
  <2>5. Holders(s) = {}
    BY <2>4 DEF IInv, Refs
  <2>6. s \notin slot /\ \A t \in Threads :
          ~(iopc[t] \in {"push", "mark"} /\ iosvc[t] = s)
    BY <2>4, HolderAlive DEF IInv, Places, Alive
  <2> QED BY <2>4, <2>5, <2>6
<1> QED BY <1>1, Invariance, PTL DEF Spec, FreedWhenUnreachable

-----------------------------------------------------------------------------
(* The kernel implements Actor. A queue that is not there holds nothing,   *)
(* which IInv does not say.                                                *)
Emptied == \A s \in Services : qmem[s] # "live" => queue[s] = << >>

LEMMA NextEmptied ==
  ASSUME IInv, Emptied, [Next]_vars
  PROVE  Emptied'
<1> USE KernelAssumption DEF Emptied, IInv, TypeOK, ctxVars, mqVars, loopVars,
        opVars, ioVars
<1>1. ASSUME NEW t \in Threads, MqPush(t) PROVE Emptied'
  <2>1. iosvc[t] \in Services /\ qmem[iosvc[t]] = "live"
    BY <1>1, HolderAlive DEF MqPush, Places, Alive, Ctl, ThreadCtl
  <2> QED BY <1>1, <2>1 DEF MqPush
<1>2. ASSUME NEW w \in Workers, NEW s \in Services, LaunchRegister(w, s)
      PROVE  Emptied'
  BY <1>2 DEF LaunchRegister
<1>3. ASSUME NEW w \in Workers,
             LaunchDrop(w) \/ Drop(w) \/ PopMessage(w)
      PROVE  Emptied'
  <2>1. PICK s : /\ qmem' = qmem /\ queue[s] # << >>
                 /\ queue' = [queue EXCEPT ![s] = Tail(@)]
    BY <1>3 DEF LaunchDrop, Drop, PopMessage, DropMessage
  <2> QED BY <2>1
<1>4. ASSUME NEW w \in Workers, LaunchDropEnd(w) \/ DropEnd(w) PROVE Emptied'
  BY <1>4 DEF LaunchDropEnd, DropEnd, ReleaseQueue
<1>5. CASE UNCHANGED <<queue, qmem>>
  BY <1>5
<1> QED BY <1>1, <1>2, <1>3, <1>4, <1>5 DEF Next, Context, Launch, Dispatch,
     Service, Unref, MarkRelease, FreeContext, SendGrab, Send, Retire, LaunchOk,
     LaunchSetInit, LaunchPost, LaunchFail, LaunchRetire, LaunchMqRelease,
     TakeQueue, Grab, MqRelease, QueueLength, PopEmpty, CallbackEnd, Rotate,
     PushBack, EndTurn, vars

(* What a service is doing, without CHOOSE: the worker that runs its init  *)
(* function, or that has a message of it, is the only one.                 *)
InInit(w, s) == opsvc[w] = s /\ oppc[w] = "init"

Serves(w, s) == cur[w] = s /\ msg[w] # None

Doing ==
  \A s \in Services :
    /\ \A w \in Workers : InInit(w, s) => Activity[s] = "starting"
    /\ \A w \in Workers : Serves(w, s) => Activity[s] = msg[w]
    /\ (\A w \in Workers : ~ InInit(w, s) /\ ~ Serves(w, s)) =>
         Activity[s] = None

LEMMA ActivityKnown == IInv => Doing
<1> SUFFICES ASSUME IInv, NEW s \in Services
             PROVE  /\ \A w \in Workers :
                         InInit(w, s) => Activity[s] = "starting"
                    /\ \A w \in Workers : Serves(w, s) => Activity[s] = msg[w]
                    /\ (\A w \in Workers : ~ InInit(w, s) /\ ~ Serves(w, s)) =>
                         Activity[s] = None
  BY DEF Doing
<1>1. Activity[s] =
        IF \E w \in Workers : InInit(w, s) THEN "starting"
        ELSE IF \E w \in Workers : Serves(w, s)
          THEN msg[CHOOSE w \in Workers : Serves(w, s)]
        ELSE None
  BY DEF Activity, InInit, Serves
<1>2. s # None
  BY KernelAssumption
<1>3. \A w \in Workers : Serves(w, s) => hand[w] = s
  BY <1>2 DEF IInv, Ctl, WorkerCtl, InTurn, Serves
<1>4. \A v, w \in Workers : ~ (InInit(v, s) /\ Serves(w, s))
  BY <1>2, <1>3 DEF IInv, Places, Own, InInit
<1>5. \A v, w \in Workers : Serves(v, s) /\ Serves(w, s) => v = w
  BY <1>2, <1>3 DEF IInv, Places, Own
<1>6. ASSUME NEW w \in Workers, Serves(w, s) PROVE Activity[s] = msg[w]
  <2>1. (CHOOSE v \in Workers : Serves(v, s)) = w
    BY <1>5, <1>6
  <2> QED BY <1>1, <1>4, <1>6, <2>1
<1> QED BY <1>1, <1>6

(* A step that changes neither who runs what, nor which contexts and       *)
(* queues there are, is a stutter of the abstract service.                 *)
LEMMA SameActivity ==
  ASSUME Doing, Doing',
         \A w \in Workers, s \in Services :
           /\ InInit(w, s)' <=> InInit(w, s)
           /\ Serves(w, s)' <=> Serves(w, s)
           /\ Serves(w, s) => msg'[w] = msg[w]
  PROVE  Activity' = Activity
<1>1. ASSUME NEW s \in Services PROVE Activity'[s] = Activity[s]
  <2>1. CASE \E w \in Workers : InInit(w, s)
    BY <2>1 DEF Doing
  <2>2. CASE \E w \in Workers : Serves(w, s)
    BY <2>2 DEF Doing
  <2>3. CASE \A w \in Workers : ~ InInit(w, s) /\ ~ Serves(w, s)
    BY <2>3 DEF Doing
  <2> QED BY <2>1, <2>2, <2>3
<1>2. /\ Activity = [s \in Services |-> Activity[s]]
      /\ Activity' = [s \in Services |-> Activity'[s]]
  BY DEF Activity
<1> QED BY <1>1, <1>2

LEMMA SamePhase ==
  ASSUME UNCHANGED <<slot, qmem>>,
         \A s \in Services : (ctx'[s] = "none") <=> (ctx[s] = "none")
  PROVE  Phase' = Phase
BY DEF Phase

(* Only the activity of s changes.                                         *)
LEMMA OneActivity ==
  ASSUME Doing, Doing', NEW s \in Services,
         \A w \in Workers, x \in Services : x # s =>
           /\ InInit(w, x)' <=> InInit(w, x)
           /\ Serves(w, x)' <=> Serves(w, x)
           /\ Serves(w, x) => msg'[w] = msg[w]
  PROVE  Activity' = [Activity EXCEPT ![s] = Activity'[s]]
<1>1. ASSUME NEW x \in Services, x # s PROVE Activity'[x] = Activity[x]
  <2>1. CASE \E w \in Workers : InInit(w, x)
    BY <1>1, <2>1 DEF Doing
  <2>2. CASE \E w \in Workers : Serves(w, x)
    BY <1>1, <2>2 DEF Doing
  <2>3. CASE \A w \in Workers : ~ InInit(w, x) /\ ~ Serves(w, x)
    BY <1>1, <2>3 DEF Doing
  <2> QED BY <2>1, <2>2, <2>3
<1>2. /\ Activity = [x \in Services |-> Activity[x]]
      /\ Activity' = [x \in Services |-> Activity'[x]]
  BY DEF Activity
<1> QED BY <1>1, <1>2

(* A service that somebody holds is open, or closed.                       *)
LEMMA AlivePhase ==
  ASSUME IInv, NEW s \in Services, Alive(s)
  PROVE  Phase[s] = IF s \in slot THEN "open" ELSE "closed"
BY DEF Phase, Alive

(* Every step of the kernel is a step of one service in Actor, or none.    *)
LEMMA ActorStep ==
  ASSUME IInv, IInv', Emptied, [Next]_vars
  PROVE  [A!Next]_<<Phase, queue, Activity>>
<1>0. IInv /\ IInv' /\ Emptied
  OBVIOUS
<1>d. Doing /\ Doing'
  <2>1. Doing
    BY <1>0, ActivityKnown
  <2>2. Doing'
    BY <1>0, ActivityKnown, PTL
  <2> QED BY <2>1, <2>2
<1>t. TypeOK /\ TypeOK' /\ Ctl /\ Ctl'
  BY <1>0 DEF IInv
<1>p. Phase = [s \in Services |-> Phase[s]]
  BY DEF Phase
<1> USE KernelAssumption DEF ctxVars, mqVars, loopVars, opVars, ioVars
<1>1. ASSUME NEW t \in Threads, MqPush(t) PROVE A!Next
  <2>1. /\ iosvc[t] \in Services /\ iomsg[t] \in Message
        /\ Alive(iosvc[t])
    BY <1>0, <1>1, HolderAlive DEF MqPush, IInv, TypeOK, Ctl, ThreadCtl, Places
  <2>2. Phase[iosvc[t]] \in {"open", "closed"}
    BY <1>0, <2>1, AlivePhase
  <2>3. Phase' = Phase
    BY <1>1, SamePhase DEF MqPush
  <2>4. Activity' = Activity
    BY <1>1, <1>d, SameActivity DEF MqPush, InInit, Serves
  <2>5. queue' = [queue EXCEPT ![iosvc[t]] = Append(@, iomsg[t])]
    BY <1>1 DEF MqPush
  <2> QED BY <2>1, <2>2, <2>3, <2>4, <2>5 DEF A!Next, A!Accept
<1>2. ASSUME NEW w \in Workers, NEW s \in Services, Retire(w, s)
      PROVE  A!Next
  <2>1. Alive(s) /\ Phase[s] = "open"
    BY <1>0, <1>2, HolderAlive, AlivePhase DEF Retire, IInv, Places
  <2>2. Phase' = [Phase EXCEPT ![s] = "closed"]
    BY <1>2, <2>1, <1>t DEF Retire, Phase, Alive, TypeOK
  <2>3. Activity' = Activity
    BY <1>2, <1>d, SameActivity DEF Retire, InInit, Serves
  <2> QED BY <1>2, <2>1, <2>2, <2>3 DEF Retire, A!Next, A!Close
<1>3. ASSUME NEW w \in Workers, NEW s \in Services, LaunchRegister(w, s)
      PROVE  A!Next
  <2>1. Phase[s] = "unborn" /\ queue[s] = << >>
    BY <1>0, <1>3 DEF LaunchRegister, Phase, IInv, Places, Mem, Emptied
  <2>2. Phase' = [Phase EXCEPT ![s] = "open"]
    BY <1>3, <1>t DEF LaunchRegister, Phase, TypeOK
  <2>3. queue' = queue
    BY <1>3, <1>t, <2>1 DEF LaunchRegister, TypeOK
  <2>4. opsvc[w] = None /\ s # None
    BY <1>3, <1>t DEF LaunchRegister, Ctl, WorkerCtl
  <2>5. InInit(w, s)'
    BY <1>3, <1>t DEF LaunchRegister, InInit, TypeOK
  <2>6. \A v \in Workers, x \in Services : x # s =>
           /\ InInit(v, x)' <=> InInit(v, x)
           /\ Serves(v, x)' <=> Serves(v, x)
           /\ Serves(v, x) => msg'[v] = msg[v]
    BY <1>3, <1>t, <2>4 DEF LaunchRegister, InInit, Serves, TypeOK
  <2>7. Activity' = [Activity EXCEPT ![s] = "starting"]
    BY <1>d, <2>5, <2>6, OneActivity DEF Doing
  <2> QED BY <2>1, <2>2, <2>3, <2>7 DEF A!Next, A!Create
<1>4. ASSUME NEW w \in Workers, LaunchOk(w) \/ LaunchFail(w)
      PROVE  [A!Next]_<<Phase, queue, Activity>>
  <2>1. PICK s \in Services : s # None /\ s = opsvc[w] /\ InInit(w, s)
    BY <1>4, <1>t DEF LaunchOk, LaunchFail, Ctl, WorkerCtl, TypeOK, InInit
  <2>2. oppc'[w] # "init" /\ \A v \in Workers : v # w => oppc'[v] = oppc[v]
    BY <1>4, <1>t DEF LaunchOk, LaunchFail, TypeOK
  <2>3. UNCHANGED <<slot, qmem, ctx, queue, opsvc, cur, msg>>
    BY <1>4 DEF LaunchOk, LaunchFail
  <2>4. \A v \in Workers : ~ InInit(v, s)' /\ ~ Serves(v, s)
    <3>1. \A v \in Workers : v # w => opsvc[v] # s
      BY <1>0, <2>1 DEF IInv, Places, Own
    <3>2. \A v \in Workers : Serves(v, s) => hand[v] = s
      BY <1>t, <2>1 DEF Ctl, WorkerCtl, InTurn, Serves
    <3>3. \A v \in Workers : hand[v] # s
      BY <1>0, <2>1 DEF IInv, Places, Own
    <3> QED BY <2>2, <2>3, <3>1, <3>2, <3>3 DEF InInit
  <2>5. \A v \in Workers : ~ Serves(v, s)'
    BY <2>3, <2>4 DEF Serves
  <2>6. Activity[s] = "starting" /\ Activity'[s] = None
    BY <1>d, <2>1, <2>4, <2>5 DEF Doing
  <2>7. \A v \in Workers, x \in Services : x # s =>
           /\ InInit(v, x)' <=> InInit(v, x)
           /\ Serves(v, x)' <=> Serves(v, x)
           /\ Serves(v, x) => msg'[v] = msg[v]
    BY <2>1, <2>2, <2>3 DEF InInit, Serves
  <2>8. Activity' = [Activity EXCEPT ![s] = None]
    BY <1>d, <2>1, <2>6, <2>7, OneActivity
  <2>9. Phase' = Phase
    BY <2>3, SamePhase
  <2>10. CASE "starting" = None
    <3>1. Activity' = Activity
      BY <2>6, <2>8, <2>10 DEF Activity
    <3> QED BY <2>3, <2>9, <3>1
  <2>11. CASE "starting" # None
    BY <2>1, <2>3, <2>6, <2>8, <2>9, <2>11 DEF A!Next, A!End
  <2> QED BY <2>10, <2>11
<1>5. ASSUME NEW w \in Workers, LaunchRetire(w)
      PROVE  [A!Next]_<<Phase, queue, Activity>>
  <2>1. PICK s \in Services : s = opsvc[w]
    BY <1>5, <1>t DEF LaunchRetire, Ctl, WorkerCtl, TypeOK
  <2>2. Activity' = Activity
    BY <1>5, <1>d, <1>t, SameActivity
       DEF LaunchRetire, InInit, Serves, TypeOK
  <2>3. CASE s \in slot
    <3>1. Alive(s) /\ Phase[s] = "open"
      BY <1>0, <2>1, <2>3, HolderAlive, AlivePhase DEF IInv, Places
    <3>2. Phase' = [Phase EXCEPT ![s] = "closed"]
      BY <1>5, <2>1, <3>1, <1>t DEF LaunchRetire, Phase, Alive, TypeOK
    <3> QED BY <1>5, <2>1, <2>2, <3>1, <3>2 DEF LaunchRetire, A!Next, A!Close
  <2>4. CASE s \notin slot
    <3>1. slot' = slot /\ UNCHANGED <<qmem, ctx, queue>>
      BY <1>5, <2>1, <2>4 DEF LaunchRetire
    <3> QED BY <2>2, <3>1, SamePhase
  <2> QED BY <2>3, <2>4
<1>6. ASSUME NEW w \in Workers, NEW s \in Services, release[s],
             qmem[s] = "live"
      PROVE  /\ Phase[s] = "closed"
             /\ \A v \in Workers : ~ InInit(v, s) /\ ~ Serves(v, s)
             /\ Activity[s] = None
  <2>1. Holders(s) = {} /\ ctx[s] # "none"
    BY <1>0, <1>6 DEF IInv, Refs
  <2>2. s \notin slot
    <3>1. s \in slot => <<"slot", None>> \in Holders(s)
      BY DEF Holders, Holds, Tokens
    <3> QED BY <2>1, <3>1
  <2>3. \A v \in Workers : ~ InInit(v, s) /\ ~ Serves(v, s)
    <3>1. \A v \in Workers : InInit(v, s) => <<"op", v>> \in Holders(s)
      BY DEF Holders, Holds, Tokens, InInit
    <3>2. \A v \in Workers : Serves(v, s) => <<"cur", v>> \in Holders(s)
      BY DEF Holders, Holds, Tokens, Serves
    <3> QED BY <2>1, <3>1, <3>2
  <2> QED BY <1>d, <1>6, <2>1, <2>2, <2>3 DEF Phase, Doing
<1>7. ASSUME NEW w \in Workers, LaunchDrop(w) \/ Drop(w) PROVE A!Next
  <2>1. PICK s \in Services :
          /\ release[s] /\ qmem[s] = "live" /\ DropMessage(w, s)
    <3>1. CASE LaunchDrop(w)
      <4>1. oppc[w] = "drop" /\ opsvc[w] \in Services
        BY <1>t, <3>1 DEF LaunchDrop, Ctl, WorkerCtl, TypeOK
      <4>2. release[opsvc[w]] /\ qmem[opsvc[w]] = "live"
        BY <1>0, <4>1 DEF IInv, Places, Mem, Flags, Held
      <4> QED BY <3>1, <4>1, <4>2 DEF LaunchDrop
    <3>2. CASE Drop(w)
      <4>1. wpc[w] = "drop" /\ hand[w] \in Services
        BY <1>t, <3>2 DEF Drop, At, Ctl, WorkerCtl, TypeOK
      <4>2. release[hand[w]] /\ qmem[hand[w]] = "live"
        BY <1>0, <4>1 DEF IInv, Places, Mem, Flags, Held
      <4> QED BY <3>2, <4>1, <4>2 DEF Drop
    <3> QED BY <1>7, <3>1, <3>2
  <2>2. Phase[s] = "closed" /\ Activity[s] = None
    BY <1>6, <2>1
  <2>3. Phase' = Phase
    BY <2>1, SamePhase DEF DropMessage
  <2>4. Activity' = Activity
    BY <1>d, <2>1, SameActivity DEF DropMessage, InInit, Serves
  <2> QED BY <2>1, <2>2, <2>3, <2>4 DEF DropMessage, A!Next, A!Discard
<1>8. ASSUME NEW w \in Workers, LaunchDropEnd(w) \/ DropEnd(w) PROVE A!Next
  <2>1. PICK s \in Services :
          /\ release[s] /\ qmem[s] = "live" /\ queue[s] = << >>
          /\ qmem' = [qmem EXCEPT ![s] = "freed"]
    <3>1. CASE LaunchDropEnd(w)
      <4>1. oppc[w] = "drop" /\ opsvc[w] \in Services
        BY <1>t, <3>1 DEF LaunchDropEnd, Ctl, WorkerCtl, TypeOK
      <4>2. release[opsvc[w]] /\ qmem[opsvc[w]] = "live"
        BY <1>0, <4>1 DEF IInv, Places, Mem, Flags, Held
      <4> QED BY <3>1, <4>1, <4>2 DEF LaunchDropEnd, ReleaseQueue
    <3>2. CASE DropEnd(w)
      <4>1. wpc[w] = "drop" /\ hand[w] \in Services
        BY <1>t, <3>2 DEF DropEnd, At, Ctl, WorkerCtl, TypeOK
      <4>2. release[hand[w]] /\ qmem[hand[w]] = "live"
        BY <1>0, <4>1 DEF IInv, Places, Mem, Flags, Held
      <4> QED BY <3>2, <4>1, <4>2 DEF DropEnd, ReleaseQueue
    <3> QED BY <1>8, <3>1, <3>2
  <2>2. Phase[s] = "closed" /\ Activity[s] = None
    BY <1>6, <2>1
  <2>3. UNCHANGED <<slot, ctx, queue, cur, msg>>
    BY <1>8 DEF LaunchDropEnd, DropEnd
  <2>4. Phase' = [Phase EXCEPT ![s] = "gone"]
    <3>1. s \notin slot /\ ctx[s] # "none"
      BY <2>2 DEF Phase
    <3>2. \A x \in Services : x # s => Phase'[x] = Phase[x]
      BY <1>t, <2>1, <2>3 DEF Phase, TypeOK
    <3>3. Phase'[s] = "gone"
      BY <1>t, <2>1, <2>3, <3>1 DEF Phase, TypeOK
    <3>4. Phase' = [x \in Services |-> Phase'[x]]
      BY DEF Phase
    <3> QED BY <1>p, <3>2, <3>3, <3>4
  <2>5. Activity' = Activity
    <3>1. \A v \in Workers, x \in Services : InInit(v, x)' <=> InInit(v, x)
      BY <1>8, <1>t DEF LaunchDropEnd, DropEnd, InInit, TypeOK
    <3> QED BY <1>d, <2>3, <3>1, SameActivity DEF Serves
  <2> QED BY <2>1, <2>2, <2>3, <2>4, <2>5 DEF A!Next, A!Vanish
<1>9. ASSUME NEW w \in Workers, PopMessage(w) PROVE A!Next
  <2>1. PICK s \in Services :
          /\ s = hand[w] /\ s = cur[w] /\ s # None /\ queue[s] # << >>
          /\ msg' = [msg EXCEPT ![w] = Head(queue[s])]
          /\ queue' = [queue EXCEPT ![s] = Tail(@)]
    <3>1. hand[w] \in Services /\ hand[w] # None /\ hand[w] = cur[w]
      BY <1>9, <1>t DEF PopMessage, Ctl, WorkerCtl, InTurn, TypeOK
    <3> QED BY <1>9, <3>1 DEF PopMessage
  <2>2. Head(queue[s]) # None
    BY <1>t, <2>1, NoneAssumption DEF TypeOK
  <2>3. UNCHANGED <<slot, ctx, qmem, cur, opsvc, oppc>>
    BY <1>9 DEF PopMessage
  <2>4. Phase[s] \in {"open", "closed"}
    BY <1>0, <1>t, <2>1, HolderAlive, AlivePhase DEF IInv, Places
  <2>5. \A v \in Workers : ~ InInit(v, s) /\ ~ Serves(v, s)
    <3>1. \A v \in Workers : opsvc[v] # s
      BY <1>0, <2>1 DEF IInv, Places, Own
    <3>2. msg[w] = None
      BY <1>9, <1>t DEF PopMessage, Ctl, WorkerCtl
    <3>3. \A v \in Workers : Serves(v, s) => hand[v] = s
      BY <1>t, <2>1 DEF Ctl, WorkerCtl, InTurn, Serves
    <3>4. \A v \in Workers : Serves(v, s) => v = w
      BY <1>0, <2>1, <3>3 DEF IInv, Places, Own
    <3> QED BY <3>1, <3>2, <3>4 DEF InInit, Serves
  <2>6. Activity[s] = None
    BY <1>d, <2>5 DEF Doing
  <2>7. Serves(w, s)' /\ msg'[w] = Head(queue[s])
    BY <1>t, <2>1, <2>2, <2>3 DEF Serves, TypeOK
  <2>8. Activity'[s] = Head(queue[s])
    BY <1>d, <2>7 DEF Doing
  <2>9. \A v \in Workers, x \in Services : x # s =>
           /\ InInit(v, x)' <=> InInit(v, x)
           /\ Serves(v, x)' <=> Serves(v, x)
           /\ Serves(v, x) => msg'[v] = msg[v]
    BY <1>t, <2>1, <2>3 DEF InInit, Serves, TypeOK
  <2>10. Activity' = [Activity EXCEPT ![s] = Head(queue[s])]
    BY <1>d, <2>8, <2>9, OneActivity
  <2>11. Phase' = Phase
    BY <2>3, SamePhase
  <2> QED BY <2>1, <2>4, <2>6, <2>10, <2>11 DEF A!Next, A!Begin
<1>10. ASSUME NEW w \in Workers, CallbackEnd(w) PROVE A!Next
  <2>1. PICK s \in Services :
          /\ s = hand[w] /\ s = cur[w] /\ s # None /\ Serves(w, s)
          /\ msg' = [msg EXCEPT ![w] = None]
    BY <1>10, <1>t
       DEF CallbackEnd, At, Ctl, WorkerCtl, InTurn, TypeOK, Serves
  <2>2. UNCHANGED <<slot, ctx, qmem, queue, cur, opsvc, oppc>>
    BY <1>10 DEF CallbackEnd
  <2>3. Activity[s] # None
    BY <1>d, <2>1 DEF Doing, Serves
  <2>4. \A v \in Workers : ~ InInit(v, s)' /\ ~ Serves(v, s)'
    <3>1. \A v \in Workers : opsvc[v] # s
      BY <1>0, <2>1 DEF IInv, Places, Own
    <3>2. \A v \in Workers : Serves(v, s) => hand[v] = s
      BY <1>t, <2>1 DEF Ctl, WorkerCtl, InTurn, Serves
    <3>3. \A v \in Workers : Serves(v, s) => v = w
      BY <1>0, <2>1, <3>2 DEF IInv, Places, Own
    <3> QED BY <1>t, <2>1, <2>2, <3>1, <3>3 DEF InInit, Serves, TypeOK
  <2>5. Activity'[s] = None
    BY <1>d, <2>4 DEF Doing
  <2>6. \A v \in Workers, x \in Services : x # s =>
           /\ InInit(v, x)' <=> InInit(v, x)
           /\ Serves(v, x)' <=> Serves(v, x)
           /\ Serves(v, x) => msg'[v] = msg[v]
    BY <1>t, <2>1, <2>2 DEF InInit, Serves, TypeOK
  <2>7. Activity' = [Activity EXCEPT ![s] = None]
    BY <1>d, <2>5, <2>6, OneActivity
  <2>8. Phase' = Phase
    BY <2>2, SamePhase
  <2> QED BY <2>2, <2>3, <2>7, <2>8 DEF A!Next, A!End
<1>11. ASSUME UNCHANGED <<slot, qmem, queue>>,
              \A s \in Services : (ctx'[s] = "none") <=> (ctx[s] = "none"),
              \A v \in Workers, x \in Services :
                /\ InInit(v, x)' <=> InInit(v, x)
                /\ Serves(v, x)' <=> Serves(v, x)
                /\ Serves(v, x) => msg'[v] = msg[v]
       PROVE  UNCHANGED <<Phase, queue, Activity>>
  BY <1>11, <1>d, SamePhase, SameActivity
<1>12. ASSUME NEW t \in Threads,
              Unref(t) \/ MarkRelease(t) \/ SendGrab(t)
                \/ \E s \in Services : Send(t, s)
       PROVE  UNCHANGED <<Phase, queue, Activity>>
  <2>1. UNCHANGED <<slot, ctx, qmem, queue, cur, msg, opsvc, oppc>>
    BY <1>12 DEF Unref, MarkRelease, SendGrab, Send
  <2> QED BY <1>11, <2>1 DEF InInit, Serves
<1>13. ASSUME NEW t \in Threads, FreeContext(t)
       PROVE  UNCHANGED <<Phase, queue, Activity>>
  <2>1. UNCHANGED <<slot, qmem, queue, cur, msg, opsvc, oppc>>
    BY <1>13 DEF FreeContext
  <2>2. iosvc[t] \in Services /\ ctx[iosvc[t]] = "live"
    BY <1>0, <1>t, <1>13
       DEF FreeContext, IInv, Refs, Deleting, Ctl, ThreadCtl, TypeOK
  <2>3. \A s \in Services : (ctx'[s] = "none") <=> (ctx[s] = "none")
    BY <1>13, <1>t, <2>2 DEF FreeContext, TypeOK
  <2> QED BY <1>11, <2>1, <2>3 DEF InInit, Serves
<1>14. ASSUME NEW w \in Workers,
              LaunchSetInit(w) \/ LaunchPost(w) \/ LaunchMqRelease(w)
       PROVE  UNCHANGED <<Phase, queue, Activity>>
  <2>1. UNCHANGED <<slot, ctx, qmem, queue, cur, msg>>
    BY <1>14 DEF LaunchSetInit, LaunchPost, LaunchMqRelease
  <2>2. /\ oppc[w] # "init" /\ oppc'[w] # "init"
        /\ \A v \in Workers : v # w =>
             oppc'[v] = oppc[v] /\ opsvc'[v] = opsvc[v]
    BY <1>14, <1>t DEF LaunchSetInit, LaunchPost, LaunchMqRelease, TypeOK
  <2>3. \A v \in Workers, x \in Services : InInit(v, x)' <=> InInit(v, x)
    BY <2>2 DEF InInit
  <2> QED BY <1>11, <2>1, <2>3 DEF Serves
<1>15. ASSUME NEW w \in Workers,
              TakeQueue(w) \/ MqRelease(w) \/ QueueLength(w) \/ PopEmpty(w)
                \/ Rotate(w) \/ PushBack(w)
       PROVE  UNCHANGED <<Phase, queue, Activity>>
  <2>1. UNCHANGED <<slot, ctx, qmem, queue, cur, msg, opsvc, oppc>>
    BY <1>15 DEF TakeQueue, MqRelease, QueueLength, PopEmpty, Rotate, PushBack
  <2> QED BY <1>11, <2>1 DEF InInit, Serves
<1>16. ASSUME NEW w \in Workers, Grab(w) \/ EndTurn(w)
       PROVE  UNCHANGED <<Phase, queue, Activity>>
  <2>1. UNCHANGED <<slot, ctx, qmem, queue, msg, opsvc, oppc>>
    BY <1>16 DEF Grab, EndTurn
  <2>2. msg[w] = None /\ \A v \in Workers : v # w => cur'[v] = cur[v]
    <3>1. msg[w] = None
      BY <1>16, <1>t DEF Grab, EndTurn, At, Ctl, WorkerCtl
    <3>2. cur' = [cur EXCEPT ![w] = cur'[w]]
      BY <1>16, <1>t DEF Grab, EndTurn, TypeOK
    <3> QED BY <1>t, <3>1, <3>2 DEF TypeOK
  <2>3. \A v \in Workers, x \in Services :
           /\ Serves(v, x)' <=> Serves(v, x)
           /\ Serves(v, x) => msg'[v] = msg[v]
    BY <2>1, <2>2 DEF Serves
  <2> QED BY <1>11, <2>1, <2>3 DEF InInit
<1>17. CASE UNCHANGED vars
  <2>1. UNCHANGED <<slot, ctx, qmem, queue, cur, msg, opsvc, oppc>>
    BY <1>17 DEF vars
  <2> QED BY <1>11, <2>1 DEF InInit, Serves
<1> QED BY <1>1, <1>2, <1>3, <1>4, <1>5, <1>7, <1>8, <1>9, <1>10, <1>12, <1>13,
       <1>14, <1>15, <1>16, <1>17 DEF Next, Context, Launch, Dispatch, Service

(* The kernel implements Actor: the initial states agree, and every step   *)
(* is one of Actor's or a stutter.                                         *)
THEOREM ImplementsActor == Spec => ActorSpec
<1>1. Init => Emptied /\ A!Init
  <2> SUFFICES ASSUME Init PROVE Emptied /\ A!Init
    OBVIOUS
  <2>1. IInv
    BY InitCtl, InitRefs, InitPlaces, InitTotal DEF IInv
  <2>2. Emptied
    BY DEF Init, Emptied
  <2>3. Activity = [s \in Services |-> None]
    <3>1. Doing
      BY <2>1, ActivityKnown
    <3>2. \A s \in Services : Activity[s] = None
      BY <3>1 DEF Init, Doing, InInit, Serves
    <3> QED BY <3>2 DEF Activity
  <2>4. Phase = [s \in Services |-> IF s = Root THEN "open" ELSE "unborn"]
    BY DEF Init, Phase
  <2> QED BY <2>2, <2>3, <2>4 DEF Init, A!Init
<1>2. IInv /\ Emptied /\ [Next]_vars => Emptied'
  BY NextEmptied
<1>3. IInv /\ IInv' /\ Emptied /\ [Next]_vars =>
        [A!Next]_<<Phase, queue, Activity>>
  BY ActorStep
<1> QED BY <1>1, <1>2, <1>3, Invariance, PTL
       DEF Spec, ActorSpec, A!Spec, A!avars
=============================================================================
