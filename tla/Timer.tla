------------------------------- MODULE Timer --------------------------------
(***************************************************************************)
(* The timer wheel of skynet_timer.c: a wheel of near slots, one per tick, *)
(* and four levels of coarser slots, whose nodes move inwards as time goes *)
(* on. Any thread adds a node under the spinlock; the timer thread shifts  *)
(* the wheel under the lock and gives the lock up while it dispatches what *)
(* has expired, so that a service may set a timer at that very moment.     *)
(*                                                                         *)
(* Time is an unsigned word that wraps around. In the code the near slots  *)
(* take 8 bits of it and each level 6 bits more, 32 in all: TIME_NEAR and  *)
(* TIME_LEVEL are powers of two, so that a mask is a remainder and a shift *)
(* a division. The definitions that every module has begin with Timer.     *)
(***************************************************************************)
EXTENDS Integers, Sequences, FiniteSets, SequencesExt

CONSTANTS
  TIME_NEAR,   \* near slots
  TIME_LEVEL,  \* slots of a level
  Nodes        \* timer nodes; one is used again when it has expired

ASSUME TimerAssumption ==
  /\ TIME_NEAR \in Nat \ {0, 1} /\ TIME_LEVEL \in Nat \ {0, 1}
  /\ IsFiniteSet(Nodes)

VARIABLES
  time,     \* timer.time
  near,     \* timer.near
  t,        \* timer.t
  expire,   \* timer_node.expire
  lock,     \* the timer thread has timer.lock
  pc,       \* where the timer thread is in timer_update
  current,  \* the list it dispatches
  pending,  \* the nodes not yet dispatched, in the order they were added
  due       \* how many ticks each of them has still to wait; -1 is too late

timer == <<time, near, t, expire, lock, pc, current, pending, due>>

(* How many ticks a slot of level i stands for, and what time wraps at.    *)
Span[i \in 0 .. 4] == IF i = 0 THEN TIME_NEAR ELSE TIME_LEVEL * Span[i - 1]
Wrap == Span[4]

(* skynet_timeout's time is a positive int.                                *)
Delays == 1 .. Wrap \div 2 - 1

Listed(l) == {l[k] : k \in 1 .. Len(l)}
Pending   == Listed(pending)

-----------------------------------------------------------------------------
(* The slot for a node that expires at e, when it is now. A slot is a pair *)
(* of a level and an index; near is level -1.                              *)
NEAR == -1

(* The levels on which e and now are in the same round of slots.           *)
same_round(e, now) ==
  {i \in 0 .. 2 : e \div Span[i + 1] = now \div Span[i + 1]}

place(e, now) ==
  IF e \div TIME_NEAR = now \div TIME_NEAR
  THEN <<NEAR, e % TIME_NEAR>>
  ELSE LET R == same_round(e, now)
           i == IF R = {} THEN 3 ELSE CHOOSE j \in R : \A k \in R : j <= k
       IN  <<i, (e \div Span[i]) % TIME_LEVEL>>

(* add_node: the wheel w after node n, which expires at e, is linked.      *)
Mut_add_node(w, n, e, now) ==
  LET p == place(e, now)
  IN  IF p[1] = NEAR
      THEN [w EXCEPT !.near[p[2]] = <<n>> \o @]
      ELSE [w EXCEPT !.t[p[1]][p[2]] = <<n>> \o @]
add_node(w, n, e, now) ==
  LET p == place(e, now)
  IN  IF p[1] = NEAR
      THEN [w EXCEPT !.near[p[2]] = Append(@, n)]
      ELSE [w EXCEPT !.t[p[1]][p[2]] = Append(@, n)]

(* move_list: the wheel after slot s has been cleared and its nodes added  *)
(* again.                                                                  *)
move_list(s, now) ==
  LET l == t[s[1]][s[2]]
      moved[k \in 0 .. Len(l)] ==
        IF k = 0 THEN [near |-> near, t |-> [t EXCEPT ![s[1]][s[2]] = <<>>]]
        ELSE add_node(moved[k - 1], l[k], expire[l[k]], now)
  IN  moved[Len(l)]

(* The slots that timer_shift empties when time becomes ct: the one whose  *)
(* round begins, on the first level where its index is not 0; all of time  *)
(* begins again at 0.                                                      *)
Mut_shifted(ct) ==
  {<<i, (ct \div Span[i]) % TIME_LEVEL>> : i \in
     {j \in 0 .. 3 : ct % Span[j] = 0 /\ (ct \div Span[j]) % TIME_LEVEL # 0}}
shifted(ct) ==
  IF ct = 0 THEN {<<3, 0>>}
  ELSE {<<i, (ct \div Span[i]) % TIME_LEVEL>> : i \in
          {j \in 0 .. 3 : ct % Span[j] = 0 /\ (ct \div Span[j]) % TIME_LEVEL # 0}}

-----------------------------------------------------------------------------
(* timer_create_timer.                                                     *)
TimerInit ==
  /\ time = 0
  /\ near = [k \in 0 .. TIME_NEAR - 1 |-> <<>>]
  /\ t = [i \in 0 .. 3 |-> [k \in 0 .. TIME_LEVEL - 1 |-> <<>>]]
  /\ expire = [n \in Nodes |-> 0]
  /\ lock = FALSE
  /\ pc = "sleep"
  /\ current = <<>>
  /\ pending = <<>>
  /\ due = [n \in Nodes |-> 0]

(* timer_add, by any thread, when the lock is free.                        *)
TimerAdd(n, d) ==
  /\ ~ lock
  /\ n \notin Pending
  /\ expire' = [expire EXCEPT ![n] = (d + time) % Wrap]
  /\ LET w == add_node([near |-> near, t |-> t], n, (d + time) % Wrap, time)
     IN  near' = w.near /\ t' = w.t
  /\ pending' = Append(pending, n)
  /\ due' = [due EXCEPT ![n] = d]
  /\ UNCHANGED <<time, lock, pc, current>>

(* skynet_updatetime finds that the clock has moved: timer_update.         *)
Update ==
  /\ pc = "sleep"
  /\ lock' = TRUE
  /\ pc' = "early"
  /\ UNCHANGED <<time, near, t, expire, current, pending, due>>

(* timer_execute: the slot of the present is cut off and the lock given up,*)
Take ==
  /\ lock /\ near[time % TIME_NEAR] # <<>>
  /\ current' = near[time % TIME_NEAR]
  /\ near' = [near EXCEPT ![time % TIME_NEAR] = <<>>]
  /\ lock' = FALSE
  /\ UNCHANGED <<time, t, expire, pc, pending, due>>

(* dispatch_list sends a message for each node and frees it, ...           *)
Dispatch ==
  /\ current # <<>>
  /\ current' = Tail(current)
  /\ pending' = RemoveFirst(pending, Head(current))
  /\ expire' = [expire EXCEPT ![Head(current)] = 0]
  /\ due' = [due EXCEPT ![Head(current)] = 0]
  /\ UNCHANGED <<time, near, t, lock, pc>>

(* ... and the slot is looked at again.                                    *)
Relock ==
  /\ pc # "sleep" /\ ~ lock /\ current = <<>>
  /\ lock' = TRUE
  /\ UNCHANGED <<time, near, t, expire, pc, current, pending, due>>

(* timer_shift: the next tick, and what its round has in store.            *)
Shift ==
  /\ lock /\ pc = "early" /\ near[time % TIME_NEAR] = <<>>
  /\ LET ct == (time + 1) % Wrap
     IN  /\ time' = ct
         /\ UNCHANGED expire
         /\ IF shifted(ct) = {}
            THEN UNCHANGED <<near, t>>
            ELSE \E s \in shifted(ct) :
                   near' = move_list(s, ct).near /\ t' = move_list(s, ct).t
  /\ due' = [n \in Nodes |->
               IF n \in Pending /\ due[n] >= 0 THEN due[n] - 1 ELSE due[n]]
  /\ pc' = "late"
  /\ UNCHANGED <<lock, current, pending>>

(* timer_update is done.                                                   *)
Done ==
  /\ lock /\ pc = "late" /\ near[time % TIME_NEAR] = <<>>
  /\ lock' = FALSE
  /\ pc' = "sleep"
  /\ UNCHANGED <<time, near, t, expire, current, pending, due>>

TimerThread == Update \/ Take \/ Dispatch \/ Relock \/ Shift \/ Done

TimerNext == TimerThread \/ \E n \in Nodes, d \in Delays : TimerAdd(n, d)

TimerSpec == TimerInit /\ [][TimerNext]_timer

-----------------------------------------------------------------------------
(* The type of the variables.                                              *)
TimerTypeOK ==
  /\ time \in 0 .. Wrap - 1
  /\ near \in [0 .. TIME_NEAR - 1 -> Seq(Nodes)]
  /\ t \in [0 .. 3 -> [0 .. TIME_LEVEL - 1 -> Seq(Nodes)]]
  /\ expire \in [Nodes -> 0 .. Wrap - 1]
  /\ lock \in BOOLEAN
  /\ pc \in {"sleep", "early", "late"}
  /\ current \in Seq(Nodes)
  /\ pending \in Seq(Nodes)
  /\ due \in [Nodes -> 0 .. Wrap \div 2]

(* Every list of the wheel, and the one that is being dispatched.          *)
Lists == {current} \cup {near[k] : k \in DOMAIN near}
           \cup UNION {{t[i][k] : k \in DOMAIN t[i]} : i \in DOMAIN t}

(* A timer never goes off early or late: whatever is dispatched has waited *)
(* the ticks it was set for, and whatever still waits on the wheel once    *)
(* the tick is over has some left, across every move between levels and    *)
(* when time wraps around.                                                 *)
OnTime ==
  /\ \A n \in Listed(current) : due[n] = 0 /\ expire[n] = time
  /\ pc = "sleep" => \A n \in Pending : due[n] > 0

(* Timers that expire together go off in the order they were set, however  *)
(* far ahead each was set and by whatever levels each has come: they are   *)
(* always in one list, in that order.                                      *)
SetOrder ==
  \A i, j \in 1 .. Len(pending) :
    i < j /\ due[pending[i]] = due[pending[j]] =>
      \E l \in Lists : \E a, b \in 1 .. Len(l) :
        a < b /\ l[a] = pending[i] /\ l[b] = pending[j]
=============================================================================
