----------------------------- MODULE WorkerPool -----------------------------
(***************************************************************************)
(* The threads of skynet_start.c: workers that sleep on a condition when   *)
(* the global queue is empty, the socket and timer threads that push work  *)
(* and wake them, the monitor thread, and the end of them all once the     *)
(* last service is gone.                                                   *)
(*                                                                         *)
(* Of a worker's dispatch (Kernel) only what it means here is kept: it     *)
(* takes a queue from the global queue or finds none, runs a service, which*)
(* may schedule other queues, launch or retire services, and comes back    *)
(* with a queue or without. Workers that push wake nobody.                 *)
(***************************************************************************)
EXTENDS Integers, FiniteSets

CONSTANTS
  Workers,   \* the worker threads
  Nobody,    \* the owner of a free mutex
  MaxQueues, \* bound on the queues that are scheduled
  MaxTotal   \* bound on the services

ASSUME PoolAssumption ==
  /\ IsFiniteSet(Workers) /\ Workers # {}
  /\ Nobody \notin Workers
  /\ MaxQueues \in Nat /\ MaxTotal \in Nat \ {0}

VARIABLES
  pending,  \* queues in the global queue
  total,    \* G_NODE.total
  sleep,    \* monitor.sleep
  quit,     \* monitor.quit
  mutex,    \* who has monitor.mutex
  wpc,      \* where each worker is
  tpc,      \* where the timer thread is
  spc,      \* where the socket thread is
  exiting,  \* skynet_socket_exit has been sent
  mpc       \* where the monitor thread is

vars == <<pending, total, sleep, quit, mutex, wpc, tpc, spc, exiting, mpc>>

count == Cardinality(Workers)

goto(w, l) == wpc' = [wpc EXCEPT ![w] = l]

(* Queues that are scheduled: in the global queue or with a worker.        *)
InHand == {w \in Workers : wpc[w] \in {"run", "held"}}
Scheduled == pending + Cardinality(InHand)

(* start(): the services of the bootstrap are there, with work to do.      *)
Init ==
  /\ pending = 1
  /\ total = 1
  /\ sleep = 0
  /\ quit = FALSE
  /\ mutex = Nobody
  /\ wpc = [w \in Workers |-> "check"]
  /\ tpc = "update"
  /\ spc = "poll"
  /\ exiting = FALSE
  /\ mpc = "check"

-----------------------------------------------------------------------------
(* thread_worker.                                                          *)

(* while (!m->quit). A worker that is back with a queue goes on with it.   *)
Check(w) ==
  /\ wpc[w] \in {"check", "held"}
  /\ goto(w, IF quit THEN "done" ELSE IF wpc[w] = "held" THEN "run" ELSE "pop")
  /\ UNCHANGED <<pending, total, sleep, quit, mutex, tpc, spc, exiting, mpc>>

(* skynet_globalmq_pop, at the start of a dispatch.                        *)
Pop(w) ==
  /\ wpc[w] = "pop"
  /\ IF pending > 0
     THEN pending' = pending - 1 /\ goto(w, "run")
     ELSE goto(w, "lock") /\ UNCHANGED pending
  /\ UNCHANGED <<total, sleep, quit, mutex, tpc, spc, exiting, mpc>>

(* In a callback: queues are scheduled, services launched and retired.     *)
Callback(w) ==
  /\ wpc[w] = "run" /\ total > 0
  /\ \/ /\ Scheduled < MaxQueues
        /\ pending' = pending + 1
        /\ UNCHANGED total
     \/ /\ total' \in {total - 1} \cup {n \in {total + 1} : n <= MaxTotal}
        /\ UNCHANGED pending
  /\ UNCHANGED <<sleep, quit, mutex, wpc, tpc, spc, exiting, mpc>>

(* The dispatch is over: with the same queue, with another one in exchange *)
(* for it, or, when it has run empty, with the next one if there is any.   *)
RunEnd(w) ==
  /\ wpc[w] = "run"
  /\ \/ goto(w, "held") /\ UNCHANGED pending
     \/ pending > 0 /\ pending' = pending - 1 /\ goto(w, "held")
     \/ pending = 0 /\ goto(w, "lock") /\ UNCHANGED pending
  /\ UNCHANGED <<total, sleep, quit, mutex, tpc, spc, exiting, mpc>>

(* No queue: pthread_mutex_lock, ++ m->sleep.                              *)
Lock(w) ==
  /\ wpc[w] = "lock" /\ mutex = Nobody
  /\ mutex' = w
  /\ sleep' = sleep + 1
  /\ goto(w, "test")
  /\ UNCHANGED <<pending, total, quit, tpc, spc, exiting, mpc>>

(* if (!m->quit) ...                                                       *)
Test(w) ==
  /\ wpc[w] = "test"
  /\ goto(w, IF quit THEN "awake" ELSE "cond")
  /\ UNCHANGED <<pending, total, sleep, quit, mutex, tpc, spc, exiting, mpc>>

(* ... pthread_cond_wait: the mutex is given up with the wait.             *)
Wait(w) ==
  /\ wpc[w] = "cond"
  /\ goto(w, "wait")
  /\ mutex' = Nobody
  /\ UNCHANGED <<pending, total, sleep, quit, tpc, spc, exiting, mpc>>

(* "spurious wakeup" is harmless.                                          *)
Spurious(w) ==
  /\ wpc[w] = "wait"
  /\ goto(w, "woken")
  /\ UNCHANGED <<pending, total, sleep, quit, mutex, tpc, spc, exiting, mpc>>

(* pthread_cond_wait takes the mutex again.                                *)
Relock(w) ==
  /\ wpc[w] = "woken" /\ mutex = Nobody
  /\ mutex' = w
  /\ goto(w, "awake")
  /\ UNCHANGED <<pending, total, sleep, quit, tpc, spc, exiting, mpc>>

(* -- m->sleep, pthread_mutex_unlock.                                      *)
Unlock(w) ==
  /\ wpc[w] = "awake"
  /\ sleep' = sleep - 1
  /\ mutex' = Nobody
  /\ goto(w, "check")
  /\ UNCHANGED <<pending, total, quit, tpc, spc, exiting, mpc>>

-----------------------------------------------------------------------------
Waiting == {w \in Workers : wpc[w] = "wait"}

(* wakeup: m->sleep is read without the mutex; the signal, if any, wakes   *)
(* one of the waiting workers, and is lost when there is none.             *)
wakeup(busy) ==
  IF sleep >= count - busy /\ Waiting # {}
  THEN \E w \in Waiting : goto(w, "woken")
  ELSE UNCHANGED wpc

(* thread_timer: skynet_updatetime may push; CHECK_ABORT.                  *)
TimerUpdate ==
  /\ tpc = "update"
  /\ \/ UNCHANGED pending
     \/ total > 0 /\ Scheduled < MaxQueues /\ pending' = pending + 1
  /\ tpc' = IF total = 0 THEN "exit" ELSE "wake"
  /\ UNCHANGED <<total, sleep, quit, mutex, wpc, spc, exiting, mpc>>

(* The wakeup of every tick: one worker, if any sleeps.                    *)
Mut_timer_busy == 0
timer_busy == count - 1

TimerWakeup ==
  /\ tpc = "wake"
  /\ wakeup(timer_busy)
  /\ tpc' = "update"
  /\ UNCHANGED <<pending, total, sleep, quit, mutex, spc, exiting, mpc>>

(* skynet_socket_exit, then m->quit and a broadcast under the mutex.       *)
TimerSocketExit ==
  /\ tpc = "exit"
  /\ exiting' = TRUE
  /\ tpc' = "quit"
  /\ UNCHANGED <<pending, total, sleep, quit, mutex, wpc, spc, mpc>>

Mut_TimerQuit ==
  /\ tpc = "quit"
  /\ quit' = TRUE
  /\ wpc' = [w \in Workers |-> IF w \in Waiting THEN "woken" ELSE wpc[w]]
  /\ tpc' = "done"
  /\ UNCHANGED <<pending, total, sleep, mutex, spc, exiting, mpc>>
TimerQuit ==
  /\ tpc = "quit" /\ mutex = Nobody
  /\ quit' = TRUE
  /\ wpc' = [w \in Workers |-> IF w \in Waiting THEN "woken" ELSE wpc[w]]
  /\ tpc' = "done"
  /\ UNCHANGED <<pending, total, sleep, mutex, spc, exiting, mpc>>

-----------------------------------------------------------------------------
(* thread_socket: a message is pushed, or nothing was to report and        *)
(* CHECK_ABORT is made, or the exit request has come.                      *)
SocketPoll ==
  /\ spc = "poll"
  /\ \/ /\ total > 0 /\ Scheduled < MaxQueues
        /\ pending' = pending + 1
        /\ spc' = "wake"
     \/ /\ total = 0 \/ exiting
        /\ spc' = "done"
        /\ UNCHANGED pending
  /\ UNCHANGED <<total, sleep, quit, mutex, wpc, tpc, exiting, mpc>>

SocketWakeup ==
  /\ spc = "wake"
  /\ wakeup(0)
  /\ spc' = "poll"
  /\ UNCHANGED <<pending, total, sleep, quit, mutex, tpc, exiting, mpc>>

(* thread_monitor: CHECK_ABORT between its checks.                         *)
MonitorCheck ==
  /\ mpc = "check" /\ total = 0
  /\ mpc' = "done"
  /\ UNCHANGED <<pending, total, sleep, quit, mutex, wpc, tpc, spc, exiting>>

Worker(w) == Check(w) \/ Pop(w) \/ Lock(w) \/ Test(w) \/ Wait(w)
               \/ Relock(w) \/ Unlock(w)

TimerThread == TimerUpdate \/ TimerWakeup \/ TimerSocketExit \/ TimerQuit

(* What the socket thread does without a client: notice the end.           *)
SocketEnd == SocketWakeup \/ (exiting /\ SocketPoll)

AllDone ==
  /\ tpc = "done" /\ spc = "done" /\ mpc = "done"
  /\ \A w \in Workers : wpc[w] = "done"

(* pthread_join of all threads: skynet_start returns.                      *)
Joined == AllDone /\ UNCHANGED vars

Next ==
  \/ \E w \in Workers : Worker(w) \/ Callback(w) \/ RunEnd(w) \/ Spurious(w)
  \/ TimerThread \/ SocketPoll \/ SocketWakeup \/ MonitorCheck \/ Joined

Spec == Init /\ [][Next]_vars

(* A thread that can go on does. A callback need not end.                  *)
ThreadsRun ==
  /\ \A w \in Workers : WF_vars(Worker(w))
  /\ WF_vars(TimerThread) /\ WF_vars(SocketEnd) /\ WF_vars(MonitorCheck)

FairSpec == Spec /\ ThreadsRun

-----------------------------------------------------------------------------
(* The type of the variables.                                              *)
TypeOK ==
  /\ pending \in Nat
  /\ total \in Nat
  /\ sleep \in 0 .. count
  /\ quit \in BOOLEAN
  /\ mutex \in Workers \cup {Nobody}
  /\ wpc \in [Workers -> {"check", "pop", "run", "held", "lock", "test", "cond",
                          "wait", "woken", "awake", "done"}]
  /\ tpc \in {"update", "wake", "exit", "quit", "done"}
  /\ spc \in {"poll", "wake", "done"}
  /\ exiting \in BOOLEAN
  /\ mpc \in {"check", "done"}

Asleep ==
  {w \in Workers : wpc[w] \in {"test", "cond", "wait", "woken", "awake"}}

(* monitor.sleep counts the workers that have gone to sleep and are not    *)
(* back: wakeup, which reads it without the mutex, never takes a sleeping  *)
(* pool for a busy one for good.                                           *)
SleepExact == sleep = Cardinality(Asleep)

(* No worker is left waiting behind the broadcast that ends the pool, nor  *)
(* on its way to wait, having read m->quit before it was set.              *)
NobodyLeftWaiting == quit => \A w \in Workers : wpc[w] \notin {"cond", "wait"}

(* No lost wakeup: a queue in the global queue is taken as long as any     *)
(* worker is free, even if it was pushed between that worker's last look   *)
(* and its sleep, and even if every other worker is caught in a callback   *)
(* that never returns.                                                     *)
WorkIsTaken ==
  \A n \in 1 .. MaxQueues :
    pending = n ~> pending # n \/ quit \/ \A w \in Workers : wpc[w] = "run"

(* Every callback returns, and the mutex is not kept from the timer thread *)
(* for good by workers that wake up spuriously.                            *)
CallbacksReturn == SF_vars(TimerQuit) /\ \A w \in Workers : WF_vars(RunEnd(w))

(* The end of the last service is the end of the process: all threads end, *)
(* wherever they were when it happened, if callbacks return.               *)
PoolEnds == CallbacksReturn => (total = 0 ~> AllDone)
=============================================================================
