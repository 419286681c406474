-------------------------- MODULE WorkerPoolProofs --------------------------
(***************************************************************************)
(* Proofs about WorkerPool, for any finite set of workers.                 *)
(*                                                                         *)
(* That no worker waits behind the broadcast needs the mutex: a worker     *)
(* tests m->quit and goes to wait in two steps, and the flag is not set    *)
(* between them only because the worker has the mutex. IInv says who has   *)
(* it.                                                                     *)
(***************************************************************************)
EXTENDS WorkerPool, FiniteSetTheorems, TLAPS

(* The mutex is with the worker that is between its lock and its wait, or  *)
(* between its wakeup and its unlock, and with nobody else.                *)
HasMutex == {"test", "cond", "awake"}

MutexHeld == \A w \in Workers : mutex = w <=> wpc[w] \in HasMutex

IInv == TypeOK /\ SleepExact /\ MutexHeld /\ NobodyLeftWaiting

(* Any set of workers is finite, and no larger than the pool.              *)
LEMMA AsleepFinite ==
  /\ IsFiniteSet(Asleep) /\ Cardinality(Asleep) \in 0 .. count
  /\ IsFiniteSet(Asleep') /\ Cardinality(Asleep') \in 0 .. count
  /\ count \in Nat
<1>1. Asleep \subseteq Workers /\ Asleep' \subseteq Workers
  BY DEF Asleep
<1>2. IsFiniteSet(Workers) /\ count \in Nat
  BY PoolAssumption, FS_CardinalityType DEF count
<1>3. /\ IsFiniteSet(Asleep) /\ Cardinality(Asleep) <= count
      /\ IsFiniteSet(Asleep') /\ Cardinality(Asleep') <= count
  BY <1>1, <1>2, FS_Subset DEF count
<1>4. Cardinality(Asleep) \in Nat /\ Cardinality(Asleep') \in Nat
  BY <1>3, FS_CardinalityType
<1> QED
  BY <1>2, <1>3, <1>4

(* Steps that move no worker into or out of its sleep leave the count of   *)
(* the sleepers alone.                                                     *)
LEMMA SameSleepers ==
  ASSUME SleepExact, sleep' = sleep, Asleep' = Asleep
  PROVE  SleepExact'
BY DEF SleepExact

(* A worker that goes to sleep adds itself to the count.                   *)
LEMMA LockSleeps ==
  ASSUME TypeOK, SleepExact, NEW w \in Workers, Lock(w)
  PROVE  SleepExact'
<1>1. Asleep' = Asleep \cup {w} /\ w \notin Asleep /\ sleep' = sleep + 1
  BY DEF Asleep, TypeOK, Lock, goto
<1>2. Cardinality(Asleep \cup {w}) = Cardinality(Asleep) + 1
  BY <1>1, AsleepFinite, FS_AddElement
<1> QED
  BY <1>1, <1>2 DEF SleepExact

(* A worker that is back takes itself out of it.                           *)
LEMMA UnlockWakes ==
  ASSUME TypeOK, SleepExact, NEW w \in Workers, Unlock(w)
  PROVE  SleepExact'
<1>1. Asleep' = Asleep \ {w} /\ w \in Asleep /\ sleep' = sleep - 1
  BY DEF Asleep, TypeOK, Unlock, goto
<1>2. Cardinality(Asleep \ {w}) = Cardinality(Asleep) - 1
  BY <1>1, AsleepFinite, FS_RemoveElement
<1> QED
  BY <1>1, <1>2 DEF SleepExact

(* The pool starts with all workers awake.                                 *)
LEMMA PoolInit == Init => IInv
<1> SUFFICES ASSUME Init PROVE IInv
  OBVIOUS
<1>1. Asleep = {}
  BY DEF Init, Asleep
<1>2. SleepExact
  BY <1>1, FS_EmptySet DEF Init, SleepExact
<1>3. TypeOK
  <2>1. sleep \in 0 .. count
    BY AsleepFinite DEF Init
  <2> QED
    BY <2>1 DEF Init, TypeOK
<1>4. MutexHeld /\ NobodyLeftWaiting
  BY PoolAssumption DEF Init, MutexHeld, HasMutex, NobodyLeftWaiting
<1> QED
  BY <1>2, <1>3, <1>4 DEF IInv

(* What a wakeup does to a worker, if anything: it is waiting, and then    *)
(* woken.                                                                  *)
LEMMA WakeupStep ==
  ASSUME TypeOK, NEW b, wakeup(b)
  PROVE  \/ wpc' = wpc
         \/ \E w \in Workers : wpc[w] = "wait" /\ goto(w, "woken")
BY DEF wakeup, Waiting

(* Every step of a worker preserves the invariant.                         *)
LEMMA WorkerIInv ==
  ASSUME IInv, NEW w \in Workers,
         Worker(w) \/ Callback(w) \/ RunEnd(w) \/ Spurious(w)
  PROVE  IInv'
<1> USE DEF IInv
<1>1. CASE Check(w) \/ Pop(w) \/ RunEnd(w)
  <2>1. /\ \A v \in Workers : wpc'[v] = wpc[v]
             \/ (wpc[v] \in {"check", "held", "pop", "run"}
                 /\ wpc'[v] \in {"done", "run", "pop", "lock", "held"})
        /\ UNCHANGED <<total, sleep, quit, mutex, tpc, spc, exiting, mpc>>
        /\ pending' \in Nat
        /\ wpc' \in [Workers -> {"check", "pop", "run", "held", "lock", "test",
                                 "cond", "wait", "woken", "awake", "done"}]
    BY <1>1 DEF Check, Pop, RunEnd, goto, TypeOK
  <2>2. Asleep' = Asleep
    BY <2>1 DEF Asleep
  <2>3. SleepExact'
    BY <2>1, <2>2, SameSleepers
  <2>4. TypeOK'
    BY <2>1 DEF TypeOK, count
  <2>5. MutexHeld' /\ NobodyLeftWaiting'
    BY <2>1 DEF MutexHeld, HasMutex, NobodyLeftWaiting
  <2> QED
    BY <2>3, <2>4, <2>5
<1>2. CASE Callback(w)
  <2>1. UNCHANGED <<sleep, quit, mutex, wpc, tpc, spc, exiting, mpc>>
        /\ pending' \in Nat /\ total' \in Nat
    BY <1>2 DEF Callback, TypeOK
  <2>2. Asleep' = Asleep
    BY <2>1 DEF Asleep
  <2> QED
    BY <2>1, <2>2, SameSleepers DEF TypeOK, count, MutexHeld, NobodyLeftWaiting
<1>3. CASE Lock(w)
  <2>1. SleepExact'
    BY <1>3, LockSleeps
  <2>2. sleep' \in 0 .. count
    BY <2>1, AsleepFinite DEF SleepExact
  <2>3. TypeOK'
    BY <1>3, <2>2 DEF Lock, goto, TypeOK, count
  <2>4. MutexHeld' /\ NobodyLeftWaiting'
    BY <1>3, PoolAssumption DEF Lock, goto, TypeOK, MutexHeld, HasMutex,
                                NobodyLeftWaiting
  <2> QED
    BY <2>1, <2>3, <2>4
<1>4. CASE Test(w) \/ Wait(w) \/ Relock(w) \/ Spurious(w)
  <2>1. Asleep' = Asleep /\ sleep' = sleep
    BY <1>4 DEF Test, Wait, Relock, Spurious, goto, TypeOK, Asleep
  <2>2. TypeOK'
    BY <1>4 DEF Test, Wait, Relock, Spurious, goto, TypeOK, count
  <2>3. MutexHeld'
    <3>1. CASE Test(w) \/ Spurious(w)
      BY <3>1 DEF Test, Spurious, goto, TypeOK, MutexHeld, HasMutex
    <3>2. CASE Wait(w)
      BY <3>2, PoolAssumption DEF Wait, goto, TypeOK, MutexHeld, HasMutex
    <3>3. CASE Relock(w)
      BY <3>3, PoolAssumption DEF Relock, goto, TypeOK, MutexHeld, HasMutex
    <3> QED
      BY <1>4, <3>1, <3>2, <3>3
  <2>4. NobodyLeftWaiting'
    BY <1>4 DEF Test, Wait, Relock, Spurious, goto, TypeOK, NobodyLeftWaiting
  <2> QED
    BY <2>1, <2>2, <2>3, <2>4, SameSleepers
<1>5. CASE Unlock(w)
  <2>1. SleepExact'
    BY <1>5, UnlockWakes
  <2>2. sleep' \in 0 .. count
    BY <2>1, AsleepFinite DEF SleepExact
  <2>3. TypeOK'
    BY <1>5, <2>2 DEF Unlock, goto, TypeOK, count
  <2>4. MutexHeld' /\ NobodyLeftWaiting'
    BY <1>5, PoolAssumption DEF Unlock, goto, TypeOK, MutexHeld, HasMutex,
                                NobodyLeftWaiting
  <2> QED
    BY <2>1, <2>3, <2>4
<1> QED
  BY <1>1, <1>2, <1>3, <1>4, <1>5 DEF Worker

(* So does every step of the timer thread: it sets m->quit only when it    *)
(* can have the mutex, so that no worker is between its test and its wait. *)
LEMMA TimerIInv ==
  ASSUME IInv, TimerThread
  PROVE  IInv'
<1> USE DEF IInv
<1>1. CASE TimerUpdate \/ TimerSocketExit
  <2>1. UNCHANGED <<total, sleep, quit, mutex, wpc, spc, mpc>>
        /\ pending' \in Nat
        /\ tpc' \in {"update", "wake", "exit", "quit", "done"}
    BY <1>1 DEF TimerUpdate, TimerSocketExit, TypeOK
  <2>2. exiting' \in BOOLEAN
    BY <1>1 DEF TimerUpdate, TimerSocketExit, TypeOK
  <2>3. Asleep' = Asleep
    BY <2>1 DEF Asleep
  <2> QED
    BY <2>1, <2>2, <2>3, SameSleepers DEF TypeOK, count, MutexHeld, NobodyLeftWaiting
<1>2. CASE TimerWakeup
  <2>1. /\ UNCHANGED <<pending, total, sleep, quit, mutex, spc, exiting, mpc>>
        /\ tpc' = "update" /\ wakeup(timer_busy)
    BY <1>2 DEF TimerWakeup
  <2>2. \/ wpc' = wpc
        \/ \E w \in Workers : wpc[w] = "wait" /\ goto(w, "woken")
    BY <2>1, WakeupStep
  <2>3. Asleep' = Asleep
    BY <2>2 DEF Asleep, goto, TypeOK
  <2>4. TypeOK'
    BY <2>1, <2>2 DEF TypeOK, goto, count
  <2>5. MutexHeld' /\ NobodyLeftWaiting'
    BY <2>1, <2>2 DEF MutexHeld, HasMutex, NobodyLeftWaiting, goto, TypeOK
  <2> QED
    BY <2>1, <2>3, <2>4, <2>5, SameSleepers
<1>3. CASE TimerQuit
  <2>1. /\ UNCHANGED <<pending, total, sleep, mutex, spc, exiting, mpc>>
        /\ tpc' = "done" /\ quit' = TRUE /\ mutex = Nobody
        /\ wpc' = [w \in Workers |-> IF wpc[w] = "wait" THEN "woken" ELSE wpc[w]]
    BY <1>3 DEF TimerQuit, Waiting
  <2>2. Asleep' = Asleep
    BY <2>1 DEF Asleep, TypeOK
  <2>3. TypeOK'
    BY <2>1 DEF TypeOK, count
  <2>4. \A w \in Workers : wpc[w] \notin HasMutex
    BY <2>1, PoolAssumption DEF MutexHeld
  <2>5. MutexHeld' /\ NobodyLeftWaiting'
    BY <2>1, <2>4, PoolAssumption DEF MutexHeld, HasMutex, NobodyLeftWaiting,
                                      TypeOK
  <2> QED
    BY <2>1, <2>2, <2>3, <2>5, SameSleepers
<1> QED
  BY <1>1, <1>2, <1>3 DEF TimerThread

(* And every step of the socket and the monitor threads.                   *)
LEMMA OthersIInv ==
  ASSUME IInv, SocketPoll \/ SocketWakeup \/ MonitorCheck
  PROVE  IInv'
<1> USE DEF IInv
<1>1. CASE SocketPoll \/ MonitorCheck
  <2>1. UNCHANGED <<total, sleep, quit, mutex, wpc, tpc, exiting>>
        /\ pending' \in Nat /\ spc' \in {"poll", "wake", "done"}
        /\ mpc' \in {"check", "done"}
    BY <1>1 DEF SocketPoll, MonitorCheck, TypeOK
  <2>2. Asleep' = Asleep
    BY <2>1 DEF Asleep
  <2> QED
    BY <2>1, <2>2, SameSleepers DEF TypeOK, count, MutexHeld, NobodyLeftWaiting
<1>2. CASE SocketWakeup
  <2>1. /\ UNCHANGED <<pending, total, sleep, quit, mutex, tpc, exiting, mpc>>
        /\ spc' = "poll" /\ wakeup(0)
    BY <1>2 DEF SocketWakeup
  <2>2. \/ wpc' = wpc
        \/ \E w \in Workers : wpc[w] = "wait" /\ goto(w, "woken")
    BY <2>1, WakeupStep
  <2>3. Asleep' = Asleep
    BY <2>2 DEF Asleep, goto, TypeOK
  <2>4. TypeOK'
    BY <2>1, <2>2 DEF TypeOK, goto, count
  <2>5. MutexHeld' /\ NobodyLeftWaiting'
    BY <2>1, <2>2 DEF MutexHeld, HasMutex, NobodyLeftWaiting, goto, TypeOK
  <2> QED
    BY <2>1, <2>3, <2>4, <2>5, SameSleepers
<1> QED
  BY <1>1, <1>2

(* Every step of the pool preserves the invariant.                         *)
LEMMA PoolNext == IInv /\ [Next]_vars => IInv'
<1> SUFFICES ASSUME IInv, [Next]_vars PROVE IInv'
  OBVIOUS
<1>1. CASE UNCHANGED vars
  BY <1>1 DEF vars, IInv, TypeOK, count, SleepExact, Asleep, MutexHeld,
              NobodyLeftWaiting
<1>2. CASE Next
  BY <1>1, <1>2, WorkerIInv, TimerIInv, OthersIInv DEF Next, Joined
<1> QED
  BY <1>1, <1>2

(* The inductive invariant holds in every reachable state.                 *)
THEOREM PoolInvariance == Spec => []IInv
BY PoolInit, PoolNext, PTL DEF Spec

(* m->sleep is the number of workers that sleep, with any number of        *)
(* workers: wakeup's test of it means what it says.                        *)
THEOREM SleepCount == Spec => []SleepExact
<1>1. IInv => SleepExact
  BY DEF IInv
<1> QED
  BY <1>1, PoolInvariance, PTL

(* After the broadcast of thread_timer no worker waits or is about to.     *)
THEOREM NoneLeftWaiting == Spec => []NobodyLeftWaiting
<1>1. IInv => NobodyLeftWaiting
  BY DEF IInv
<1> QED
  BY <1>1, PoolInvariance, PTL
=============================================================================
