------------------------------- MODULE RWLock -------------------------------
(***************************************************************************)
(* The spinning read-write lock of rwlock.h, which guards the handle table *)
(* of the kernel: any number of readers (skynet_handle_grab on every send  *)
(* and every dispatch) or one writer (register and retire). Each action is *)
(* one load, store or atomic instruction on the two words of the lock.     *)
(* The lock's own names begin with Lock where the handle table that it     *)
(* guards, module HandleStorage, has a definition of the same kind.        *)
(***************************************************************************)
EXTENDS Integers, FiniteSets

CONSTANTS
  Threads  \* the threads that share the lock

ASSUME ThreadsAssumption == IsFiniteSet(Threads)

VARIABLES
  write,  \* rwlock.write
  read,   \* rwlock.read
  pc      \* where each thread is

lock == <<write, read, pc>>

goto(t, l) == pc' = [pc EXCEPT ![t] = l]

(* rwlock_init.                                                            *)
LockInit ==
  /\ write = 0
  /\ read = 0
  /\ pc = [t \in Threads |-> "idle"]

(* A thread calls rwlock_rlock or rwlock_wlock.                            *)
Request(t) ==
  /\ pc[t] = "idle"
  /\ goto(t, "r_wait") \/ goto(t, "w_set")
  /\ UNCHANGED <<write, read>>

(* rwlock_rlock: the reader spins while there is a writer, ...             *)
Mut_RlockWait(t) ==
  /\ pc[t] = "r_wait"
  /\ goto(t, "r_add")
  /\ UNCHANGED <<write, read>>
RlockWait(t) ==
  /\ pc[t] = "r_wait"
  /\ write = 0
  /\ goto(t, "r_add")
  /\ UNCHANGED <<write, read>>

(* ... counts itself, ...                                                  *)
RlockAdd(t) ==
  /\ pc[t] = "r_add"
  /\ read' = read + 1
  /\ goto(t, "r_check")
  /\ UNCHANGED write

(* ... and looks again: a writer may have come since.                      *)
Mut_RlockCheck(t) ==
  /\ pc[t] = "r_check"
  /\ goto(t, "reading")
  /\ UNCHANGED <<write, read>>
RlockCheck(t) ==
  /\ pc[t] = "r_check"
  /\ goto(t, IF write = 0 THEN "reading" ELSE "r_sub")
  /\ UNCHANGED <<write, read>>

(* Then the reader takes itself out of the count and starts over.          *)
RlockSub(t) ==
  /\ pc[t] = "r_sub"
  /\ read' = read - 1
  /\ goto(t, "r_wait")
  /\ UNCHANGED write

(* rwlock_wlock: test-and-set until it returns 0, ...                      *)
WlockSet(t) ==
  /\ pc[t] = "w_set"
  /\ write = 0
  /\ write' = 1
  /\ goto(t, "w_wait")
  /\ UNCHANGED read

(* ... then wait for the readers to leave.                                 *)
WlockWait(t) ==
  /\ pc[t] = "w_wait"
  /\ read = 0
  /\ goto(t, "writing")
  /\ UNCHANGED <<write, read>>

(* rwlock_runlock.                                                         *)
Runlock(t) ==
  /\ pc[t] = "reading"
  /\ read' = read - 1
  /\ goto(t, "idle")
  /\ UNCHANGED write

(* rwlock_wunlock.                                                         *)
Wunlock(t) ==
  /\ pc[t] = "writing"
  /\ write' = 0
  /\ goto(t, "idle")
  /\ UNCHANGED read

Step(t) ==
  \/ RlockWait(t) \/ RlockAdd(t) \/ RlockCheck(t) \/ RlockSub(t)
  \/ WlockSet(t) \/ WlockWait(t) \/ Runlock(t) \/ Wunlock(t)

LockNext == \E t \in Threads : Request(t) \/ Step(t)

LockSpec == LockInit /\ [][LockNext]_lock

(* A thread that is inside a call, or inside the critical section, goes on *)
(* when it can; it need not ask for the lock again.                        *)
FairLockSpec == LockSpec /\ \A t \in Threads : WF_lock(Step(t))

-----------------------------------------------------------------------------
(* The type of the variables.                                              *)
LockTypeOK ==
  /\ write \in 0..1
  /\ read \in Nat
  /\ pc \in [Threads -> {"idle", "r_wait", "r_add", "r_check", "r_sub",
                         "reading", "w_set", "w_wait", "writing"}]

Counted == {t \in Threads : pc[t] \in {"r_check", "r_sub", "reading"}}

(* A writer is alone in the handle table: no reader and no other writer is *)
(* inside with it, however the two words are read and written in between.  *)
MutualExclusion ==
  \A t, u \in Threads :
    t # u /\ pc[t] = "writing" => pc[u] \notin {"reading", "writing"}

(* No reader's count is lost or left behind by the retry of rwlock_rlock:  *)
(* a count left behind would keep every later writer out.                  *)
ReadCountExact == read = Cardinality(Counted)

(* A writer that has set its flag gets in: readers that keep coming back   *)
(* off before it, and cannot starve it.                                    *)
WriterGetsIn == \A t \in Threads : pc[t] = "w_wait" ~> pc[t] = "writing"
=============================================================================
