------------------------------- MODULE Session -------------------------------
(***************************************************************************)
(* An agent (agent.lua) on the Lua service library: skynet.lua runs every  *)
(* message in a coroutine and, whenever one is suspended, resumes what has *)
(* been woken up meanwhile; skynet.queue makes the packages of the client  *)
(* take turns, those that must wait in a list of coroutines.               *)
(*                                                                         *)
(* The n-th package that arrives is handled in coroutine n; the call of a  *)
(* login has session n. One message is handled at a time: phase says where *)
(* the handling is. A coroutine that raises an error makes suspend raise   *)
(* one too, and the rest of the handling is skipped.                       *)
(***************************************************************************)
EXTENDS Integers, Sequences, SequencesExt

CONSTANTS
  Kind(_)   \* what a package asks for: login, room (createRoom, joinRoom),
            \* response (the type the agent rejects) or garbled

VARIABLES
  mailbox,         \* messages to the agent
  arrived,         \* packages received so far
  at,              \* at[n]: where coroutine n is
  current_thread, thread_queue, ref,  \* the upvalues of skynet.queue
  wakeup_session, error_queue,        \* tables of skynet.lua
  phase,           \* idle, run a coroutine, or wake up others
  running,         \* the coroutine that runs, or 0
  log              \* packages handled, in order

queueVars   == <<current_thread, thread_queue, ref>>
sessionVars == <<mailbox, arrived, at, queueVars, wakeup_session, error_queue,
                 phase, running, log>>

SessionInit ==
  /\ mailbox = <<>> /\ arrived = <<>> /\ at = <<>>
  /\ current_thread = 0 /\ thread_queue = <<>> /\ ref = 0
  /\ wakeup_session = {} /\ error_queue = <<>>
  /\ phase = "idle" /\ running = 0 /\ log = <<>>

(* handler.message of the gate: skynet.redirect(agent, ..., "client", ...) *)
redirect(packs) ==
  /\ arrived' = arrived \o packs
  /\ at' = at \o [i \in DOMAIN packs |-> "mail"]
  /\ mailbox' = mailbox \o [i \in DOMAIN packs |->
       [type |-> "client", session |-> Len(arrived) + i]]
  /\ UNCHANGED <<queueVars, wakeup_session, error_queue, phase, running, log>>

-----------------------------------------------------------------------------
(* Coroutine n passes the test of the queue, or is resumed after its wait  *)
(* in it, and runs recv_package.                                           *)
enter(n) ==
  /\ current_thread' = n /\ ref' = ref + 1
  /\ at' = [at EXCEPT ![n] = "in"]
  /\ phase' = "run" /\ running' = n

Mut_must_wait(n) == FALSE
Mut_must_wait_nil(n) == current_thread # n
must_wait(n) == current_thread \notin {0, n}

(* raw_dispatch_message of a package. A package that p.unpack cannot read  *)
(* raises an error before its coroutine runs.                              *)
Package ==
  /\ phase = "idle" /\ mailbox # <<>> /\ Head(mailbox).type = "client"
  /\ mailbox' = Tail(mailbox)
  /\ LET n == Head(mailbox).session
     IN  \/ /\ Kind(arrived[n]) = "garbled"
            /\ at' = [at EXCEPT ![n] = "end"]
            /\ UNCHANGED <<queueVars, phase, running>>
         \/ /\ Kind(arrived[n]) # "garbled" /\ must_wait(n)
            /\ thread_queue' = Append(thread_queue, n)
            /\ at' = [at EXCEPT ![n] = "wait"]
            /\ phase' = "wake"
            /\ UNCHANGED <<current_thread, ref, running>>
         \/ /\ Kind(arrived[n]) # "garbled" /\ ~must_wait(n)
            /\ enter(n)
            /\ UNCHANGED thread_queue
  /\ UNCHANGED <<arrived, wakeup_session, error_queue, log>>

(* The answer to the call of coroutine n, and the error in its place.      *)
resume(n) == at' = [at EXCEPT ![n] = "back"] /\ phase' = "run" /\ running' = n

Response ==
  /\ phase = "idle" /\ mailbox # <<>> /\ Head(mailbox).type = "response"
  /\ mailbox' = Tail(mailbox)
  /\ resume(Head(mailbox).session)
  /\ UNCHANGED <<arrived, queueVars, wakeup_session, error_queue, log>>

ErrorMessage ==
  /\ phase = "idle" /\ mailbox # <<>> /\ Head(mailbox).type = "error"
  /\ mailbox' = Tail(mailbox)
  /\ error_queue' = Append(error_queue, Head(mailbox).session)
  /\ phase' = "wake"
  /\ UNCHANGED <<arrived, at, queueVars, wakeup_session, running, log>>

(* Any other message, such as a debug command: its coroutine runs and ends.*)
OtherMessage ==
  /\ phase = "idle" /\ phase' = "wake"
  /\ UNCHANGED <<mailbox, arrived, at, queueVars, wakeup_session, error_queue,
                 running, log>>

-----------------------------------------------------------------------------
(* xpcall_ret of skynet.queue: the turn is over, the next one in the list  *)
(* has the turn and is woken up.                                           *)
Mut_woken(next) == {}
woken(next) == next

finish(n) ==
  LET next == IF thread_queue = <<>> THEN {} ELSE {Head(thread_queue)}
  IN  /\ ref' = ref - 1
      /\ current_thread' = IF next = {} THEN 0 ELSE Head(thread_queue)
      /\ thread_queue' = IF next = {} THEN <<>> ELSE Tail(thread_queue)
      /\ wakeup_session' = wakeup_session \cup woken(next)
      /\ at' = [at EXCEPT ![n] = "end"]
      /\ log' = Append(log, arrived[n])
      /\ running' = 0

(* REQUEST:login calls the user service, and is suspended.                 *)
RunCall ==
  /\ phase = "run" /\ Kind(arrived[running]) = "login" /\ at[running] = "in"
  /\ at' = [at EXCEPT ![running] = "call"]
  /\ phase' = "wake" /\ running' = 0
  /\ UNCHANGED <<mailbox, arrived, queueVars, wakeup_session, error_queue, log>>

(* recv_package ends: a request that is answered, or fails inside pcall: a *)
(* login without user service (main.lua opens the gate before it starts    *)
(* the user service), or whose call failed.                                *)
RunEnd ==
  /\ phase = "run" /\ Kind(arrived[running]) # "response"
  /\ finish(running)
  /\ phase' = "wake"
  /\ UNCHANGED <<mailbox, arrived, error_queue>>

(* The error for a package of type RESPONSE: the queue hands the turn on,  *)
(* but the coroutine is dead and suspend raises an error.                  *)
RunDie ==
  /\ phase = "run" /\ Kind(arrived[running]) = "response"
  /\ finish(running)
  /\ phase' = "idle"
  /\ UNCHANGED <<mailbox, arrived, error_queue>>

(* The end of suspend: dispatch_wakeup, then dispatch_error_queue, each of *)
(* which resumes a coroutine, whose suspend does the same again.           *)
Wakeup(n) ==
  /\ phase = "wake" /\ n \in wakeup_session
  /\ wakeup_session' = wakeup_session \ {n}
  /\ enter(n)
  /\ UNCHANGED <<mailbox, arrived, thread_queue, error_queue, log>>

WakeupError ==
  /\ phase = "wake" /\ wakeup_session = {} /\ error_queue # <<>>
  /\ error_queue' = Tail(error_queue)
  /\ resume(Head(error_queue))
  /\ UNCHANGED <<mailbox, arrived, queueVars, wakeup_session, log>>

WakeupDone ==
  /\ phase = "wake" /\ wakeup_session = {} /\ error_queue = <<>>
  /\ phase' = "idle"
  /\ UNCHANGED <<mailbox, arrived, at, queueVars, wakeup_session, error_queue,
                 running, log>>

Receive == Package \/ Response \/ ErrorMessage

Agent ==
  \/ Receive \/ RunCall \/ RunEnd \/ RunDie
  \/ \E n \in wakeup_session : Wakeup(n)
  \/ WakeupError \/ WakeupDone

(* The user service answers a call, or an error comes back for it.         *)
Answer(n) ==
  /\ at[n] = "call"
  /\ \A i \in DOMAIN mailbox : mailbox[i].session # n
  /\ n \notin Range(error_queue)
  /\ \E type \in {"response", "error"} :
       mailbox' = Append(mailbox, [type |-> type, session |-> n])
  /\ UNCHANGED <<arrived, at, queueVars, wakeup_session, error_queue, phase,
                 running, log>>
=============================================================================
