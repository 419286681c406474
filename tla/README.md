# A TLA+ model of the DDZ server

This directory models the server of the DDZ (Dou Dizhu card game) project: the
skynet runtime under `src/Server/skynet/skynet-src` (C, multi-threaded) and the
game's own services under `src/Server/skynet/gameserver` (Lua coroutines that
exchange messages). The modules are translated from that code, TLC checks them
on small instances, and TLAPS proves the main safety properties for every value
of the constants. `PROJECT.json` has the run list, the definition-to-source map,
the hazards, the findings and the theorems in machine-readable form.

## 1. Inventory

Paths are below `src/Server/skynet/` unless they begin with `Client`.

| Component | State | Operations | What is hard | Correct when |
|---|---|---|---|---|
| Message kernel: `skynet-src/skynet_server.c` | contexts with a reference count, `init`, `G_NODE.total` | launch, send, exit/kill, dispatch, release, delete, drop | any worker runs any service; senders race with retire and delete | one thread per service, exact counts, no use after free (but one, section 4), senders learn of a dead receiver |
| Message queues: `skynet_mq.c` | ring buffer, `in_global`, `release`, overload watch; global queue of queues | push, pop, expand, mark, release, drain | two locks, flags that say who may schedule | FIFO, linked at most once, nothing stranded |
| Handle table: `skynet_handle.c` | hash slots, index, sorted names | register, retire, retireall, grab, name, find | lookup against retire, growth against registration | a service is found under its handle and name, a grabbed context is alive, ABORT reaches all |
| Locks: `rwlock.h`, `spinlock.h` | two words | rlock/runlock, wlock/wunlock | two words read and written separately | exclusion, exact reader count, writers get in |
| Threads: `skynet_start.c`, `skynet_monitor.c` | `sleep`, `quit`, mutex and condition | worker, timer, socket and monitor loops | counter read without its mutex, lost wakeups, shutdown | work is taken, all threads end |
| Timer: `skynet_timer.c` | near slots, four levels, 32-bit time | add, shift, cascade, dispatch | wrap-around, lock given up in dispatch | on time, in order, always |
| Socket server: `socket_server.c`, `skynet_socket.c` | slots with a type, write lists, control pipe | listen, accept, start, read, send, close | requests from any thread, a batch of events that point at slots, slots used again | bytes whole and in order, nothing lost on close, every event for the socket it was read for (but see section 4) |
| Gate: `lualib/snax/gateserver.lua`, `service/gate.lua` | two tables of connections, `client_number` | socket events, forward, kick | kicks cross with hang-ups | count exact, tables agree |
| Watchdog: `gameserver/service/watchdog.lua` | table fd to agent | open, close, error, data, start | coroutines wait in the middle of a handler | no agent left behind |
| Agent: `gameserver/service/agent.lua` | fd, protocol, queue `cs` | start, disconnect, login, createRoom, joinRoom | packages in order over waiting calls | one request at a time, in order |
| User service: `gameserver/service/userService.lua`, `utils/redisClientsMgr.lua`, `service/redisclient.lua` | hashes in redis | login, create account | several redis commands per login, other logins in between, redis failing | complete accounts, every login ends |
| Lua library: `lualib/skynet.lua`, `lualib/skynet/queue.lua` | sessions, sleeping and waking coroutines | call, ret, fork, wait, wakeup, queue | errors against wakeups | every waiting coroutine resumes |
| Launcher, service manager: `service/launcher.lua`, `service/service_mgr.lua` | instances, pending launches | launch, remove, unique service | a service that dies in its init | the caller is answered |
| Redis driver: `lualib/redis.lua`, `lualib/socketchannel.lua` | socket, waiting requests | connect, request, response | reconnect with requests under way | answers in order |
| Framing: `lualib-src/lua-netpack.c` | chains of unfinished packages, a ring | filter, pop, close | a stream cut anywhere, chains shared by sockets | every package whole, at once, to its own socket |
| Scheduler: `gameserver/utils/scheduler.lua`, `schedulerMgr.lua` | tasks | add, cancel, run | a timeout that cannot be cancelled | not used (section 7) |
| Game logic: `gameserver/logic`, `service/gameService.lua` | round, players, cards | deal, call, play | not reachable | the file does not load |
| Client: `Client/ddz-client/src/app` | connection, scenes, windows | connect, send, push/pop scene | reconnect | not modelled (section 7) |

How they interact: a client's bytes reach the socket thread, which pushes a
message to the gate; the gate tells the watchdog of a new connection, the
watchdog has the launcher start an agent, and the agent calls the gate with
`forward`, after which packages go from the gate to the agent directly. A login
goes from the agent to the user service by name, and from there by one call per
command to a redisclient service. All of this is `skynet_send`, that is, a push
to a queue of the message kernel; a timeout is a push of the timer thread.

The hazards in `PROJECT.json` list, line by line, where this can go wrong in a
way that a test would hardly reach; the properties below are chosen for them.

## 2. Modules and how they correspond to the code

Definitions carry the names of the C or Lua functions where TLA+ allows it.
`Mut_...` definitions are faulty variants of the definition that follows each of
them: nothing refers to them, they exist to be put in its place and so to show
that a property notices the fault.

**Kernel** (abstract specification: **Actor**; proofs: **KernelProofs**). State:
the registered handles (`slot`), for each service its context memory, reference
count and `init` flag, its queue with `in_global` and `release`, the global queue
`Q`, and three program counters per thread: the dispatch loop (`wpc`), a launch
in progress (`oppc`), and a send, release or delete in progress (`iopc`). A step
is one critical section or one atomic instruction. `SendGrab`, `MqPush`, `Unref`
are `skynet_context_push`; `MarkRelease`, `FreeContext` are `delete_context`;
`Launch...` are the stages of `skynet_context_new` with both outcomes of the init
function; `TakeQueue` to `EndTurn` are `skynet_context_message_dispatch`;
`MqRelease`, `Drop`, `DropEnd` are `skynet_mq_release`. What is abstracted:
registration, the assignment of the handle and the creation of the queue are one
step; a handle is not used again, each service of the set is launched at most
once; an init function launches nothing itself; the message to the monitor
service on exit is a `Send` before the `Retire`; logging is left out. A message
that `drop_message` answers has its error sent with session 0, as in the code.

**RWLock** (proofs: **HandleStorageProofs**). The words `read` and `write` and a program
counter per thread, one action per load, test-and-set or atomic addition of
`rwlock.h` (the variant on GCC builtins). Its own names begin with `Lock`, so that
one module of proofs can extend the lock and the table that it guards.

**MessageQueue** (abstract: **Fifo**; proofs: **TimerProofs**). The ring
with its `head`, `tail` and `cap`, doubling in `expand_queue`, and the overload
watch. The worker's unlocked read and its clearing of the mark are two steps; what it
reports is kept in `reported` until the queue is empty, a history variable.

**WorkerPool** (proofs: **WorkerPoolProofs**). `sleep`, `quit`, the mutex, the
waiting workers and the loops of all threads of `skynet_start.c`. Of a dispatch
only its effect is kept: it takes a queue or none, and its callback may schedule
queues, launch and retire. The number of services may drop to zero while other
workers still run, which is more than Kernel allows (there a running service is
counted), so the properties hold under weaker conditions than the code's. A signal
goes to one waiting worker, any of them; spurious wakeups happen.

**Timer** (proofs: **TimerProofs**). The wheel with the near slots and four levels,
`time` modulo its turn, the lock and the list being dispatched. A slot is a pair of a
level and an index, near being level -1. `place` is the slot that `add_node` chooses,
`shifted` the choice of `timer_shift`, and `move_list` adds the nodes of a slot again,
one by one. The numbers of near slots and of slots of a level are constants: in the
code they are powers of two, a mask is the remainder and a shift the division, of
which the model uses nothing but the division. Besides the code's state there are two
history variables, `pending` and `due`: the order in which timers were set and the
ticks each has left. The clock of `skynet_updatetime` becomes the action `Update`, one
per tick; a timeout of zero or less does not touch the wheel in the code. Names that
MessageQueue has too begin with `Timer`, so that one module of proofs extends both.

**Connection** (proofs: **ConnectionProofs**). Socket types, the control pipe, the
queue of each service, the tables of gate and watchdog and the place at which each
coroutine of `SOCKET.open` waits. A step is what one service does with one message, up to its
end or the next `skynet.call`. A socket that was accepted is not polled until the
agent's `forward` starts it. Warnings only print and are left out, and so is the
table `forwarding`, which is never read; `CMD.accept` of the gate and
`CMD.close` of the gate server have no caller in the game.

**UserService** (proofs: **UserServiceProofs**). The redis hashes, the start of the
service and one program counter per login. A step runs from one redis command to the next, because each
is a call in which the other logins go on. Redis itself is external: a command
is executed at once, or it fails.

**HandleStorage** (proofs: **HandleStorageProofs**). The slots as a function from 0,
the index, the name table as a sequence and, besides the table, what
`skynet_context_new` does outside the lock: a launcher's `Register` and its `Assign`
are two steps, between which the context has handle 0. `SweepPass`, `SweepLook` and
`SweepRetire` are the loop of `skynet_handle_retireall`, one step per lock it takes.
The binary search is the code's, as a recursive function on its windows (`begin`,
`end`), and so is the loop that squeezes out names. The memory of a retired context
is used again; references to it are Kernel's subject. Harbor 0 (the game's
`config.lua`) and another one are both initial states.

**SocketServer** (proofs: **SocketServerProofs**). Slots with type, id, the two write lists and the write event;
the pipe of requests; the batch of events that `sp_wait` returned; `checkctrl`.
Services act from their own threads: `Reserve` is the compare-and-swap of
`reserve_id`, `Request` writes the id and sends, `Send`, `Start` and `Close` are the
calls of `skynet_socket.c`. `Ctrl...` are the branches of `ctrl_cmd`, `Event...`
those of `socket_server_poll`, `clear_closed_event` is a step of its own because
services run between it and the request. An event has the id it was read for
(`id`), and `missed` says that the close of its socket did not find it; the code has
neither and nothing depends on them. A write list is the sequence of bytes
still to send, a byte being the number of its message; how many bytes the
connection takes, and whether it fails, is open in every write. A failed assert
ends the behaviour and is noted in `failed`. An event of a slot that is reserved or
was taken over goes where the code's `default` branch sends it. When accept fails
for want of descriptors the report is not modelled here (it is in Connection).
`seen`, `wire`, `msg` and `clean` are history: what the owner was told, what went
out, what became of each message, which sockets were closed in peace.

**Netpack**, **Session**, composed in **AgentStream** (abstract: **Serial**;
proofs: **AgentStreamProofs**).
Netpack has the chains of unfinished packages and the ring of `lua-netpack.c`;
bodies are sequences of bytes with a small base, so that both bytes of a size
matter. Session is `agent.lua` on `skynet.lua` and `queue.lua`: a coroutine per
package, the mailbox, `wakeup_session`, `error_queue`, and the upvalues of
`skynet.queue`. `phase` says where the handling of a message is: running a
coroutine, or at the end of `suspend`, where woken coroutines and errors are taken
up one after the other; a coroutine that dies makes `suspend` raise, and the rest
is skipped. AgentStream feeds the packages that the gate forwards into one agent's
mailbox. What a login waits for, the user service, answers or fails. In Serial a
client's packages are handled one at a time in the order they were sent.

The `MC...` modules only add the definitions that a `.cfg` needs: symmetry
sets and the values of function-valued constants.

## 3. Runs

| Run | Instance | Checked |
|---|---|---|
| `kernel` | 2 services, 2 workers (weights -1 and 0), 2 messages besides the first, with fairness | `OnePlace`, `NothingStranded`, `OneCaller`, `RefExact`, `MemorySafety`, `FreedWhenUnreachable`, `ActorSpec` (refinement of Actor), `SenderLearns`, `Reclaimed` |
| `rwlock` | 4 threads, with fairness | `MutualExclusion`, `WriterGetsIn` |
| `message_queue` | first size 2, first threshold 2, 12 pushes | `DoublingsReported`, `FifoSpec` (refinement of Fifo) |
| `worker_pool` | 3 workers, 2 queues, 2 services, with fairness | `NobodyLeftWaiting`, `WorkIsTaken`, `PoolEnds` |
| `timer` | 3 timers, 2 near slots and 2 of each level: time wraps at 32 | `OnTime`, `SetOrder` |
| `connection` | 2 clients, limit 1, 1 package, 1 kick command, 2 accepts in all, with fairness | `GateSound`, `NoEarlyData`, `NoDeadRoute`, `NoStartAfterClose`, `NothingLeftBehind`, `Served` |
| `user_service` | 3 clients on 2 devices, 1 failing redis call, with fairness | `CompleteOrInFlight`, `LoginEnds` |
| `handle_storage` | 4 contexts, 4 handles, a table of 1 that doubles to 4, 2 names | `Findable`, `SweepComplete`, `NameFound`, `RetiredUnnamed` |
| `agent_stream` | a login and 2 packages of any kind, a second connection on the same chain, with fairness | `FramingExact`, `TurnIsTaken`, `SerialSpec` (refinement of Serial), `Handled` |
| `socket_server` | 2 slots, 4 ids, 2 messages of 2 bytes, 1 close, a pipe of 2 | `LowIsWhole`, `WireWhole`, `NothingLost`, `WriteEventOn`, `ReportsInOrder`, `EventIsOwn` |
| `uid_generator` | as `user_service`, no failure | `UidsIncrease`, a comment, violated |
| `socket_assert` | as `socket_server` | `NotReserved`, an assert, violated |

RWLock, WorkerPool, Connection and SocketServer need no MC module: their constants
are sets of model values and numbers.

Why the bounds are enough to be of use. Kernel: two services are a sender and a
receiver that is launched, killed and freed; two workers are the pushing and the
dispatching or deleting thread; three messages in all let one be handled, one be
queued and one be in flight when the receiver dies. The proofs then remove these
bounds, and add the feeders (timer and socket threads). RWLock: a retrying reader, an established reader and
two writers. MessageQueue: twelve pushes double the ring to sixteen with every
position of the head at two and four, and let the length
double twice between two pops. Timer: one bit per level has all four
cascades, several levels beginning at one tick, and the wrap, in a period of 32
ticks; delays go up to half of it, as `int` delays do in 32 bits. WorkerPool:
with three workers the socket thread's condition (all asleep) differs from the
timer thread's (one asleep). Connection: two clients and a limit of one make the
second be refused or take over the first one's place. HandleStorage: four contexts
double the table twice and fill it, the index wraps with old services in their
slots, and both names move. AgentStream: the first package waits in a call, the
second waits behind it, and the third behind the second, each readable, rejected
or not readable; every cut of the stream, the one inside a size included.
SocketServer: with two slots and four ids every slot is used again while requests
and events for its previous socket are under way; two messages of two bytes are
enough for a low-priority message that is cut.

Deadlock is not checked where the system may rightly be idle (Kernel, Connection,
UserService, AgentStream, SocketServer: nothing left to do and the bounds used up);
it is checked for RWLock, MessageQueue, Timer, WorkerPool and HandleStorage.

### Fairness

Weak fairness of each thread's own steps (Kernel, RWLock, WorkerPool): the
threads are preemptive, and the locks are held for a bounded time. In Kernel
callbacks return. `WorkIsTaken` does without that; `PoolEnds` states it as its
hypothesis `CallbacksReturn`, together with strong fairness of the timer thread's
final lock, because workers that wake up spuriously could keep taking the mutex.
No fairness is given to what services, clients or callers choose to do.
Connection: every
service with a message is dispatched, which is what Kernel's `SenderLearns` is
about, and the launcher answers. UserService: redis answers or fails. RWLock's
`Request` is never fair: nobody has to want the lock. AgentStream: the agent goes on
with what it handles, its mailbox is served in order (strong fairness of `Receive`,
since other messages may come before each of its messages, but only finitely many),
and a call ends with an answer or an error. That other messages keep coming is no
fairness of the specification but a hypothesis in `Handled`.

## 4. What the runs found

* `uid_generator`. The comment on `redis_uid_tag` (userService.lua, line 9) calls
  it an increasing generator of uids. `redis_incr` does not pass the name of the
  redis client, the manager finds no client called "uid_counter", and every new
  account gets uid 100000. The property speaks only of accounts that were drawn while
  the redis client was known and then stored, and TLC's trace is two such logins. It
  is the missing name that makes the difference: with `incr(redis_name)` in its place
  the property holds on the same instance.
* `socket_assert`. `reserve_id` marks a slot as reserved before it writes the new
  id. A close of the slot's previous id that is read in that window passes the test
  of `close_socket`, and the assert in `force_close` ends the process. The instance
  has two slots; with the 65536 of the code the same slot comes up again after
  65536 ids, so that the close must come from an owner that kept its id that long. The same window lets a late send put its data
  into the reserved slot, where the asserts on the lists in `new_fd` find it. The
  properties of the run `socket_server` hold on the behaviours that do not end so.

Two more comments do not describe the code, as one reads off `UserService`:
agent.lua, line 19, says that login finds the account by the smid of the client,
but `respone_login` first sets `data.smid = 13` (userService.lua, line 153), so that
all clients share one account; and it lists the uid in the answer, which is only
there for an account that was just created (line 163).

Behaviour that no document contradicts, visible in the models: a failed launch
of an agent leaves the connection open and unserved (an exception stated in
`Served`); the error of an accept without free descriptors closes the listening
socket for good; a redis failure between the two commands of an account's
creation leaves a smid whose uid has no data (`CompleteOrInFlight` says that this, in
the login that made the account, is the only way to one); two first logins of one
smid both create an account, and since both get the base uid the nick that the first
has answered is overwritten; `skynet_context_new` sets `ctx->init` after the
launcher's reference is gone, so that a service that is retired at once can be freed
under it (the exception in `MemorySafety`: that write is safe only while the handle
table has the service);
behind a package of type RESPONSE the next one is resumed only when the agent
gets another message (the proviso of `Handled`: without it the property fails);
`Findable` needs that one thread at a time launches, which the launcher service
sees to: with two launchers a doubling between `Register` and `Assign` puts the
context into slot 0; on a node with harbor 0 the wrap of the index gives out
handle 0, which `skynet_handle_init` calls reserved and `retireall` skips
(`SweepComplete` therefore speaks of services with another handle). The order of
packages, which a comment at agent.lua, line 67, calls broken in a test, is kept
with the queue `cs` as it is used now (`SerialSpec`). The branch of
`socket_server_poll` for an event of a free slot is never taken, and every event meets
the socket it was read for, with one exception, stated in `EventIsOwn`.
`clear_closed_event` looks for a slot that is INVALID and has the id that was closed;
when another thread has reserved the slot since `force_close`, the event is not found
and stays in the batch. Without the exception (the disjunct `e.missed`) TLC finds a
trace: a socket is closed with an event in the batch, and a connect reserves its slot
before the test. When that connect is under way as the old event is met,
`report_connect`, which finds no error on a socket still connecting, reports it open.
With the 65536 slots of the code the reservation must come when `alloc_id` has just
gone round to that slot. `ReportsInOrder` judges what an owner is told by what it was
told before: it does not see that an OPEN comes from the event of another socket.

## 5. Proofs

All are checked by tlapm, with the SMT backend, Zenon and LS4 only.

**KernelProofs.** `Invariance` proves `Spec => []IInv` with
`IInv == TypeOK /\ Ctl /\ Refs /\ Places /\ TotalExact`, for any finite sets of
services, workers and feeders, weights and number of messages. None of the
checked properties is inductive alone. `Ctl` relates the program counters of a
thread to its registers (a worker between grab and release has a context, an
inner call excludes a step of the outer one). `Refs` says that the count is the
number of holders, kept as a finite set, so that a step adds or removes one
element; and that nobody holds a context that is being deleted, by one thread
only. `Places` is the argument of the scheduler: a queue has an owner exactly
while `in_global` or `release` is set, never more than one, a queue with messages
has one of the two flags set, and it is freed only after its release mark.
`TotalExact` ties `G_NODE.total` to the contexts that are not freed. From `IInv`
follow `TypeCorrect`, `QueueInOnePlace`, `NoStrandedMessage`, `SingleCaller`,
`CountsAreExact`, `MemorySafe` (with the exception of section 4), `AbortSafe` and, as a property of
steps, `FreedQueueUnreachable`.

`ImplementsActor` is the refinement `Spec => ActorSpec`. The activity of a service is
read off the worker that runs its init function or has one of its messages; `Doing`
says that there is one such worker at most, which follows from `Places`, and `Emptied`,
a second invariant, that a queue that is not there holds nothing. A push, a pop, the
end of a callback, a retire and the freeing of the queue are Actor's actions, and every
other step of the threads is a stutter.

**HandleStorageProofs**, the lock. The invariant `LockInv` adds to type and count that
the write flag is set while a thread is between its test-and-set and its release, that
there is at most one such thread, and that no reader is inside with a writer; the step
in which a writer stops waiting uses that a count of zero means an empty set of
readers. Results: `LockType`, `LockExclusion`, `LockCount`.

**HandleStorageProofs**, the table. For any contexts, names and harbors, any power of
two of handles, and any first size that divides it:
`IInv == TypeOK /\ NamesInv /\ TableInv /\ SweepInv`. TLC checked these conjuncts on
the instance of `handle_storage`, all 250,338 states of it, before the proof.

`TableInv` gives every context in the table a home, the handle its launcher was told
or is about to store, and says that it is in the slot of its home and in no other.
Three arguments carry it. A table that is full can be doubled: it has a slot for each
of fewer contexts than there are handles, so its size, which divides the number of
handles, is not yet that number (`RoomToGrow`). In a doubled table nothing meets
(`MovesOne`, `Doubled`): what goes to slot k was in slot k modulo the old size, where
there is one context at most, which is the assert on `new_slot`. And the handles that a
registration tries run through all slots, because the size divides the number at which
they wrap (`FindsFree`). `SweepInv` says of the services that had a handle when the
pass began, and are still there, that none of them is behind the sweep: a doubling
leaves each in its slot or moves it ahead, and what the sweep looks up it retires,
unless it has gone meanwhile; a pass that retired nothing has gone by all slots.

`NamesInv` says that the table of names is strictly sorted. The two halves of a window
of the binary search are shorter windows, and one of them has the name if the window
has it (`Halves`); from this the recursion is well defined (`StepsExist`), finds what
is there and stops where a new name belongs (`StepsFind`). Squeezing out keeps the
order of the rest and loses nothing of it (`KeepingExists`, `KeepingKeeps`).

`NamesSorted` and `NamesFound` hold for any number of launchers. The others have the
hypothesis `OneLauncher`, that at most one thread at a time is between registering a
context and storing its handle: the launcher service sees to that in the game, and
without it `Findable` fails (section 4). Results: `NamesSorted`, `NamesFound`,
`TypeCorrect`, `ServicesFindable`, `SweepIsComplete`, `RetiredAreUnnamed`, which cover
all four properties of the run.

**TimerProofs**, the timer. `TimerInvariance` is for any numbers of near slots and of
slots of a level, at least two of each, and any finite set of nodes. A tick is in one
round of each level (`Round(x, i) == x \div Span[i]`; of level 4 there is only one), and
`place(e, now)` is on the first level whose next one has `e` and `now` in one round
(`PlaceOf`, `PlaceIs`). The heart is `PlaceStays`: when the tick changes, a node that is
due later keeps its place unless it is in the one slot that `timer_shift` empties. The
proof compares the rounds of `now`, `now + 1` and `e`. Where `e` has not passed the turn
of time, `now + 1` lies between `now` and `e`, so that it is in their common round; if
the place changes, `now + 1` has entered the round of `e` one level below, hence a round
begins there whose index is not 0, which is the slot `timer_shift` looks for. An `e`
beyond the turn of time is in an earlier round of level 3 (`Expiry`), and its place
changes only when time is 0 again, the other case of the code. `PlaceNow` says
that the slot of the present holds just what is due.

The invariant is that a pending node is in the list of its place or being dispatched,
in no other list (`PlaceInv`, `WhereInv`); that `due` is the distance from `time` to
`expire`, modulo the turn (`DueInv`); that in each list the nodes that are due together
are in the order of `pending` (`OrderInv`); and that what is dispatched is due, nothing
on the wheel is due at the same time, and nothing is due while the thread sleeps
(`CurInv`, `CtlInv`). `OnTime` alone is not inductive, because it says nothing of nodes
on the upper levels. Nor is `SetOrder`: it says that two nodes due together are in one
list, but not why a cascade does not bring one of them into a list behind the other.
The reason is that both have the same place, so that they are moved by the same
`move_list`, which keeps their order (`MoveList`). Results: `TimerOnTime`,
`TimerSetOrder`, `TimerType`.

The same module has the proofs of **MessageQueue**. `RingIsFifo` is the refinement
`Spec => FifoSpec`, for every first capacity, threshold and number of pushes: the map
reads the ring from the head, and each push, expansion included, appends to it and each
pop removes its first element. It needs that head and tail stay in the buffer and that
the ring is never left full. `DoublingsAreReported` is `DoublingsReported`: between
reports the threshold is a doubling of `MQ_OVERLOAD` (`Watch`, `DoublingExists`), more
than what was last reported and at most twice it, because the loop of `skynet_mq_pop`
stops at the first doubling that is not below the length (`Raised`).

**WorkerPoolProofs.** `IInv == TypeOK /\ SleepExact /\ MutexHeld /\
NobodyLeftWaiting`: the mutex is held exactly by the worker that is between its
lock and its unlock, so that setting `quit` cannot fall between a worker's test
and its wait. Results: `SleepCount`, `NoneLeftWaiting`.

**ConnectionProofs.** `IInv == GateSound /\ Story /\ NoStartAfterClose /\
ListenerKept`, for any number of clients, any limit, any number of packages and
kicks. The properties relate the tables of one service to messages under way to
another, which says nothing of how the messages got there; `Story` adds, for each
client, where it is: opened once by the gate and unknown before (`OpenOnce`), handed
to its agent by one message, in the one place that the agent's state tells
(`HandOver`), followed and not preceded by its packages (`Routed`), and let go of by
the gate once it is being closed (`LetGo`). Results: `GateIsSound`,
`DataAfterHandOver`, `RoutesAlive`, `ClosedForGood`.

**UserServiceProofs.** The invariant says which account a login has at hand at each
of its commands, and what it had at hand when it failed (`AtWork`); with it
`CompleteOrInFlight` is inductive. Results: `AccountsComplete`, and
`UidsNeverIncrease`, the general form of the finding `uid_generator`: every uid drawn
with redis at hand is the base.

**AgentStreamProofs.** Two inductive invariants. `FrameInv` is the gate's: of every
connection p bytes have been read, the k packages that end in them have been
forwarded, and what the hash table keeps is the part of the next package that has
come (`Left`), one byte of its size included; the ring is empty between messages.
`Filters` is the heart of it: what `filter_data` makes of the next n bytes, after
nothing, after one byte of a size and after a part of a body. The lemmas below it say
what `push_more` cuts off (`PushMore`, `Fill`), what the chain holds after an entry is
taken off or put on (`TakenOff`, `PutOn`), and that the ring, expansions included,
gives back what was put in (`RingExact`). `FramingIsExact` follows, for any number of
connections on any hash, any capacity of the ring, any base and any packages.
`SessionInv` is the agent's and rests on `FrameInv`, since the turns follow the order
of the packages sent: the mailbox is in the order of arrival (`Mail`), a suspended
call has one answer at most (`Answers`), the waiting coroutines stand in the order of
arrival behind the one that has the turn, and everything before it has ended (`Line`),
`ref`, `wakeup_session` and `running` agree with it (`Turn`, `Runs`), and what has been
handled is a beginning of what can be read (`Handles`). `TurnIsTaken` alone is not
inductive: it says nothing of who is in the list, so that the next turn could go to a
coroutine that is gone. Results: `TurnPassesOn`, and `ImplementsSerial`, the refinement
`Spec => SerialSpec`, in which entering the queue is `Begin` and `xpcall_ret` is `End`.
Both invariants were checked with TLC on the instance of `agent_stream` first.

**SocketServerProofs.** For any number of slots, ids, connectors, messages of any
size, requests and places in the pipe. The argument about bytes looks at one
connection as a stream: what is on the wire, then the high list, then the low list
(`Stream`). A message is one block of it (`Blocks`), the blocks of one priority stand
in the order of the calls (`Ordered`), and no block crosses the place where the low
list begins (`Cut`): that last part is `LowIsWhole`. Each write of `send_buffer` and
`send_list_tcp` only moves a boundary over bytes that stay where they are
(`Moved`, `Flow`); `raise_uncomplete` moves the place where the low list begins to the end of the
block that a write has cut; a message that is taken is put in at the end of the
stream, or where the low list begins (`Inserted`).
`IInv == TypeInv /\ SlotInv /\ ConnInv /\ BatchInv /\ PipeInv /\ LowIsWhole`, and
`BirthInv` as long as no assert has failed. `SlotInv` ties the type of a slot to its
lists and its write event. `ConnInv` says for each id where its bytes are: in the slot
that has the id, or on the wire only; and what its owner was told. `BatchInv` is the
argument of `clear_closed_event`: only the slot that the last request closed is free
with an event left in the batch, and there is one such event. `OwnInv`, a second
invariant, adds whose event it is: of the socket in its slot, or missed, or about to be
cleared. `PipeInv` has the messages of a
service in the pipe in the order it sent them. `BirthInv` says that nothing has
happened to an id whose request to open has not been taken, and is what the failed
assert of the finding `socket_assert` breaks. TLC checked both on the instance of
`socket_server`, all 2,589,589 states of it, before the proof. Results: `LowWhole`,
`MessagesWhole`, `CleanLosesNothing`, `WaitsForWriting`, `EventsAreOwn`,
`OwnersToldInOrder`, one for each property of the run.

Recursion is met in these proofs (`FlattenSeq`, `FoldLeft`, `push_more`, `readable`,
`search`, `unnamed`).
The induction theorems of the library take the formula as an operator and cannot be
cited; `InductionTo` does the same for a set, from the well-foundedness of `<`, and
each recursive function is shown to be the function its equation describes. The
definitions of the models are written with that in view: `unlinked` and
`clear_closed_event` use `RemoveFirstMatch`, `raise_uncomplete` and the writes cut
their lists with `SubSeq` and count bytes as a set of positions, and `readable` and
`unnamed` are recursive functions where `SelectSeq` would do.

Assumptions are only those on the constants (finite sets, a root service, `None`
outside the sets, natural bounds, a power of two of handles), named in the module that
declares them and evaluated by TLC in every run, and the hypothesis `OneLauncher`.

`TypeCorrect`, `AbortSafe`, `LockType`, `LockCount` and `SleepCount` state parts of the
invariants that no run lists: they are proved and need no instance.

Only model-checked: everything temporal beyond step properties and refinements
(`SenderLearns`, `Reclaimed`, `WriterGetsIn`, `WorkIsTaken`, `PoolEnds`,
`NothingLeftBehind`, `Served`, `LoginEnds`, `Handled`), which the prover cannot do.
Every other property of a passing run is the statement of a theorem.

## 6. Plan

Done, in the order of importance: Kernel with Actor, RWLock, MessageQueue with
Fifo, Connection, UserService, Timer, WorkerPool; then HandleStorage, Netpack and
Session composed in AgentStream with Serial, SocketServer.

Proved: the safety of Kernel and its refinement of Actor, RWLock, MessageQueue and its
refinement of Fifo, WorkerPool, Connection, UserService, AgentStream with its
refinement of Serial, SocketServer, HandleStorage and Timer.

Left to prove: nothing but liveness, which is out of the prover's reach.

Modules that could follow: a socket channel (reconnect, answers in order) below
UserService, and the launcher with unique services.

## 7. Not modelled

Most of the lines of the repository are vendored: Lua, lpeg, cjson, md5 and
jemalloc under `3rd/`, the generated bindings and the cocos and quick frameworks
of the client. They are third-party code or parsers and encoders without state
between calls; the map covers the server's own core, and its share of all lines is
small for that reason. Further not modelled: UDP, name lookup, foreign descriptors
and socket options of the socket server; sproto; sleeping, timeouts and response
objects of `skynet.lua`; services for several nodes (harbor, cluster, datacenter,
multicast, sharedata: the game runs one node); debugging services, module loading,
configuration and log files; the client's user interface and its end of the
protocol, which run in one thread.

The scheduler (`utils/schedulerMgr.lua`) is required only by `gameRound.lua`, and
that file cannot be loaded: it calls a method named `end`, which Lua does not
parse. `main.lua` has the game service commented out as well; there is no behaviour
to model. Should it come into use: `skynet.timeout` returns nothing, so that `to` is
never set and a pending timeout is not cancelled; a stop and a start within one
period would leave two of them running.
