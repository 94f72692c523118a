# Verification of the LG G3 device tree

TLA+ modules, TLC configurations and TLAPS proofs for the code of
`android_device_lge_g3-common`. Most of that repository is build files, overlays and
audio tables; the program in it is the GPS HAL under `src/gps`: a framework of queues,
threads and timers (`gps/utils`), the adapters and contexts of the modem's API
(`gps/core`), and a location engine that runs on one message task and talks to the Android
framework, to the modem, to daemons and to data services (`gps/loc_api/libloc_api_50001`).
Beside it stand a wrapper of the vendor's camera HAL and a tool that gives the radios their
hardware addresses. These are what is modelled, from the bottom up.

## 1. Inventory

| Component | State it keeps | Operations | Modules |
|---|---|---|---|
| message queue, `msg_q.c` | list, unblocked flag, mutex, condition variable | init, snd, rcv, flush, unblock | MsgChannel, MsgQ |
| linked list, `linked_list.c` | two pointer chains, element data and deallocation function | init, add, remove, search, flush | LinkedList |
| worker thread, `LocThread.cpp` | runnable, join flag, reference count, thread handle | start, stop, main loop, destroy | LocThread |
| message task, `MsgTask.cpp` | a queue and a thread | sendMsg, run, destructor, destroy | MsgTask |
| timer heap, `LocHeap.cpp` | binary tree with sizes | push, pop, remove | PriorityQueue, LocHeap |
| timers, `LocTimer.cpp` | per timer a delegate; per container heap, timerfd, poll thread | start, stop, delete, expire | LocTimer |
| network initiated requests, `loc_eng_ni.cpp` | two sessions with request, id, answer, thread | request, answer, timeout, restart | LocEngNi |
| AGPS, `loc_eng_agps.cpp` and its messages in `loc_eng.cpp` | per network interface state and subscribers; data call and retries | open, close, status of the framework, retry, restart | AgpsStateMachine, LocEngAgps |
| location engine, `loc_eng.cpp` | session, mute, engine status, aiding data to delete | init, start, stop, mode, delete, cleanup, reports, engine down and up | LocEng |
| the framework's settings, `loc.cpp`, `loc_eng.cpp` | server buffers, data status, configuration, power vote, capabilities | set, update, send again after a restart | LocHal |
| sentences, `loc_eng_nmea.cpp` | used satellites and precision kept for the next position | satellite report, position report | Nmea |
| engine adapter, `LocEngAdapter.cpp` | session flag, fix criteria, ULP proxy, power vote | forwards calls down and reports up as messages | LocEng, LocHal (parts) |
| location API base, `gps/core/LocApiBase.cpp` | adapter array, event masks, open state | add and remove adapter, masks, dispatch of reports, restart | LocApi |
| contexts, `gps/core/LocDualContext.cpp` | two contexts, their task, whose features are injected | get a context, restart | LocDualContext |
| daemon connection, `loc_eng_dmn_conn*` | pipes, a thread with flags, requests and answers | start-up handshake, read loop, answers, unblock, join | DmnConn |
| configuration, `loc_cfg.cpp`, `loc_target.cpp` | tables of values with validity bits | read files, update, detect the target | LocCfg |
| camera wrapper, `camera/CameraWrapper.cpp` | vendor handle, preview, zsl and focus flags | parameters both ways, preview, recording, focus | CameraWrapper |
| MAC address tool, `hwaddrs/getmac.c` | two files per address | check, create, write, copy | HwAddrs |
| XTRA, logging | a list of servers; tables of names | forwarding, formatting | not modelled |
| lights, vibrator, wcnss client, shims | one lock or none | write to sysfs | not modelled |

How they interact. Framework threads call the HAL, which calls `loc_eng_*`; each call
becomes a `LocMsg` sent to the **message task**. Threads of the modem's library call
`LocApiBase`, which calls every adapter; an adapter's report becomes a message to the same
task. The server of the daemons' pipe sends messages there too. The task is a `LocThread`
that reads a `msg_q`, a `linked_list` with a lock. Only the task changes the engine's state,
the AGPS machines and the timers' heap, so what is hard is rarely a data race inside a
handler and almost always *order*: a message that was right when it was sent and is handled
after something else. There are places where another thread reaches in: a client that
stops a timer while its expiry is being handled; a session thread of a network request with
its timeout, and a user's answer to such a request; the retry timer of the emergency data
call; the framework's settings, which are globals that the task reads when the modem comes
up; the array of adapters, which three threads use without a lock; and clients that ask for
the contexts while one is made. The modem can crash and come back at any time
(`handleEngineDownEvent`, `handleEngineUpEvent`), and every component above the task has code
for that. The phone can crash while addresses are written.

What makes each one correct, and what is stated about it below: messages are neither lost,
nor reordered, nor owned twice, and nobody sleeps beside a queued message; the two chains
of the list are one list; the delegate of a thread dies exactly once and after its last
use; the heap is a priority queue; a timer fires once unless it is stopped, and never after
a stop its client won; a network request gets at most one answer and its session ends; an
AGPS machine's state, its subscribers, the clients' beliefs and the data call agree; the
engine has a session exactly when the framework wants one, and the modem runs it, however
many restarts came in between; what the framework set reaches the modem, again after each
restart; the modem reports what the adapters want, to those that stay in their place; a position names
satellites and precision of one report; contexts and their task are made once; each daemon
gets its own answers; a configured value is the one the texts gave last; the preview runs in
the mode of the vendor's parameters; the radio keeps its address. `PROJECT.json` lists under
`hazards` the lines where these can go wrong and which property would notice.

## 2. Structure and plan

```
MsgChannel <=refines= MsgQ               LocThread
                                             |  EXTENDS
PriorityQueue <=refines= LocHeap          MsgTask  (thread + queue)
      ^ used by LocTimer                     :  its guarantee, an in-order sequence of
                                             :  messages handled one by one, is what
      LinkedList (under msg_q)            LocTimer, LocEngNi, LocEngAgps, LocEng, LocHal,
                                          LocApi, LocDualContext, DmnConn  use
                                          AgpsStateMachine <-EXTENDS- LocEngAgps
```

Each layer is checked against what the next one assumes of it. `MsgQ` is shown to implement
`MsgChannel`; `MsgTask` composes `LocThread` with a queue and shows that messages are handled
in the order they were accepted (`HandledInOrder`), so the modules above keep the queue as a
sequence and one handler as one step, except where a handler releases a lock, or reads
something another thread writes, or another thread can look in between. `LocHeap` is shown
to implement `PriorityQueue`, which is all `LocTimer` uses of the heap.

A module `X` models the code, an `MC` module and its `.cfg` files give TLC an instance, and
`X_proofs` holds the theorems (`MCThreads_proofs`, `MCOneCaller_proofs` and `MCHal_proofs` those
about components that share a run). Four runs check all of them:

```
MCThreads    = MsgQ | LocThread | MsgTask | DmnConn | LocDualContext
MCSequential = MCOneCaller (LinkedList | LocHeap | CameraWrapper | HwAddrs | LocCfg) | LocTimer
MCNiAgps     = LocEngNi | MCLocEngAgps
MCHalRun     = MCHal = LocHal | LocApi | Nmea | MCLocEng
```

The components of such a run share no state in the code either; a variable names the one a behaviour
is about and the others keep their first state, so that the run's states are the sum of the
components', not the product. A property of one component is true in the behaviours of the others
because it is true in the first state. Where a run restricts what is alike to come in one order
(adapters, requests, timer delegates), the module that does so is not the one the theorems are
about.

In every module a definition called *Mutant* is an erroneous variant of a definition that
follows it; none is used by the specification. They serve to show that each property does
fail when the code it is about is wrong; where a property has several parts there is one for
each part that matters, of which `PROJECT.json` lists one.

Order of work: queue, list, thread, task, heap, timers, network requests, AGPS, engine; then
settings, adapters, daemon connection, sentences, contexts, configuration, camera, addresses.
All are done. What is left of the plan: the replacement of the engine adapter's ULP proxy, of
which the half that matters is in a library outside the repository. What is only
model-checked (section 6) is out of the prover's reach.

## 3. The modules

**MsgChannel, MsgQ.** `MsgChannel` is a closable FIFO channel without locks: put, take, drop
and close. `MsgQ` is `msg_q.c`: every action is one critical section of the mutex; waiting on
the condition variable is a state of the receiver (`waiting`), a signal turns one waiting
receiver to `woken`, a broadcast all of them, and a wake-up may be spurious. `accepted` and
`gone` are histories. A receiver that is refused because the queue is unblocked returns, a
sender that is refused keeps its message. `msg_q_destroy` is no action
here: `~MsgTask` calls it after the flush, when nobody else may use the queue any more.

**LinkedList.** Cells of `malloc` are a set of elements; `p_head`, `p_tail`, `next` and `prev`
are the pointers, and freed cells lose their contents. `linked_list_search` walks from the head,
one action per element, and may unlink the match on the way; `linked_list_flush` removes cell
by cell. `order` is the history that says which list the pointers stand for.

**LocThread.** The client's and the worker's program counters, and the members of the delegate
they share: construction (with a `pthread_create` that may fail), `create`'s look at
`mRunnable`, `stop` with its join, `bye`, the main loop, and `destroy` split as the code does:
an unlocked look at the count, the decrement under the lock, the deletion after it. The worker
clears `mRunnable` on its way out, so that `start()` can fail for a thread that has run: the
client must then not delete the runnable again, as `LocThread.h:75-77` tells it to; the only
client, `MsgTask`, has a `run()` that does not end before `destroy()`.

**MsgTask.** Extends `LocThread` with a queue: `run()` is `RunReturns` of the thread with a
receive, a handler and a deletion as separate steps. `destroy()` unblocks the queue, takes the
thread and deletes it. When the worker deletes the task before `destroy()` looks at it again,
`owner` becomes `"undefined"` and the behaviour ends there.

**PriorityQueue, LocHeap.** A node of the tree is the place where it is, the sides that lead to
it from the top; `mData` and `mSize` are functions on the places that have a node. The code
never moves a node, it swaps data between nodes, and each of its recursive methods goes down one
way: `push` along `SideToGrow` (the smaller subtree) to the node that is new, carrying down the
lower of two objects at each step (`Carried`), `pop` along `SideToPop` (the child that outranks)
to the leaf it cuts off. So one step of the model says, for every node at once, what the whole
call leaves there. `remove` compares by address and prunes by rank (`Found`), then pops from where
it found the object; the ancestors of that place lose one from their size (`Shrinks`). `contents`
of the abstract queue is the set of objects inside, `top` the data at the root.

**LocTimer.** Clients, poll thread and message task over one container. `start` and `stop` hold
the timer's lock; `destroyLocked`, the handlers and the poll thread's three steps (disarm,
remove from epoll, post) are actions of their own because others run in between. A timer's
expiry is `readClient` (the copy of `mClient`), `stopClient`, `timeOutCallback`. The task is
`"undefined"` from the moment it calls through a copy of a client that is deleted.

**LocEngNi.** Two sessions, one thread per accepted request. The handler of a request is three
steps (accept, number, spawn), since threads of earlier requests look at the session in between;
`pthread_create` may fail. A session's thread waits for the answer, the timeout or the reset,
looks under the lock whether there is a request (`takeAnswer`), reads it again for the message
(`readRequest`), clears it (`closeSession`), and clears `reqID` after the lock. `respond` reads the
id in one step and writes the answer in another. A restart looks, frees, forgets and wakes in the
code's order, of which only the last has the lock, so it can come between any two of these.
`dead` (what a restart freed) and `refusals` (what was refused, and what was in progress) are
histories.

**AgpsStateMachine, LocEngAgps.** The first has the four states and their six events as
functions from a machine to its next state and the requests and notifications it makes; the
second keeps the machines, the clients, the framework, the data service and the messages of
`loc_eng.cpp`, with getAgpsStateMachine's choice of a machine that exists, retries of a busy
data call, and `dropAllSubscribers` at a restart. The framework's answers come in through
`loc.cpp` (`LocAgps`), which takes all of them for the agnss machine, whichever NIF was asked for;
one without the name of an APN is dropped (`answerNameless`, remembered in `nameless`). Assumed of
what is outside: the framework answers the requests for a NIF in order; the data service reports
the end of a call once; a handle that was in use at a restart is not used again (`"lost"`), and a
handle is used again only when no message about it is under way. Where agnss was not made
(no MSA or MSB capability) the message of an answer names no machine; handling it is undefined
and the behaviour ends there.

**LocEng.** The framework's calls, the message task's handlers and the modem. `queue` is the task's.
`startFix`'s result is any the modem can give: success, phone offline or internal error (which the
code also takes for a session), a failure, and engine down exactly when the modem is not open.
`gpsModem` is external: whether it is down, up or opened, whether it runs a session for the
framework, one for the network, which statuses it has told. The messages of `loc_eng_reinit` are one
message `Config`. Reports go straight to the queue, as they do with the ULP proxy the adapter is
made with. Only a request of the network mutes. Aiding data is a set of kinds, of which a request
names some. `wish` (what the framework asked for last), `outcome` (why there is no session, or none
that runs, although it asked), `owed` (the data that was to be deleted and was not yet, of all
requests and of the last) and `crashed` are histories. Assumed: `stopFix` of a modem that is up
stops the session, and the modem does not crash before the engine was created.

**LocHal.** What the framework sets through `loc.cpp` and how it reaches the modem. Framework
thread and message task share `loc_eng_data`, `agpsStatus`, `gps_conf` and the power vote without a
lock, so a call is split where it writes one of them and where it sends: `fw` says how far it
is. `loc_eng_reinit`, the repeated vote and `loc_eng_agps_reinit` read a value in one step and send
it in the next (`reinit`). A server is kept in a buffer, where a long name is cut (`Kept`), and sent
as it was given; nothing is sent when the URL is too long or the name is not resolved
(`setServer`), while the buffer keeps it. The GPS lock is sent by `loc_init` and `loc_cleanup`, never
again. `lost` is the history of settings the modem missed in a way the code does not mend: a
call that came between such a read and its send, a network status without an APN, a server
that was not sent or not as the buffer has it, or that came before AGPS, a lock of before a
restart. One value stands for those that are handled alike, as the module's head says.

**LocApi.** `LocApiBase`'s array, used by three threads without a lock. `removeAdapter` is three
steps, with a hole in the array after the first; `getEvtMask` and the delivery macros of
`LocApiBase.h` take two steps per slot, since they read the pointer to see whether it is there
(`nextMask`, `look`) and again to call the adapter (`getEvtMask`, `deliver`); they stop at the first
`NULL`. When the second read finds `NULL` the behaviour is undefined and ends. The mask the modem is
asked for is the union of the adapters' without `mExcludedMask`, which is not empty for a
background context (`LocDualContext.cpp:45-54`). `open` and `close` of the subclass are external:
they register the events of a mask, or none. A request is delivered up to the first adapter that
takes it, a report, and the news that the modem is down or up, to all. An adapter that finds the
array full is left out silently, as in the code.

**Nmea.** A satellite report makes GPGSV and GLGSV sentences of four satellites each and leaves
behind the used satellites and their precision; a position report makes the five others from those.
A satellite is its place in the report's list, a precision the number of the report it comes from, a
sentence the part of it the properties read. A sentence is taken to fit its buffer: the returns
after an `snprintf` that failed are left out. Positions are those of a session that reports them.

**DmnConn.** The thread helper with its start-up handshake (flag, signal, single wait,
spurious wake-up), the server's loop over the pipe (header, body, handler), reads that fail,
which end the server, the daemons, whose answers wait when a pipe is full, and unblock: the flag,
then a message that makes the server look at it.

**LocDualContext.** Clients ask for the foreground or the background context; the steps of
`getLocFgContext` and `getLocBgContext` between lock and unlock are actions of their own, because
`handleEngineUpEvent` of the modem's thread reads `mInjectContext` without the mutex. A platform says
which libraries are there, from which `createLocApi` chooses.

**LocCfg.** Files and updates are sequences of lines, a line a name and a text. The reader is a
fold over the lines which stops when as many entries were filled as the table is long, less one
for an update. `expected` is the history of the last value each text gave.

**CameraWrapper.** The vendor's camera is a record of the parameters the wrapper looks at, the
mode its preview was started in, and whether its focus moves. The wrapper checks no order of the
calls, so neither does the model: parameters, previews and recordings begin and end at any time,
and the vendor may refuse a start or a set. `set_parameters` is a function from the pair of
vendor and flags to the set of outcomes, since a recording calls it too. `drifted` says that a
flag was wrong at some time since the open: `zslState` after a refusal, or since it is global and
comes from the last device; `previewRunning` when the end of a recording
(`CameraWrapper.cpp:500-504`) starts the vendor's preview although the application stopped it
during the recording. After that a change of zsl does not restart the preview and it runs in the
wrong mode: `VendorAgrees` says what holds until then.

**HwAddrs.** One pair of files over several boots: each run checks, creates, writes and copies,
any call may fail, a crash takes back what was not synced, a factory reset clears `/data`.

## 4. The runs

Bounds are constants of the modules or are named in their guards. A run stops early only where
the system does: clients, calls and messages run out, so deadlock is not checked.

| Run | Instance | Shows |
|---|---|---|
| `threads` | a queue with 3 messages and 3 receivers; a thread with any `run()`, complete; a task with 3 messages; 2 daemons, 2 messages and pipes for 1 answer; 2 clients of 5 platforms and 2 restarts | `OneOwner`, `NoLostWakeup`, `ImplementsChannel`, and every message leaves and unblock releases everyone (`Progress`); `ThreadSafe`, `StopReturns`; `MessagesSafe`, `DestroyReturns`, `EveryMessageHandled`; `DaemonsServed`, `ServerProgress`; `ContextsShared` |
| `sequential` | 3 elements and 3 objects; 5 objects of 2 ranks; 2 opens of a camera; 3 boots; texts of up to 4 lines, 9 devices, 2 updates; 2 timers, 3 starts, time up to 2 | `ListSafe`, `SearchFindsNewest`; `HeapSafe`, `HeapImplementsQueue`; `VendorAgrees`; `AddressSafe`; `ConfigFollowsTexts`; delegates are deleted once (`DelegatesSafe`), the soonest timer is armed (`SoonestIsArmed`), a stopped timer is silent (`StopCancels`), every other one fires (`EveryTimerFires`) |
| `ni_agps` | 2 requests and 1 restart; 7 settings of 2 clients, 1 retry, 1 restart | one answer per request, one free unless a restart freed it too (`AnsweredOnce`), an emergency is refused only for another (`EmergencyIsLater`), `SessionsEnd`, `RequestsFreed`; states match subscribers, clients agree with machines, no call is left on (`SubscribersMatchState`, `ViewsAgree`, `DataCallOwned`), requests for agnss are answered (`RequestsAnswered`) |
| `hal` | up to 4 calls, 1 position, 2 crashes, 1 session of the network, 2 kinds of data; 3 calls and 1 restart, 2 servers, one with a long name, 2 targets; 3 adapters for an array of 2, 2 events, one excluded; up to 5 satellites, 2 reports | `SessionIsWished`, `ModemIsRestored`, `MuteEndsWhenIdle`, `DeletionsDone`; `SettingsReachModem`, `CapabilitiesAnswered`; `MasksMeet`, `ReportsReachAll`; `SentencesAgree` |
| `timer_dead_client` | timers as in `sequential` | finding 1 |
| `ni_answer`, `ni_payload` | requests as in `ni_agps` | findings 2 and 3 |
| `agps_answers`, `agps_gone` | machines as in `ni_agps` | findings 4 and 5 |
| `server_before_init` | settings as in `hal` | finding 6 |
| `deletions` | 4 calls, no crash | finding 7 |
| `reports` | adapters as in `hal` | finding 8 |

Why the bounds are enough. Three messages and three receivers are the least that tell a signal from
a broadcast, with one receiver that comes in late. Three elements give a head, a middle and a tail
to remove. Five objects make trees of three levels, both balanced and degenerate; two ranks make
equal ones meet higher and lower ones. Three starts of two timers let an expiry that is on its way
meet a stop, a restart of the same timer and a timer due later. Two requests put a second one into a
session whose first thread is not yet gone, which takes one restart. The AGPS settings each have
what one rule of the machines is about: competition (wifi takes one subscriber), sharing, a choice
of interface, one that is missing, an emergency beside others and two emergencies. `MaxRetries` is 1
where the code has 4; retries differ from each other only by their number. The engine's limits split
the load in six (`AllLimits` in `MCLocEng`): calls alone, calls with a position, calls with one
crash and with two, a position with a session of the network, and one of each. Three calls of the
settings are one before, one during and one after a restart. Three adapters in an array of two fill
it, overflow it, and let one move into another's place; reports, restarts and more changes are in
separate behaviours (`AdapterLimits`). Two daemons with room for one answer make the task wait and
could swap the answers. Three boots are one that makes an address, one that is disturbed and one
that must repair. Two updates can undo each other. Two opens carry the wrapper's globals from one
camera into the next.

Fairness. Threads the system creates are scheduled and their handlers return: receivers of the
queue, the worker and the destroying owner, the poll thread and the message task, session threads,
whose wait has a timeout, the daemons' server, its launcher and the owner that has begun to unblock
it. Time passes (`Tick`). Of what is outside only two things are assumed: `run()` returns, which is
its contract (`LocThread.h`), and the framework answers AGPS requests, as one of its calls or
another that the code drops. Clients are never obliged to start, stop, release or answer anything, a
modem never to restart, nor a data service to succeed. Liveness of AGPS is stated for settings with
agnss and without the emergency machine: with that one a client may wait for ever, which is listed
as a hazard, and clients of internet and wifi do (finding 4).

## 5. Findings

1. `NoDeadClient` (`LocTimer.cpp:524`): `expire()` copies `mClient` without the lock; the client that
   stops and deletes its timer in between is called after its deletion, which the comment at
   line 486 says cannot happen.
2. `AnswerIsForRequest` (`loc_eng_ni.cpp:399`): the id of a user's answer is compared before the
   lock is taken and the session may by then belong to the next request.
3. `PayloadIsLive` (`loc_eng_ni.cpp:283`): a restart frees and clears a request without the lock its
   thread holds between looking at it and putting it into the message, so that an answer without
   its request, or with one that was freed, goes to the modem; lines 239-241 and 80 exclude both.
4. `AnswersInform` (`loc.cpp:697`): the framework's answers are all passed on with the type of agnss,
   so that clients of internet and wifi, whose machines do ask, never hear of one.
5. `UnsubscribedIsOff` (`loc_eng_agps.cpp:291`): a client that gives back an emergency connection
   while the retry timer runs is told so and stays a subscriber; the retry makes the call for it.
6. `ServerBeforeInit` (`loc_eng.cpp:1722`): a server that is set before `loc_eng_init` is put in a buffer
   of `loc_eng_data`, which `loc_eng_init` then clears: the modem is never told.
7. `EveryDeletionDone` (`loc_eng.cpp:1301`): a request to delete aiding data while the engine is on
   replaces the one that waits already, whose data is then never deleted; and what waits when the
   modem goes down still waits although the engine is off. Lines 2100-2103 promise the deletion.
8. `DeliveredToAll` (`LocApiBase.cpp:174`): a removal makes a hole in the array at which a report
   ends that is on its way, and then moves the last adapter, perhaps into a slot that the report
   has passed; lines 216 and 249 say that all adapters get it. `ReportsReachAll` is what remains.

Other behaviour that no document contradicts is in the models, some of it listed as a hazard with a
note: an expiry message that pops a timer which is not due (`LocTimer.cpp:367`), a mute for the
network that outlasts its session while the framework's runs, since a status does not say whose
session ended, and one that waits for a session that never comes (`loc_eng.cpp:1988`), a removal
from the heap that goes by address where `LocHeap.h:84-86` speaks of a node that ranks the same (its
caller, `LocTimer.cpp:339`, wants the node itself), a restart that starts a session with an invalid
mode (`loc_eng.cpp:2843`), a queued single-shot position that ends the session after its own
(`loc_eng.cpp:791`), a setting that comes between the task's read of its old value and the sending
of it, or a GPS lock that a restart loses (`lost` in LocHal), an update of the configuration that
starts with one record off and can stop before its last line (`loc_cfg.cpp:338`), a server of the
daemons that ends after one failed read (`loc_eng_dmn_conn.cpp:135`), an adapter that a full array
leaves out (`LocApiBase.cpp:157`), and an open that is under way when the last adapter closes
(`MasksMeet` speaks of adapters that are there).

## 6. Proofs

Checked by `tlapm` for all values of the constants, from the named assumptions of the modules
(`ASSUME`s that the runs evaluate) and nothing else.

* `MsgQ_proofs`: type correctness; `Fifo` (`accepted = gone \o msg_list`); `OneOwner`, with the
  strengthening `OwnerInv` that the messages in `accepted` are distinct, without which a
  message could return to a queue it never left; `NoLostWakeup`, which counts the receivers that
  are woken against the messages that wait and is inductive with the type alone; and `Refinement`,
  that the queue implements `MsgChannel`: under `Fifo` the head of the list is the next message of
  the channel, every step is a channel step or a stutter.
* `MCOneCaller_proofs`, of five components that share a run.
  - The list (`ListSafe`, `SearchFindsNewest`): `IInv` = `TypeOK`, `WellLinked`,
    `MemorySafe`, `Objects`, `Progress`. `WellLinked` says that `order` is the list both chains
    represent; `Objects` that elements hold live, different objects; `Progress` where the cursor of
    a search stands relative to the first match, which is what makes `SearchFindsNewest` follow and
    what `Unlink` needs to know that its cursor is in the list. One lemma per operation (`AddStep`,
    `RemoveStep`, `UnlinkStep`, ...), two of them sharing `ShrinkStep`.
  - The address tool (`AddressSafe`): `MacInv` = `MacTypes`, `Kept`, `Sure`. `Kept` says that, until
    persist's address is lost, it and a copy for the radio are the one that was published, and
    that a new one is written only when none was; `Sure` what a run that has not failed has in
    its hands at each of its steps. `AddressesAreAddresses`: no address is one of the marks for a
    file without one.
  - The camera wrapper (`VendorAgrees`): `CameraInv` = `CameraTypes`, `VendorKept`, `InMode`, `IsoAsked`.
    `VendorKept` says that the vendor's mode is the one of its zsl, whoever set it; `InMode`
    that, while no flag was ever wrong, zslState is the vendor's zsl and a preview that runs is one
    the wrapper knows of. That a set of parameters which restarts nothing leaves a preview in the
    mode of the parameters needs both. The lemmas `ReadsBack` and
    `Writes` say what the two translations keep, `IsoTables` that their tables are inverses.
  - The configuration (`ConfigFollowsTexts`), for texts of any length: what matters is the loop that
    reads lines until as many records are filled as the table is long (or one less, in an
    update). `ReadUpTo` says what the reader holds after k lines: the names met are set, their
    number and the records that are left add up, and each has the value of its line. When no
    record is left, the names that are set are all that the text has (`ReadsOneMore`; this is
    where it counts that no name comes twice and, for an update, that one name is missing), so
    nothing is missed by stopping. `CfgInv` then needs only `Values`, that the bits of CAPABILITIES
    are those of a number, for `NoAssistance` to change nothing the second time (`Unassisted`).
    `TextsAreTexts`: a line has a name and one of the texts that `LocCfg` tells apart.
  - The heap (`HeapSafe`, `HeapImplementsQueue`), for any number of objects and any ranks:
    `HeapSafe` is inductive as it stands, and `HeapState` is the same said of any tree, so that one
    lemma can speak of the tree before and after. Places are ordered by `Above`; of the children of
    a node above another exactly one is on the way to it (`Branch`, `OneSide`), which is all that
    the sizes need (`Grown`, `Cut`). `Passed` says what `push` has done after n nodes: what it carries
    and what it has left behind are the objects it met and the new one, each once. `pop` moves the
    objects along a bijection from the places that stay to those but the top (`PopHolds`), and the
    one that moves up outranks its new children because it was the higher of two (`PopSorts`).
    Both ways end, at no node and at a leaf, because a child has fewer nodes than its parent
    (`Fewer`, `NewNodeIs`, `CutOffIs`). `HighestAbove`, that no object outranks one above it, gives the
    refinement: the root is one of the highest, and `remove`, which prunes by rank, finds what is
    there (`FoundIs`). What the recursive methods do along a way comes from the least place at
    which it could fail. `RanksAreNumbers`: ranks are numbers, and `NULL` is no object.
* `MCThreads_proofs`, of four components that share a run.
  - The thread (`ThreadSafe`): `IInv` = `TypeOK`, `Counted`, `Alive`, `Joined`, `Late`. `Counted` ties
    the reference count to the places of both threads; the unlocked look at the count is harmless
    because a thread that still has to decrement has its own reference.
  - The message task (`MessagesSafe`): `TaskInv` adds to the thread's invariant `InTurn` (what was
    accepted is what was handled, then the message in hand, then the queue), `Distinct`,
    `Deletions` (who is deleted: all that is behind the message in hand and, once the task is,
    all that was accepted) and `Control`, that only `destroy()` makes the worker leave, so that
    the flush finds no message in its hands. A prefix of a sequence of distinct messages handled
    in place is what makes the order follow.
  - The contexts (`ContextsShared`): `ContextsInv` = `Locked` (one client at a time is past the
    mutex), `Once` (a context that is there was made once and has the common task), `Known`
    (what a client holds is what was made), `Sent` (each client's first message is in the queue
    once) and `Injected` (the features are there, or the client that made the context that injects
    them is about to, or the modem is still to tell that context that it is up). Each part
    needs the ones before it, so they are proved in that order.
  - The connection to the daemons (`DaemonsServed`): `DmnInv` = `DmnControl`, `Contents`, `Unopened`,
    `Forwarding`, `Answering`. `Forwarding` cuts what was written into what was handled, the message
    in the server's hand and the messages in the pipe, and says that the good ones of the first
    part were sent on; `Answering` cuts what was sent on into what was answered, daemon by daemon,
    and what the message task still has. Every step moves one message over one of the cuts, so the
    lemmas `SplitsWrite`, `SplitsRead`, `RoutedSend`, ... have one move each. They rest on what
    `Picked` picks from two sequences in a row (`PickedConcat`): a recursive function, whose facts
    come from the least length at which they could fail. `Unopened` is what makes the answers agree
    from the moment the pipes are there. `DaemonsHavePipes`: no daemon has the modem's name, and
    the size of a pipe is a number.
* `LocEngNi_proofs` (`AnsweredOnce`, `EmergencyIsLater`): `IInv` = `Types`, `Numbers`, `Births`,
  `Locks`, `Emergencies`, `Places`, `Deads`, `Frees`, `Nulls`. `Places` says that an accepted
  request is in one session, one thread, one message or answered, and in a session and a thread
  together only while that thread holds the session's lock (`Locks`: one thread at a time): the
  second of two threads on a session, which a restart can bring about, can only take it after the
  first has taken the request out. `Numbers` counts the ids that are given out, so that there is
  one for each request, and `Births` keeps a thread's id unused until its request has it. `Frees`
  bounds what is *not* safe here: while anybody but a restart is still to free a request (`Open`)
  it was freed at most by a restart (`Deads`: that request is in no session any more but for the
  step between free and forget), and afterwards once more. `Nulls` says that no request gets lost
  on its way before the first restart.
* `LocTimer_proofs` (`DelegatesSafe`, `SoonestIsArmed`, `StopCancels`): `IInv` = `Types`,
  `TopIsSoonest`, `Working`, `Held`, `Over`, `Watched`. `Held` follows a delegate through its life:
  while it is alive either a client points to it, it to the client, and no message asks to
  remove it, or it has no client and the queue has exactly one such message, behind any push of
  it. That message is the last about it, so it is deleted once and not named afterwards. `Over`
  says that a delegate that has called back or was cancelled has lost its client, and not both
  happened: to call back is to take the client away, as to cancel is. `Watched` says that a
  descriptor is polled and armed for no later than the root of the heap is due, or that an expiry
  is on its way (the poll thread is not back at its wait, or the message is in the queue), or
  that the task is in the middle of what will arm it; and that a task about to arm polls already,
  unless an expiry is on its way. That the task polls before it arms, and that the thread posts
  after each undoing, is what keeps this inductive.
* `LocEngAgps_proofs` (`SubscribersMatchState`, `DataCallOwned`, `ViewsAgree`): `IInv` = `Base`,
  `Called`, `Viewed`. A list of subscribers is seen as two sets, who is on it and who wants the
  NIF; the lemmas on lists say what every event does to these, so that nothing after them speaks
  of lists. `Base` has the types and, for each machine, what its state says of the two sets,
  which is `SubscribersMatchState`. `Called` enumerates which state of the ds machine goes with which
  state of the data service's call and which events of the call are still in the queue: the
  reason why an event that comes late never finds the machine in a state where it would take it
  for another call's. `Viewed` (for settings without a ds machine, where `ViewsAgree` is claimed)
  has, for each client, which messages of it are in the queue and in which order, against what
  the client believes and which of the two sets it is in. A client that is lost has its messages
  before the `engineUp`, one that asks has its request after it; that is why the handle of before
  a restart keeps nothing up. The folds of the model are recursive functions; their facts come
  from the least index at which they could fail.
* `LocEng_proofs` (`SessionIsWished`, `ModemIsRestored`, `MuteEndsWhenIdle`, `DeletionsDone`): `IInv` =
  `Types`, `Session`, `Configuring`, `Restored`, `Muting`, `Deleting`, `Owing`. All four promises are
  about a queue that was handled, so the invariant says what the queue must still hold until then,
  in terms of four predicates (a message is there, is the last of its kind, is followed by
  another, comes before another), whose few lemmas about taking and appending a message do most
  of the work. `Owing` says where the data of the last request is: in its message, which no other
  request follows, or among what the engine keeps.
* `MCHal_proofs`. The settings (`SettingsReachModem`, `CapabilitiesAnswered`): `SettingsInv` has one
  conjunct per setting, each saying that the modem has what the framework set last, or that the
  message, the step of a call or the step of the reinitialisation that brings it is still to
  come, or that it was lost in one of the ways the property names; the lock's also that the
  framework's message with it comes behind the one that makes the engine. The adapters (`MasksMeet`,
  `ReportsReachAll`): `AdaptersInv` = `ApiTypes`, `Calls` (a call under way is at a slot),
  `Packed` (the array has no hole but the one a removal is moving), `Asked` (the mask that is
  collected holds what the slots behind the cursor ask for, and the modem what all do, or a message
  is there that asks again), `Delivering` (a delivery has reached
  every adapter of a slot it passed, but those that were moved there, and at most the last one it
  reached took it). The sentences (`SentencesAgree`),
  for any number of satellites: `KeptLast` (what is kept is of the last report) gives
  `DopMatchesSats`. For `GsvComplete`, `Walks` says how many satellites of a kind are left where the
  n-th sentence begins, by a least counterexample, since `From` is a recursive function;
  `FirstOfProperties` what the next four of them are. So the sentences of one kind are as many as
  are announced, none is empty and together they list all (`GsvIs`), and two kinds in a row do
  not disturb each other (`BothList`). `MCHal` assumes that the array has a slot, that `NULL` is no
  adapter and that the bounds on satellites and reports are numbers.

The properties that the theorems state are also checked by TLC, on the instances above.

Only model-checked: all liveness (the prover handles neither fairness nor `ENABLED`), which is
`Progress`, `StopReturns`, `DestroyReturns`, `EveryMessageHandled`, `ServerProgress`,
`EveryTimerFires`, `SessionsEnd`, `RequestsFreed` and `RequestsAnswered`; and what the "violation"
runs refute.

## 7. Not modelled, and why

XTRA and the injections forward data without a state of their own; numbers, times and
checksums of NMEA sentences, log tables and the trimming of lines are text; lights write three
values under one lock; the vibrator and the shims have no state; audio, overlays, policies and
boot image tools are data or build-time code. The second timer container (software alarms) is
a second instance of the first. The C wrapper of timers adds a callback object. `BIT`
subscribers behave as `ATL` ones. The replacement of the engine adapter's ULP proxy hands the
framework's calls to a library that is not in the repository. The calls of the camera wrapper
that only pass their arguments on have no state. The lock-free walk of the AGPS retry callback
over the subscriber list, and the owner that finds its message task deleted, are undefined
behaviour and appear as such or as one step.
