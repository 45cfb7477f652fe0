# A TLA+ development for GreenLib

GreenLib is a collection of C++ libraries on top of SystemC/TLM-2.0: threads
outside the simulation kernel, configuration parameters, registers, sockets and
routers. This directory holds TLA+ models of the parts whose correctness depends
on order: of threads, of callbacks that call back, of the phases of a
transaction. Each module is translated from the C++ source; `PROJECT.json` maps
every definition to the lines it stands for, and lists runs, hazards, findings
and theorems.

    AsyncEventSpec   what an asynchronous event promises
      ^ implements     ^ relies on
    AsyncEvent       SyncPolicy                   (greenthreads)

    BusArbiter  <-- implements --  SimpleBus      (greenrouter)
    RouterMap                                     (greenrouter)
    GsgpSockets  <-- stages of -- GsgpStages      (gsgpsocket)
    FlatMem     <-- implements --  SparseMem      (greenmemory)
    GsParam, ConfigPlugin                         (greencontrol)
    Register                                      (greenreg)

A module `xProofs` holds the theorems about module `x`; `TransportProofs` holds
those about `RouterMap` and `GsgpSockets`. A module `MCx` instantiates module `x`
for TLC; the `.cfg` files give the constants. `AsyncEvent`, `GsgpSockets` and
`SparseMem` need no such module and are run directly.

## 1. Inventory

### GreenThreads (`greenthreads/include/greenthreads`)

*State.* `gs_event_async` (`thread_safe_event.h` 153-216): `local_mutex`,
`m_delay`, `outstanding`, and one process-wide `global_semaphore`.
`before_end_of_delta_helper` (124-146) is a kernel process that runs in every
delta. `centralSyncPolicy` (218-391): `endTimes` of all threads, `backWindow`,
`frontWindow`, `sc_is_back_window`, a mutex, the semaphore `canLock` and the
counter `locksToDo`. `inLineSync` (`inlinesync.h`): `txnMutex`,
`txnDone`, `l_trans`, `l_result`.

*Operations.* `notify()` from any thread, `update()` in the kernel; `syncAt`,
`setWindow`, `update_window`, `kickLock`, `takeLock`, `checkWindow`,
`takeLockMethod`; `b_transport`, `get_dmi` and `transport_dbg` of remote threads
and `processTxn` in the kernel.

*Interaction.* Remote threads and the kernel share memory; they wake each other
through the semaphores, a timed condition variable and asynchronous events.

*What is hard.* Real concurrency. Tokens are posted, counted and taken at
different places; `update()` and `takeLockMethod()` wait for tokens while they
hold a mutex; the windows are computed from values read without a lock.

*What makes it correct.* No wake-up is lost, no token leaks or is missing, the
simulation does not end while remote threads have work, a thread is at most a
quantum ahead, every transaction returns with its own answer.

### GreenRouter (`greenrouter/include/greenrouter`)

*State.* `SimpleBusProtocol`: two payload event queues, the scheduler's queue,
`m_idle`, `txn_states` (which side has completed), the event that starts the
processing of a request. `GenericRouter`: the address map and, per target port,
the DMI ranges handed out. `simpleAddressMap`: a sorted vector of ranges.
Schedulers: fixed and dynamic priorities.

*Operations.* `nb_fw`, `nb_bw`, the queue callbacks `fw_peq_cb` and `bw_peq_cb`,
`processMasterAccess`, `registerSlaveAccess`, `enqueue`/`dequeue`,
`addressChanged`, `decode`, `get_direct_mem_ptr`, `invalidate_direct_mem_ptr`.

*Interaction.* Initiators and targets call in with phases and may complete early
on both paths; the payload is reference-counted between initiator and bus; the
address map follows parameters of GreenConfig through callbacks.

*What is hard.* Early completion, phases that are merged or left out, payloads
released while something is still queued, address changes in mid-flight.

*What makes it correct.* One transaction at a time, no request forgotten, no use
of a released payload, only legal phases for both sides, a bus that is freed;
for the map, decoding that agrees with the ranges last configured and DMI
pointers that are revoked when a range moves.

### GreenConfig (`greencontrol/include/greencontrol/gcnf`)

*State.* `gs_param_base`: six lists of callbacks with an enabled flag each,
`m_currently_making_callbacks`, `m_callback_list_delete_enqueued`, `m_locked`,
`m_lock_pwd`; `gs_param_t`: `my_value`. The plugin and each private API: a
database of explicit parameters and of initial values that were set before their
parameter existed, with a lock each. Each API: the callbacks for new parameters.
Private APIs: the set of public parameters and the parent API.

*Operations.* `setValue` (with and without password), `setString`, `getValue`,
`getString`, `lock`, `unlock`, `registerParamCallback`,
`unregisterParamCallback(s)`, destruction; `addPar`, `removePar`,
`setInitValue`, `lockInitValue`, `registerNewParamCallback`, construction of a
private API.

*What is hard.* Everything is sequential, but callbacks use the parameter they
are called for, or add parameters: calls nest, lists change while they are
walked. Private APIs appear between the construction and the destruction of the
parameters below them.

*What makes it correct.* Registered callbacks stay registered and are called
once per write, unregistered ones are never called, locked and refused values
do not change, observers end up with the last value; no database points to a
parameter that is gone, a locked initial value is final, everybody who can see a
new parameter is told once.

### GSGP sockets (`gsgpsocket/include/gsgpsocket/transport`)

*State.* Per transaction: payload, instance specific extensions of either socket
(completed, in the request cycle, sent as an error), entries of the two event
queues; the counter of outstanding non-blocking phases.

*Operations.* Functors `Request`, `SendData`, `AckResponse`, `ErrorResponse` of
the master, `AckRequest`, `ErrorRequest`, `AckData`, `ErrorData`, `Response` of
the slave, the transport callbacks and the queue callbacks of both.

*What is hard.* The peer may be a GSGP socket or a base protocol socket without
data phases; phases come on the call or on the return path; transactions are
recycled with the flags of their last use.

*What makes it correct.* The assertions of the functors, users that see the
phases of their protocol in order, agreement of the two sides on the outcome, an
end of every transaction.

### GreenMemory (`greenmemory/include/greenmemory/sparse_mem.h`)

*State.* Sorted vectors of page starts, page ends and buffers. *Operations.*
`operator[]`, `has`, `get_block`. *What makes it correct.* It cannot be told
from a flat array.

### GreenReg (`greenreg`)

*State.* A register: an input and an output buffer (one object when the register
is shared), each with a write mask, the switch between events and callbacks, and
per occasion (before and after a bus read or write, a write of the user) a
container of notification rules with their patterns and last values.

*Operations.* `bus_read`, `bus_write`, the read-modify-write adapter for requests
with byte enables, `set` of a buffer, a bit or a range, `set_write_mask`,
`enable_events`/`disable_events`, the handlers of the device.

*Interaction.* Masters are SystemC threads, methods or code outside of processes.
Rules notify events or call back; threads wait a delta cycle between telling the
rules and acting, so that handlers run first.

*What is hard.* The value a write leaves is computed before that wait and stored
after it; handlers, other masters and the device use the register in between.

*What makes it correct.* Handlers run before the request they were told of goes
on; a write changes writable and enabled bits only.

### Other parts

| part | state and operations | model |
|---|---|---|
| GreenControl core (`core/gc_core.h`) | registered plugins and APIs, routing of control transactions | as far as `ConfigPlugin` uses it |
| GreenConfig arrays and tool APIs | member parameters; conversion of calls | not modelled |
| GreenAV | triggers that enable output plugins on parameter changes | not modelled |
| GreenRouter dynamic priorities | queues per port, enqueue times | not modelled |
| GreenSocket | transaction pool, guard extensions, negotiation of bindings | not modelled |
| rest of GreenReg | devices, switches, attributes, configuration | not modelled |
| GreenSignalSocket, GreenSerialSocket, GreenMessage | delivery to listeners | not modelled |
| GreenSignalBus | 75 lines that forward a call | no state of its own |
| GreenScript | embeds the Python interpreter | not modelled |
| log and report messages | text formatting and filtering | not modelled |

Section 7 gives the reasons.

## 2. Plan

1. Done: `AsyncEvent` with its abstract specification and proofs, `SyncPolicy`
   on top of the abstract event, `SimpleBus` with `BusArbiter`, `GsParam`.
2. Done: `RouterMap`, `GsgpSockets`, `SparseMem` with `FlatMem`, `ConfigPlugin`,
   `Register`.
3. Next, in order of what can go wrong: the pool and the guard extensions of
   GreenSocket; arrays of parameters; the dynamic priority scheduler, which needs
   time in `SimpleBus`; rules of GreenReg that are added, activated and removed
   at run time; the signal socket.
4. Proofs. Done: `AsyncEvent`, `SyncPolicy`, `SimpleBus` with its refinement,
   `SparseMem` with its refinement, `RouterMap`, `GsgpSockets`, `GsParam`,
   `ConfigPlugin`, `Register`: every safety property of the passing runs is
   stated by a theorem, under the hypotheses that section 5 names.

## 3. The modules

### AsyncEvent and AsyncEventSpec

`notify()` is split where another thread can see the difference: lock
(`NotifyLock`), store the delay and request the update (`NotifyRequest`), post
the token (`NotifyPost`), count it and unlock (`NotifyUnlock`). `update()` is
`UpdateLock`, `UpdateApply`, `UpdateDrain` (one token each) and `UpdateUnlock`.
The helper process is `RunHelper`, `HelperFollows`, `HelperCallsBack`; the sleep
of `simulation_phase_callback()` is `CallbackChecks`, `CallbackWait`,
`CallbackRepost`. The SystemC scheduler is external: its evaluate, update,
notification and time phases are there as far as the header relies on them
(`async_request_update` is a thread-safe queue emptied at the start of the
update phase). Times are relative to the kernel's present. The build without
`SC_HAS_ASYNC_ATTACH_SUSPENDING`, which puts the kernel to sleep in this code,
is the one modelled.

`AsyncEventSpec` is the event as a user sees it: a request is remembered, the
last delay counts, the earlier notification wins. The mapping is
`requested <- async \cup upd`, `due <- evt`.

### SyncPolicy

One `pc` per thread, one for the kernel. Reads of `endTimes`, `backWindow`,
`frontWindow` and `sc_time_stamp()` are steps of their own, since nothing
protects them; the loop of `update_window` scans the entries one by one
(`ScanEntry`, `ScanReload`). Its events are abstract ones, and `UsesAsyncEvents`
checks that the module assumes no more than `AsyncEventSpec` gives, which
`AsyncEvent` is proved to implement. A bridge call made by the kernel thread
itself passes straight through and is not an action. `setup` says which threads
synchronise, which are decoupled and which bridges are used; it is one of
`Setups`, chosen in `Init`.

### SimpleBus and BusArbiter

A payload event queue delivers the phases of one transaction in order and those
of different transactions in any order, because callers annotate delays as they
like. `FwRequest`, `FwForward` are `fw_peq_cb`, `BwForward` is `bw_peq_cb`,
`Grant` and `NoGrant` are `processMasterAccess`. Initiators and targets are
external: they send, return or complete whatever the base protocol (or GSGP's
data phases) allows in their state. Two returns are left out because the code
says they cannot happen: a target's `TLM_UPDATED` to `END_RESP` and an
initiator's `TLM_UPDATED` with `BEGIN_DATA` (`simpleBusProtocol.h` 174-176,
233-234). `setup` is how a bus is used (phases, commands, early completion,
changes of base addresses), one of the records in `Setups`, chosen in `Init`.
`BusArbiter` says who may own the bus next.

### RouterMap

`GenericRouter` with a `SimpleAddressMap`. `Insert` and `GenerateMap` make the
map from the parameters of the target sockets, `AddressChanged` is the callback
of `base_addr` with its refresh and the DMI invalidation, `Transport` the look
at the map by any transport function, with the refresh that `mapCheckPending`
asks for. `GetDmi` and `InvDmi` keep the registry of pointers, whose entries are
merged (`Record`), shrunk and split (`Invalidated`); addresses wrap. The list is
sorted with a comparison that is no order once ranges overlap, so the map is a
set and an address in two ranges decodes to either. `InvDmiFails` stands for the
two ways in which `inv_dmi` may not come back.

### SparseMem and FlatMem

Pages with their data, `operator[]` as `Load` and `Store`, `get_block` and
writes through the pointer it returns. `FlatMem` is an array in which a step
changes at most one cell. The mapping looks a cell up the way `operator[]` does.

### GsgpSockets

One record per transaction; a functor or callback is an operator on that record,
and one that calls the other side yields the set of records the peer's answers
can cause: accepted, updated with a phase, or completed. `conf` says what is
connected: two GSGP sockets, a master and a base protocol target, or a base
protocol initiator and a slave, whose user works with non-blocking callbacks or
with `f_transact`; with and without write responses. Transactions are recycled
(`Rounds`) with the flags the sockets left in them. A base protocol target may give
any answer to any command: accept, `END_REQ`, `END_REQ` with an error (what
`GenericRouter` answers when it cannot decode the address, `genericRouter.h`
411-427), `BEGIN_RESP` or completion, with or without an error. `Stranded` names the
two states in which the socket has swallowed such an answer and the user waits for
ever: a write whose data was answered by `END_REQ` with an error, and a read of
several chunks whose request was answered by `BEGIN_RESP`.

`GsgpStages` says where a transaction can be on each link: what both sides do,
which phases are queued, which flags are set and how far the data got. It
describes the states `GsgpSockets` reaches and adds no behaviour.

### ConfigPlugin

The databases of the plugin and of each private API (`db`), the parameter
objects, the chain of APIs (`mApi`) and the callbacks for new parameters. `ApiOf`
is the choice of an API for a module, `ScopeOf` the forwarding of a name to the
database that keeps it. A notification in progress is an entry of `stack`; its
`path` follows the callbacks through the private APIs (`NotifyApi`,
`MakeCallbacks`, `UserReturns`, `NotifyEnds`). While a user's callback runs, all
operations are enabled again. `owed`, `heard` and `twice` are history variables.
Writes run the parameter's own callbacks, which are the subject of `GsParam`.
`Nesting` says that modules are nested, in finitely many levels, and that the
marks for "no value" and the like are nobody's name.

### GsParam

The state holds the stack of calls that have not returned. A call walks its
lists in the order of the code: `EnterHelper`, then `CallBack`/`PassOver` for
each entry and `CallbackReturns`, then `LeaveHelper` with the clean-up of
disabled entries, then `AfterReject`, `AfterPreWrite` (the write itself) and so
on. While a call is in a callback the user's operations are enabled again, as
far as `use.body` allows for that callback. `cleanup_callback_list` is modelled
literally: `erase(rit.base())` removes the entry after the disabled one, and for
the last entry it is `erase(end())`, which is undefined and which libstdc++
turns into dropping the last entry. The build is the default one of
`config_globals.h` (callbacks of one adapter do not nest, locks are enabled).
`use`, one of `Uses`, is what is done with the parameter at the top level and in
each callback. `due`, `seen`, `refused`, `members`, `fresh` and `known` are
history variables.

### Register

A value is the set of its bits that are 1. SystemC is cooperative: `cpu` is the
process that runs, `asleep` and `awake` are the threads on either side of
`wait(SC_ZERO_TIME)`, `ready` the handlers made runnable by an event, `later` the
delayed notifications; `Delta` begins the next delta cycle. A request is a frame
that goes from `pre` (rules told, callbacks running) to `apply`, `post` and
`return`; threads sleep before `apply` and `return` (`RulesTold`). A `merge` is
the read of the read-modify-write adapter, whose return begins its write. A rule
has patterns for the value before and after, may ask for a change, and tells by
event or by callback. `setup`, one of `Setups`, is the register with its rules
and the kinds of its masters. In a frame, `told` (the handlers still to run) and
`clean` (nothing else has changed the register since) are history.

## 4. The runs

| run | instance | shows |
|---|---|---|
| `async_event` | 2 threads and the kernel, 2 events, delays 0-1, 2 unserved notifications per event | tokens balance, no lost wake-up, the kernel never runs dry, the abstract event is implemented, every request is applied |
| `sync_policy` | 2 synchronised threads, 1 bridge, quantum 1, time 0-2, 1 lock to take | windows, tokens, answers, run-ahead of kernel and threads, no more than the abstract event is relied on |
| `sync_live` | 2 synchronised threads; or 2 decoupled threads on 1 bridge, one of which also synchronises | the kernel catches up with every thread, every transaction returns |
| `simple_bus` | 3 base protocol requests on 2 ports; 2 GSGP transactions of 2 chunks with posted writes and early completion; the same with write responses and address changes | the arbiter is implemented, no forgotten request, payload lifetime, phase order, the bus is freed, the first port is served |
| `gs_param` | 5 callbacks that write, read, register and lock inside callbacks; or 4 that refuse, lock and unregister | nobody is lost, skipped, called twice or left with an old value; locks and refusals hold; `unregisterParamCallbacks` advances |
| `router_map` | 2 targets, 2 initiators, 4 addresses that wrap | transactions reach the owner of their address, every DMI pointer can be revoked |
| `sparse_mem` | pages of 2, 10 addresses | pages are sound, a block is in one buffer, the flat array is implemented |
| `gsgp_sockets` | 2 transactions used twice, 2 chunks, all pairs of peers | assertions, phases seen by users, outcome, end of every transaction but for the two dead ends of `Stranded` |
| `config_plugin` | 2 objects of one name, a module in a module with private APIs, 2 APIs at the core, 2 callbacks, notifications nested twice | no dangling pointer, everybody told once, locked values are final |
| `register` | 2 masters (2 threads, thread and method, method and none), 2 bits of which one is read-only, 4 sets of rules, shared and split registers, 2 requests, 1 action of the device | handlers run before the request goes on, protected and disabled bits change only in a race |
| `gs_param_lost_callback` | 2 post_write callbacks, one unregisters itself | *violation*, see section 6 |
| `router_stale_dmi` | as `router_map` | *violation* |

*Bounds.* Two threads and the kernel give every pair of actors that can meet at
a mutex or a semaphore; a third thread adds only another contender. The theorems
of section 5 cover any number of threads, events, transactions, ports, targets,
pages and callbacks for the properties they are about. Two unserved
notifications of one event are needed for `update()` to drain more than one
token. Quantum 1 and time 0-2 let a thread be within, at and beyond the window.
Three transactions, two of them at one port, are the least with a choice between
ports and one within a port; two chunks are the least with a first, a last and an
intermediate value of bytes_valid. `KickBound` stops new requests while many
notifications are pending. In `gs_param`, `CounterModulus` 8 stands for 2^32:
the counter never exceeds the number of list entries unless it wraps below zero.
Four addresses in two ranges let a range touch, overlap, enclose and leave
another and reach both ends of the address space; two pointers and two registry
entries let entries of different initiators and a split meet. Four usable pages
let a block begin before, in, between and behind the pages that exist. Two rounds
show what one use of a transaction leaves to the next; two chunks have a first
and a last. Two objects of one name give a duplicate, and a private API inside
another gives a chain; `MaxDepth` 2 is one notification inside the callback of
another. Two requests, or one and an action of the device, are the least that can
race for a register; one writable and one read-only bit tell masks from values.
Symmetry is used for interchangeable threads, initiators, values and
objects in runs without liveness properties. Deadlock is not checked where the
program may stop: when a parameter is destroyed or an assertion fails, when
`inv_dmi` does not come back, when all transactions of the pool are used up, or
when nobody uses the configuration or the register any more.

*Limits of the passing runs.* Where the code does not keep a property under
every use, the run is restricted to the uses under which it does, and the hazard
that has the property says so. In `gs_param`, callbacks either write and register
or unregister, and none locks before the value is written. `BusFrees` and
`FirstServed` are about buses whose addresses keep decoding. `RoutesToOwner`
begins when a `base_addr` is written after a `high_addr`, which has no callback.
In `gsgp_sockets` every answer of a peer occurs; `EveryTxnEnds` excepts the two dead
ends of `Stranded` (section 6) and nothing else. Slaves with `f_transact` have no
write responses, and an error response of a slave carries all bytes. `sparse_mem` stays below the last page. In `register`, `OnlyWritableBits` does
not speak of writes that another change has overtaken, nor of the adapter's writes
to split registers; delayed notifications are used by threads only; callbacks
neither wait nor change rules nor start requests.

*Fairness.* `AsyncEvent`: every thread that can run is run by the operating
system (weak fairness of `NotifyFinish` and `Kernel`), and no set of notifiers
wins every race for the spin lock of `update()` (strong fairness of
`UpdateLock`). Nobody has to notify. `SyncPolicy`: strong fairness of each
thread and of the kernel for the same reason (spin locks and semaphores), and
the target of a transaction answers. `SimpleBus`: SystemC delivers what is due,
and initiators and targets that owe a phase send it; nobody has to issue a
request. `GsgpSockets`: the kernel delivers what is queued, users and peers
answer what they have received; nobody has to start a transaction.

## 5. The proofs

All theorems hold for every value of the constants that satisfies the named
assumption of the module, which the passing runs evaluate, and under the
hypotheses a theorem states itself. Each proof module has an inductive invariant
`IInv`, the theorem `Invariance` (`Spec => []IInv`), and one theorem per property
of the runs. For the sockets, which share a module with the router, they are
`SocketsInv` and `SocketsInvariant`.

### AsyncEventProofs

For any sets of threads and events and any bounds on delays and notifications:

- `TypeCorrect`, `TokensAreBalanced`, `UpdateDoesNotBlock`, `NoWakeupIsLost`,
  `KernelStaysAlive`: the type invariant, the safety invariants of the run
  `async_event`, and that `update()` never waits for a token while it holds the
  mutex;
- `Refinement`: `Spec` implements `AsyncEventSpec`.

They rest on an invariant of six parts. `Balance`
adds to `TokensBalance` that the sets counted are finite: adding or removing one
pair (`TokensGrow`, `TokensShrink`) then changes the sum by one. `Ownership`
says that the owner of a `local_mutex` is inside `notify()` or `update()` and
owns only one; without it a token could be counted for a mutex somebody else
holds. `Phases` says which of the kernel's queues are empty in which phase.
`HelperAlive` says that the helper runs, is runnable or is notified: this gives
`KernelNeverStarves`. `Asleep` says that while the kernel sleeps, a queued
request has a token counted or about to be posted; together with `Balance` this
gives `NoLostWakeup`, since a counted token makes the semaphore positive.
`UpdateNeverBlocks` follows from `Balance`: a token of the event being drained
is one of those in the semaphore. The assumptions are that the kernel is not a
remote thread, that the helper is not an event, and that the bounds are numbers.

### SyncPolicyProofs

For any set of threads, any bridges and any quantum: `WindowsAreSound`,
`TokensAreTaken`, `AnswersAreOwn`, `ThreadsStayWithinQuantum`,
`KernelIsHeldBack` and `EventsAreAsync` (the events of the module take only steps
of `AsyncEventSpec`). `IInv` has nine parts. `MutexOwned` ties the policy's mutex
to the program counters between its lock and unlock. `Windows` is `WindowsSound`
with what the loop of `update_window` knows half way: its result so far is right
as long as no other thread changes its entry, and such a thread will recompute
the windows itself. `Stages`, `Owners` and `Finished` follow a transaction
through its bridge, so that an answer found in `l_result` is the thread's own.
`Balance` counts the tokens of `canLock` against `locksToDo`, transaction by
transaction. `Delays` says that `checkWindowEvent` is notified for no later time
than the kernel may reach, `HeldBack` that it is notified at all, which needs
`Balance`: `checkWindow` returns without a new notification only when it finds a
token that is not its to take.

### SimpleBusProofs

For any number of ports, transactions, chunks and setups: `RequestsAreNotLost`,
`PayloadsAreHeld`, `PhasesComeInOrder`, and `BusIsAnArbiter`, the refinement of
`BusArbiter`. The core of `IInv` is `Stages`: every transaction is at one of the
places of its protocol, each given by what is in its two queues, the states of
initiator and target, and which sides have completed.
`QueuedOnce` and `OneOwner` relate the stages of different transactions to the
scheduler and to `m_idle`, and `NoLostRequest` is the property itself. The proof
has one lemma per action about the transaction that moves; the others keep their
stage. Every step then maps to a step of the arbiter or to a stutter.

### SparseMemProofs

For any page size and address space: `PagesStaySound`, and `SparseIsFlat`, the
refinement of `FlatMem`. `IInv` says that the vectors are sorted, that pages are
aligned and do not overlap (`Sound`), and that the block handed out lies in one
page. The search of `lower_bound` is a count of the starts below an address; `Prefix` shows
that what is counted is a prefix of a sorted vector, which replaces induction.
`InsertSound`, `JoinSound`, `PutSound` and `GetBlockSound` follow the cases of
the code, the last with the arithmetic of page boundaries. The mapped array
changes in one cell or not at all.

### TransportProofs

*RouterMap.* For any number of targets and initiators and any highest address:
`PointersAreRevocable` and `RoutesAreOwned`. `IInv` says that the map was made
from the present parameters, unchecked or checked and accepted, unless a check or
a change waits (`MapIsCurrent`), and that each pointer is covered by one entry of
its target's registry (`Registry`). `MapOfRanges` is what the loop of
`generateMap` computes; `RecordCovers` and `InvalidatedCovers` say that merging,
shrinking and splitting entries loses no address of a pointer outside the range,
with bounds that wrap. Entries are told to their initiators, so a pointer of the
target that survives is outside the range. `Bounds` is assumed: written addresses
are addresses.

*GsgpSockets.* For any pool of transactions, any number of chunks and rounds, and
all three links: `AssertsHold`, `ProtocolSeen` and `SameOutcome`. None of these is
inductive: an assertion holds because of what is queued, and the order of phases a
user sees because of what the socket remembers of those it made up itself.
`SocketsInv` therefore says that every transaction is at one of fourteen stages
(`GsgpStages`): `Resting` is common to all links, the others are those of two GSGP
sockets, of a master with a base protocol target, and of a base protocol initiator
with a slave. There is one lemma per handler and link, which takes a transaction
from a stage to a stage; no handler touches another transaction. The assumption
is `BurstAssumption` (at least one chunk). The theorems cover the dead ends too: a
write refused by `END_REQ` stays at a stage of its own (`TargetRefused`), where it
and a read answered on the return path may wait for ever, which only `EveryTxnEnds`
notices, but nobody sees a wrong phase. As in the run, slaves with `f_transact` have
no write responses, and their error responses carry all bytes.

### GsParamProofs

For any set of callbacks and any uses: `NoCallbackIsLost`,
`OnlyRegisteredAreCalled`, `EachIsMetOnce`, `UnregisterAllEnds`, `RefusalsHold`,
`NothingRemovedDuringCalls`, `ObserversKnow` and `LockHolds`. `IInv` speaks of
the lists (each adapter occurs once, enabled entries are registered, and
conversely where callbacks unregister nothing), of the stack (all calls but the
innermost are in a callback, each loop has met the entries before its index, a
refusal stays the result), and of `m_currently_making_callbacks`, which is off
outside of loops. Where the code keeps a property under some uses only, the
theorem says so. `EachIsMetOnce` is `CalledOnce` under uses whose callbacks
unregister nothing (`NoCleanup`, which is also inside `CallbacksKept`):
`cleanup_callback_list` erases the wrong entry, as the violating run of section 6
shows. `NothingRemovedDuringCalls` is about all uses in which callbacks
unregister nothing (`Clean`) or unregister what they like, with either function,
but neither write nor read (`Flat`). These include both uses of the run. In the
second kind entries are taken out, and the point is when: `FlatOK`, an invariant
of its own, says that there is one loop, that the flag is on from its start to
its end, and that what lies above it on the stack is at most an
`unregisterParamCallbacks`. So what a callback unregisters is only disabled, and
the clean-up finds nobody in a callback. Where callbacks do both, a nested loop
clears the flag of the outer one and the property fails. `RefusalsHold` assumes
that reject_write callbacks report no other error (`RefuseCleanly`):
`return_other_error` outranks a refusal, and the write goes on.

`ObserversKnow` is `ObserversUpToDate` where at most one callback writes, and not
one that reads trigger (`OneWriter`). It rests on two more invariants. `CallsInv`
says that the callbacks that run are those of the calls in progress, each once,
and that a nested write comes from a callback that may write. `ToldInv` says of an
observer without the last value that some call in progress that makes post_write
callbacks has its entry still ahead, and that the observer does not run below
that call, which would make the code pass it over. `WriteAt` shows that a value
is written by the outermost call or the one above it only, so that the loop that
tells the observers begins at the first entry with nothing but the writer below
it. `LockHolds` is `ReadOnlyWhenLocked` where, if `setValue` is called with a
password at all, callbacks do not write and lock only after the write
(`LocksLate`): `setValue` compares the password with that of the lock long before
it writes. `LockInv` says that such a call finds the parameter unlocked or its
own password in the lock until it has written. Both hypotheses are true of the
uses of the run `gs_param`, and both are needed: with two post_write callbacks
that write, the one that runs is not told of the other's value (documented in
`config_paramcallbadapt.h` 239), and with a pre_write callback that locks, a write
with the old password changes a locked parameter.

### ConfigPluginProofs

For any parameters, names and APIs, any nesting of modules and any depth of
notifications: `PointersStaySound`, `LocksHold` and `EverybodyIsToldOnce`. The
assumption is `Nesting`. `IInv` has four parts. `ChainOK` says that the parent of
a private API is built and lies higher. What the code computes by walking up the
chain (`ApiOf`, `ScopeOf`, `Above`) is a recursive function; `WalksUp` shows that
it exists and `ByRank` replaces induction over the chain. `ScopeStays`: a private
API that appears later does not change where the existing ones look for a name,
so a parameter is removed from the database that holds it; with that,
`Databases` is inductive. `Lists` says that the callback list of an API names
each private API below it that has callbacks, once. `Notes` is about every
notification in progress. The places on its path lie ever deeper; `Behind` and
`Ahead` say that there are sets of APIs, those it has left and those it has not
entered, such that what was heard is behind the path and what is owed is ahead of
it. `WalkEnters`, `WalkPushes`, `WalkCalls`, `WalkGoesOn` and `WalkPops` move one
API or one entry across; `WalkStays` says that lists that grow at their ends and
APIs that are added disturb no walk, `WalkEnds` that nothing is ahead of a walk
without a path.

### RegisterProofs

For any masters, rules and set-ups that fit together (`SetupsAssumption`):
`HandlersRunFirst` and `ProtectedBitsKept`. `IInv` says which master runs and
which wait for a delta cycle (`Scheduled`), that a handler that was told is ready
until it has run and that nobody wakes up before it (`Told`), and that a write
whose register nobody else has changed will store a value that differs from the
buffer in bits it may change only (`Fresh`).

### Only model-checked

Liveness: `RequestApplied`, `TxnReturns`, `CatchesUp`, `BusFrees`, `FirstServed`
and `EveryTxnEnds` need fairness and `ENABLED`, which the prover does not treat.

## 6. Findings

- `gs_param_lost_callback`: a callback that unregisters itself makes
  `cleanup_callback_list` erase the entry after it: the next callback is lost
  and the disabled entry stays.
- `router_stale_dmi`: `addressChanged` invalidates the DMI pointers of the new
  range of a target. Pointers into the range it has left stay with the
  initiators.

The quotations that these disagree with are in `PROJECT.json`.

Met while modelling and outside of what the passing runs allow. These have no run
of their own: most contradict no statement of the repository, or the case is left
out of the model or excepted from a property by name, and for the rest (the write mask, the flag of initial values,
transactions before the end of elaboration) one look at the code settles it:

- `processMasterAccess` takes the bus before it decodes the address. A request
  whose address has stopped decoding while it waited keeps the bus for ever
  (`simpleBusProtocol.h` 364; the model contains it, `simple_bus` with address
  changes asks only for the safety properties).
- `unregisterParamCallbacks` called from a callback only disables entries, finds
  them again and never returns (`gs_param_base.h` 730).
- `inv_dmi` of a range that ends at the highest address splits an entry for ever,
  and uses an iterator after `erase` (`genericRouter.h` 457-470).
- A target that answers the data of a write with `END_REQ` and an error, as the
  router does when it cannot decode the address (`genericRouter.h` 425-427), is
  forgotten by `SendData`, which ends the request cycle and queues nothing
  (`GSGPMasterSocket.tpp` 207): the write never ends. `Request` turns the same
  answer into a `BEGIN_RESP` with an error (69). The model contains it, and
  `EveryTxnEnds` excepts it as the first case of `Stranded`.
- A target that answers the request of a read with `BEGIN_RESP` on the return
  path leaves `bytes_valid` unset: a read of several chunks waits for ever
  (`GSGPMasterSocket.tpp` 77; the model contains it, and `EveryTxnEnds` excepts it
  as the second case of `Stranded`). `nb_from_f` sends no write response. A blocking
  call may run beside a phase queued while it was being resumed
  (`GSGPSlaveSocket.tpp` 571). A base protocol initiator never hears of an error
  response with fewer valid bytes than the burst (388).
- The destruction of a second parameter of the same name empties the entry of the
  first, which lives on unregistered (`configdatabase.h` 200). `lockInitValue` of
  a private API returns the opposite of the public one
  (`gcnf_private_api_t.h` 316). The destructor of an API erases from a map while
  it iterates over it (`GCnf_Api_t.h` 439), and a notification goes to a copy of
  the observers (`configplugin_t.h` 610); API destruction is not modelled.
- The last page of a sparse memory whose end wraps to 0 contains nothing
  (`sparse_mem.h` 176).
- Of two observers that both write in their callbacks, the one whose callback is
  running is not told of the other's value (`config_paramcallbadapt.h` 239, as
  documented).
- `is_initial_value()` stays true after the value has been overwritten
  (`gs_param_base.h` 510-518). The unsigned counter of disabled callbacks is
  decremented for every disabled entry met, counted or not, and may wrap below
  zero; an assertion follows (923-928).
- A write to a register stores after its wait what it computed before: bits that
  are protected, or that the device has set meanwhile, are rolled back
  (`primary_register_data.cpp` 96-142; the model contains it). Its post rules
  compare with the value from before the wait.
- The write mask is not applied when the user sets a register, though the user
  guide says so (`GRegImplementation.tex` 528). For a split register
  `set_write_mask` changes the mask of the input buffer, which requests do not
  look at.
- The read-modify-write adapter reads the output buffer of a split register and
  writes those bits to the input buffer.
- The loop over the rules keeps its iterator in the container
  (`gr_notification_rule_container.cpp` 151): callbacks that wait, start a request
  or activate rules move it. `READ_PATTERN_EQUAL` makes a rule for writes
  (`register.cpp` 199). `bit_get` and `bit_is_writable` shift without a mask
  (`register.h` 132-153).
- With the dynamic priority scheduler `isPending` is false until a period of the
  scheduler has passed, and the only notification of a request may go by.
- Transactions before the end of elaboration are not prevented, though a comment
  says they must not be allowed (`inlinesync.h` 80).

## 7. Not modelled

*Inside the modelled parts:* time annotations beyond order; data and byte enables
of payloads; names, attributes and the string conversions of parameters
(`setString` either yields a value or leaves the old one); parameter lists and
their prefix matching, which are text; `is_used`; elaboration and binding; the
build variants named above; phases outside the protocol, which the bus passes on
without a change of its state; ranges given with `assign_address`, and the MAC and
extension address maps; bidirectional sockets, DMI and debug calls of the GSGP
sockets, which pass straight through; the destruction of APIs;
rules of registers added, activated or removed at run time, and registers seen as
parameters.

*Parts:*

- GreenSocket's pool and extensions, GreenAV, arrays of parameters, the signal,
  serial and message sockets, the dynamic priority scheduler: within reach and
  not done yet, see the plan.
- GreenReg's devices, switches, attributes and configuration objects, its string
  utilities, and the type specialisations of `gs_param`: construction and
  conversion between representations, with hardly any state to check.
- GreenSocket's negotiation of bindings: runs once, sequentially, at elaboration.
- GreenScript: its state is that of the Python interpreter.
- Log and report messages, the file formats of GreenAV: output only.
- The SCML and other tool APIs: they rename calls of `GCnf_Api`.
- Examples, regression tests and vendored code under the repository's other
  directories are not part of the libraries.
