----------------------------- MODULE SyncPolicy -----------------------------
(***************************************************************************)
(* The synchronisation of remote threads with the SystemC kernel thread K: *)
(* centralSyncPolicy with its time window and its canLock tokens, the      *)
(* syncSource of each remote thread, and the transactions that remote      *)
(* threads hand to the kernel through an inLineSync bridge.                *)
(*                                                                         *)
(* The events notified across threads (checkWindowEvent and the            *)
(* processTxnEvent of each bridge) behave as AsyncEventSpec says, which    *)
(* gs_event_async implements; the sleeping of the kernel is module         *)
(* AsyncEvent's.  A data access that another thread can see is an action   *)
(* of its own; code under the spin mutex is merged where no unprotected    *)
(* access can see the difference.  endTimes, backWindow, frontWindow and   *)
(* sc_time_stamp() are read and written without a common lock, so reads of *)
(* them are steps of their own.                                            *)
(***************************************************************************)
EXTENDS Integers, FiniteSets

CONSTANTS
  Threads,      \* remote threads, each with one syncSource
  K,            \* the SystemC kernel thread
  Bridges,      \* the inLineSync modules
  Setups,       \* which threads call syncAt(), which of their syncSources are
                \* decoupled, and which bridges are used
  Chk,          \* checkWindowEvent, and the process sensitive to it
  None,         \* no thread
  Quantum,      \* the global quantum
  MaxTime,      \* bound: simulated time
  MaxLocks      \* bound: no transaction starts with more locks to take

ASSUME ThreadAssumption ==
  /\ Threads # {}
  /\ K \notin Threads /\ None \notin Threads \cup {K}
ASSUME SetupAssumption ==
  Setups \subseteq [syncing : SUBSET Threads, decoupled : SUBSET Threads,
                    bridges : SUBSET Bridges]
ASSUME EventAssumption == Chk \notin Bridges
ASSUME TimeAssumption == Quantum \in Nat /\ MaxTime \in Nat /\ Quantum <= MaxTime
ASSUME LocksAssumption == MaxLocks \in Nat

Callers == Threads \cup {K}
Ev == Bridges \cup {Chk}
Time == 0 .. MaxTime
Never == MaxTime + 1

VARIABLES
  setup,        \* how the model is put together, fixed at elaboration
  now,          \* sc_time_stamp()
  endTimes,     \* *entryRef of each syncSource; equal to its localBackWindow
  backWindow, frontWindow, scIsBack,    \* scIsBack: sc_is_back_window
  mutex,        \* centralSyncPolicy::mutex: its owner or None
  canLock,      \* the value of the semaphore
  locksToDo,
  pc,           \* what each thread is doing; K: the kernel or a process in it
  ts,           \* update_window: the local sc_ts
  scan,         \* update_window: the loop's locals, of the owner of mutex
  async, upd, checkDelay, due, runnable,  \* the kernel's events, see AsyncEvent
  proc,         \* processTxn of each bridge
  txnMutex, txnDone,                      \* of each bridge
  l_trans, l_result                       \* of each bridge: whose they are

policyVars == <<endTimes, backWindow, frontWindow, scIsBack, ts, scan>>
tokenVars == <<mutex, canLock, locksToDo>>
eventVars == <<async, upd, checkDelay, due, runnable>>
bridgeVars == <<proc, txnMutex, txnDone, l_trans, l_result>>
vars == <<setup, now, policyVars, tokenVars, pc, eventVars, bridgeVars>>

NoScan == [back |-> 0, front |-> 0, todo |-> {}, reload |-> None]

(***************************************************************************)
(* The state after elaboration: every syncSource is registered at time 0   *)
(* (its setWindow(0) changed no window but set sc_is_back_window), and     *)
(* start_of_simulation has notified checkWindowEvent with the quantum.     *)
(***************************************************************************)
Init ==
  /\ setup \in Setups
  /\ now = 0
  /\ endTimes = [t \in Threads |-> 0]
  /\ backWindow = 0 /\ frontWindow = 0 /\ scIsBack = TRUE
  /\ mutex = None /\ canLock = 0 /\ locksToDo = 0
  /\ pc = [c \in Callers |-> IF c = K THEN "eval" ELSE "run"]
  /\ ts = [c \in Callers |-> 0]
  /\ scan = NoScan
  /\ async = {Chk} /\ upd = {} /\ checkDelay = Quantum
  /\ due = [e \in Ev |-> Never] /\ runnable = {}
  /\ proc = [b \in Bridges |-> "wait"]
  /\ txnMutex = [b \in Bridges |-> None]
  /\ txnDone = [b \in Bridges |-> 0]
  /\ l_trans = [b \in Bridges |-> None]
  /\ l_result = [b \in Bridges |-> None]

Goto(c, l) == pc' = [pc EXCEPT ![c] = l]

(* Mutant: the delay is stored but no update is requested. *)
NotifyCheckNoRequest(d) ==
  /\ checkDelay' = d
  /\ UNCHANGED <<async, upd, due, runnable>>

(* checkWindowEvent.notify(d) *)
NotifyCheck(d) ==
  /\ async' = async \cup {Chk}
  /\ checkDelay' = d
  /\ UNCHANGED <<upd, due, runnable>>

-----------------------------------------------------------------------------
(* update_window(), in a remote thread or in the kernel thread *)

(* Where update_window() returns to: setWindow() or checkWindow(). *)
Return(c) == IF c = K THEN "front" ELSE "ahead"

(* sc_ts = sc_time_stamp() *)
ReadTimeStamp(c) ==
  /\ pc[c] = "update"
  /\ ts' = [ts EXCEPT ![c] = now]
  /\ Goto(c, "lockWindow")
  /\ UNCHANGED <<now, endTimes, backWindow, frontWindow, scIsBack, scan,
                 tokenVars, eventVars, bridgeVars>>

(* mutex.lock(); the loop over endTimes starts from sc_ts. *)
WindowLock(c) ==
  /\ pc[c] = "lockWindow" /\ mutex = None
  /\ mutex' = c
  /\ scan' = [back |-> ts[c], front |-> ts[c], todo |-> Threads,
              reload |-> None]
  /\ Goto(c, "scan")
  /\ UNCHANGED <<now, endTimes, backWindow, frontWindow, scIsBack, ts,
                 canLock, locksToDo, eventVars, bridgeVars>>

Latest(s, t) == IF s > t THEN s ELSE t

(* Mutant: the loop only looks for the back of the window. *)
ScanEntryNoFront(c, u) ==
  /\ pc[c] = "scan" /\ scan.reload = None /\ u \in scan.todo
  /\ scan' = [scan EXCEPT
                !.reload = IF endTimes[u] < scan.back THEN u ELSE None,
                !.todo = @ \ {u}]
  /\ UNCHANGED <<now, endTimes, backWindow, frontWindow, scIsBack, ts,
                 tokenVars, pc, eventVars, bridgeVars>>

(* One round of the loop: *i < back, or else front grows to *i.  If *i is   *)
(* smaller, the assignment back = *i reads it again in a later step.        *)
ScanEntry(c, u) ==
  /\ pc[c] = "scan" /\ scan.reload = None /\ u \in scan.todo
  /\ scan' = [scan EXCEPT
                !.reload = IF endTimes[u] < scan.back THEN u ELSE None,
                !.front = IF endTimes[u] < scan.back THEN @
                                            ELSE Latest(@, endTimes[u]),
                !.todo = @ \ {u}]
  /\ UNCHANGED <<now, endTimes, backWindow, frontWindow, scIsBack, ts,
                 tokenVars, pc, eventVars, bridgeVars>>

(* back = *i, with what *i is by now. *)
ScanReload(c) ==
  /\ pc[c] = "scan" /\ scan.reload # None
  /\ scan' = [scan EXCEPT !.back = endTimes[scan.reload], !.reload = None]
  /\ UNCHANGED <<now, endTimes, backWindow, frontWindow, scIsBack, ts,
                 tokenVars, pc, eventVars, bridgeVars>>

(* The windows are stored, mutex.unlock(); a change is announced. *)
WindowStore(c) ==
  /\ pc[c] = "scan" /\ scan.reload = None /\ scan.todo = {}
  /\ backWindow' = scan.back
  /\ frontWindow' = scan.front
  /\ scIsBack' = (ts[c] = scan.back)
  /\ scan' = NoScan
  /\ ts' = [ts EXCEPT ![c] = 0]
  /\ mutex' = None
  /\ Goto(c, IF <<backWindow', frontWindow'>> # <<backWindow, frontWindow>>
               THEN "release" ELSE Return(c))
  /\ UNCHANGED <<now, endTimes, canLock, locksToDo, eventVars, bridgeVars>>

(* ahead.release(): wakes the threads that wait at this moment. *)
AheadRelease(c) ==
  /\ pc[c] = "release"
  /\ pc' = [x \in Callers |-> IF x = c THEN "kick"
                              ELSE IF pc[x] = "waiting" THEN "ahead"
                              ELSE pc[x]]
  /\ UNCHANGED <<now, policyVars, tokenVars, eventVars, bridgeVars>>

(* Mutant: kickLock() posts no token. *)
KickPostNoToken(c) ==
  /\ pc[c] = "kick" /\ mutex = None
  /\ mutex' = c
  /\ Goto(c, "kicked")
  /\ UNCHANGED <<now, policyVars, canLock, locksToDo, eventVars, bridgeVars>>

(* kickLock(): mutex.lock(); canLock.post() *)
KickPost(c) ==
  /\ pc[c] = "kick" /\ mutex = None
  /\ mutex' = c
  /\ canLock' = canLock + 1
  /\ Goto(c, "kicked")
  /\ UNCHANGED <<now, policyVars, locksToDo, eventVars, bridgeVars>>

(* Mutant: kickLock() does not count the token it posted. *)
KickNotifyNoLock(c) ==
  /\ pc[c] = "kicked"
  /\ NotifyCheck(0)
  /\ mutex' = None
  /\ Goto(c, Return(c))
  /\ UNCHANGED <<now, policyVars, canLock, locksToDo, bridgeVars>>

(* kickLock(): locksToDo++; checkWindowEvent.notify(); mutex.unlock() *)
KickNotify(c) ==
  /\ pc[c] = "kicked"
  /\ locksToDo' = locksToDo + 1
  /\ NotifyCheck(0)
  /\ mutex' = None
  /\ Goto(c, Return(c))
  /\ UNCHANGED <<now, policyVars, canLock, bridgeVars>>

-----------------------------------------------------------------------------
(* syncSource and setWindow(), in a remote thread *)

(* Mutant: setWindow() does not call update_window(). *)
SyncAtNoUpdate(t, v) ==
  /\ pc[t] = "run" /\ v > endTimes[t]
  /\ endTimes' = [endTimes EXCEPT ![t] = IF t \in setup.decoupled THEN now ELSE v]
  /\ Goto(t, "ahead")
  /\ UNCHANGED <<now, backWindow, frontWindow, scIsBack, ts, scan, tokenVars,
                 eventVars, bridgeVars>>

(* syncAt(v) and *entryRef = t; a decoupled source stores sc_time_stamp(). *)
SyncAt(t, v) ==
  /\ pc[t] = "run" /\ v > endTimes[t]
  /\ endTimes' = [endTimes EXCEPT ![t] = IF t \in setup.decoupled THEN now ELSE v]
  /\ Goto(t, "update")
  /\ UNCHANGED <<now, backWindow, frontWindow, scIsBack, ts, scan, tokenVars,
                 eventVars, bridgeVars>>

(* Mutant: the thread compares itself with the wrong window. *)
AheadCheckFront(t) ==
  /\ pc[t] = "ahead"
  /\ Goto(t, IF t \notin setup.decoupled /\ endTimes[t] > frontWindow + Quantum
               THEN "toWait" ELSE "run")
  /\ UNCHANGED <<now, policyVars, tokenVars, eventVars, bridgeVars>>

(* The condition of the while loop; backWindow is read without the mutex. *)
AheadCheck(t) ==
  /\ pc[t] = "ahead"
  /\ Goto(t, IF t \notin setup.decoupled /\ endTimes[t] > backWindow + Quantum
               THEN "toWait" ELSE "run")
  /\ UNCHANGED <<now, policyVars, tokenVars, eventVars, bridgeVars>>

(* ahead.wait(): a release between the condition and here is missed. *)
AheadWait(t) ==
  /\ pc[t] = "toWait"
  /\ Goto(t, "waiting")
  /\ UNCHANGED <<now, policyVars, tokenVars, eventVars, bridgeVars>>

(* ahead.wait() times out after a second: the thread goes on. *)
AheadTimeout(t) ==
  /\ pc[t] = "waiting"
  /\ Goto(t, "run")
  /\ UNCHANGED <<now, policyVars, tokenVars, eventVars, bridgeVars>>

-----------------------------------------------------------------------------
(* inLineSync: b_transport, get_dmi and tr_dbg of a remote thread *)

(* Mutant: the bridge does not serialise its callers. *)
TxnLockAnyway(t, b) ==
  /\ pc[t] = "run"
  /\ locksToDo <= MaxLocks
  /\ txnMutex' = [txnMutex EXCEPT ![b] = t]
  /\ l_trans' = [l_trans EXCEPT ![b] = t]
  /\ Goto(t, "txnNotify")
  /\ UNCHANGED <<now, policyVars, tokenVars, eventVars, proc, txnDone,
                 l_result>>

(* txnMutex.lock(); l_trans = &trans ... *)
TxnLock(t, b) ==
  /\ pc[t] = "run" /\ txnMutex[b] = None
  /\ locksToDo <= MaxLocks
  /\ txnMutex' = [txnMutex EXCEPT ![b] = t]
  /\ l_trans' = [l_trans EXCEPT ![b] = t]
  /\ Goto(t, "txnNotify")
  /\ UNCHANGED <<now, policyVars, tokenVars, eventVars, proc, txnDone,
                 l_result>>

(* processTxnEvent.notify() *)
TxnNotify(t, b) ==
  /\ pc[t] = "txnNotify" /\ txnMutex[b] = t
  /\ async' = async \cup {b}
  /\ Goto(t, "txnRelease")
  /\ UNCHANGED <<now, policyVars, tokenVars, upd, checkDelay, due, runnable,
                 bridgeVars>>

(* centralSyncPolicy::share.releaseLock() *)
TxnRelease(t) ==
  /\ pc[t] = "txnRelease"
  /\ canLock' = canLock + 1
  /\ Goto(t, "txnWait")
  /\ UNCHANGED <<now, policyVars, mutex, locksToDo, eventVars, bridgeVars>>

(* txnDone.wait() *)
TxnWait(t, b) ==
  /\ pc[t] = "txnWait" /\ txnMutex[b] = t
  /\ txnDone[b] > 0
  /\ txnDone' = [txnDone EXCEPT ![b] = @ - 1]
  /\ Goto(t, "txnReturn")
  /\ UNCHANGED <<now, policyVars, tokenVars, eventVars, proc, txnMutex,
                 l_trans, l_result>>

(* r = l_result; txnMutex.unlock() *)
TxnUnlock(t, b) ==
  /\ pc[t] = "txnReturn" /\ txnMutex[b] = t
  /\ txnMutex' = [txnMutex EXCEPT ![b] = None]
  /\ Goto(t, "run")
  /\ UNCHANGED <<now, policyVars, tokenVars, eventVars, proc, txnDone,
                 l_trans, l_result>>

-----------------------------------------------------------------------------
(* processTxn (processDmiMethod, processDbgMethod), in the kernel thread *)

(* The process wakes up and starts b_tr, which may let time pass. *)
RunTxn(b) ==
  /\ pc[K] = "eval" /\ b \in runnable
  /\ runnable' = runnable \ {b}
  /\ proc' = [proc EXCEPT ![b] = "busy"]
  /\ UNCHANGED <<now, policyVars, tokenVars, pc, async, upd, checkDelay, due,
                 txnMutex, txnDone, l_trans, l_result>>

(* b_tr is done; txnDone.post() *)
FinishTxn(b) ==
  /\ pc[K] = "eval" /\ proc[b] = "busy"
  /\ l_result' = [l_result EXCEPT ![b] = l_trans[b]]
  /\ txnDone' = [txnDone EXCEPT ![b] = @ + 1]
  /\ proc' = [proc EXCEPT ![b] = "done"]
  /\ Goto(K, "takeLock")
  /\ UNCHANGED <<setup, now, policyVars, tokenVars, eventVars, txnMutex, l_trans>>

(* takeLock(); the process waits for the next transaction. *)
TakeLock(b) ==
  /\ pc[K] = "takeLock" /\ proc[b] = "done" /\ mutex = None
  /\ locksToDo' = locksToDo + 1
  /\ NotifyCheck(0)
  /\ proc' = [proc EXCEPT ![b] = "wait"]
  /\ Goto(K, "eval")
  /\ UNCHANGED <<now, policyVars, mutex, canLock, txnMutex, txnDone, l_trans,
                 l_result>>

-----------------------------------------------------------------------------
(* checkWindow(), in the kernel thread *)

RunCheckWindow ==
  /\ pc[K] = "eval" /\ Chk \in runnable
  /\ runnable' = runnable \ {Chk}
  /\ Goto(K, IF scIsBack THEN "update" ELSE "front")
  /\ UNCHANGED <<now, policyVars, tokenVars, async, upd, checkDelay, due,
                 bridgeVars>>

(* sc_time_stamp() < frontWindow *)
CheckFront ==
  /\ pc[K] = "front"
  /\ Goto(K, IF now < frontWindow THEN "notifyFront" ELSE "takeLocks")
  /\ UNCHANGED <<now, policyVars, tokenVars, eventVars, bridgeVars>>

(* checkWindowEvent.notify(frontWindow - sc_time_stamp()): frontWindow is   *)
(* read again.  If it went below now meanwhile the unsigned difference      *)
(* wraps, and wraps back when the kernel adds it to now: the event is then  *)
(* due at once.                                                             *)
NotifyFront ==
  /\ pc[K] = "notifyFront"
  /\ NotifyCheck(IF now < frontWindow THEN frontWindow - now ELSE 0)
  /\ Goto(K, "eval")
  /\ UNCHANGED <<now, policyVars, tokenVars, bridgeVars>>

(* takeLockMethod(): mutex.lock() *)
TakeLocksBegin ==
  /\ pc[K] = "takeLocks" /\ mutex = None
  /\ mutex' = K
  /\ Goto(K, "taking")
  /\ UNCHANGED <<now, policyVars, canLock, locksToDo, eventVars, bridgeVars>>

(* takeLockMethod(): sem_trywait() succeeds, locksToDo-- *)
TakeOne ==
  /\ pc[K] = "taking" /\ locksToDo > 0 /\ canLock > 0
  /\ canLock' = canLock - 1
  /\ locksToDo' = locksToDo - 1
  /\ UNCHANGED <<now, policyVars, mutex, pc, eventVars, bridgeVars>>

(* takeLockMethod(): mutex.unlock() *)
TakeLocksEnd ==
  /\ pc[K] = "taking" /\ locksToDo = 0
  /\ mutex' = None
  /\ Goto(K, "timedWait")
  /\ UNCHANGED <<now, policyVars, canLock, locksToDo, eventVars, bridgeVars>>

(* sem_timedwait() gets a token. *)
TimedWaitTakes ==
  /\ pc[K] = "timedWait" /\ canLock > 0
  /\ canLock' = canLock - 1
  /\ Goto(K, "repost")
  /\ UNCHANGED <<now, policyVars, mutex, locksToDo, eventVars, bridgeVars>>

(* Mutant: the token is put back without taking the mutex. *)
RepostUnlocked ==
  /\ pc[K] = "repost"
  /\ canLock' = canLock + 1
  /\ Goto(K, "eval")
  /\ UNCHANGED <<now, policyVars, mutex, locksToDo, eventVars, bridgeVars>>

(* mutex.lock(); sem_post(); mutex.unlock() *)
Repost ==
  /\ pc[K] = "repost" /\ mutex = None
  /\ canLock' = canLock + 1
  /\ Goto(K, "eval")
  /\ UNCHANGED <<now, policyVars, mutex, locksToDo, eventVars, bridgeVars>>

(* sem_timedwait() times out: checkWindowEvent.notify() *)
TimedWaitFails ==
  /\ pc[K] = "timedWait" /\ canLock = 0
  /\ NotifyCheck(0)
  /\ Goto(K, "eval")
  /\ UNCHANGED <<now, policyVars, tokenVars, bridgeVars>>

-----------------------------------------------------------------------------
(* The SystemC kernel *)

AcceptUpdates ==
  /\ pc[K] = "eval" /\ runnable = {}
  /\ upd' = async /\ async' = {}
  /\ Goto(K, "applying")
  /\ UNCHANGED <<now, policyVars, tokenVars, checkDelay, due, runnable,
                 bridgeVars>>

DelayOf(e) == IF e = Chk THEN checkDelay ELSE 0

ApplyUpdate(e) ==
  /\ pc[K] = "applying" /\ e \in upd
  /\ upd' = upd \ {e}
  /\ due' = [due EXCEPT ![e] = IF @ < DelayOf(e) THEN @ ELSE DelayOf(e)]
  /\ UNCHANGED <<now, policyVars, tokenVars, pc, async, checkDelay, runnable,
                 bridgeVars>>

(* The events due in m trigger; processTxn notices only if it waits. *)
Elapse(m) ==
  /\ due' = [e \in Ev |-> IF due[e] \in {m, Never} THEN Never ELSE due[e] - m]
  /\ runnable' = {e \in Ev : due[e] = m /\ (e # Chk => proc[e] = "wait")}

DeltaNotification ==
  /\ pc[K] = "applying" /\ upd = {}
  /\ Elapse(0)
  /\ Goto(K, IF runnable' = {} THEN "advance" ELSE "eval")
  /\ UNCHANGED <<now, policyVars, tokenVars, async, upd, checkDelay,
                 bridgeVars>>

(* Time passes up to the next event of this module, or less far because the *)
(* simulated hardware has an event of its own.                              *)
AdvanceTime(m) ==
  /\ pc[K] = "advance"
  /\ now + m <= MaxTime /\ \A e \in Ev : m <= due[e]
  /\ now' = now + m
  /\ Elapse(m)
  /\ Goto(K, "eval")
  /\ UNCHANGED <<policyVars, tokenVars, async, upd, checkDelay, bridgeVars>>

(* With nothing to wait for, the kernel sleeps until another thread         *)
(* notifies it (see AsyncEvent), or a transaction goes on.                  *)
KernelWakes ==
  /\ pc[K] = "advance"
  /\ \A e \in Ev : due[e] = Never
  /\ async # {} \/ \E b \in Bridges : proc[b] = "busy"
  /\ Goto(K, "eval")
  /\ UNCHANGED <<now, policyVars, tokenVars, eventVars, bridgeVars>>

-----------------------------------------------------------------------------
(* A remote thread calls syncAt() or starts a transaction when it likes. *)
ThreadCalls(t) ==
  /\ UNCHANGED setup
  /\ \/ t \in setup.syncing /\ \E v \in Time : SyncAt(t, v)
     \/ \E b \in setup.bridges : TxnLock(t, b)

UpdateWindow(c) ==
  \/ ReadTimeStamp(c)
  \/ WindowLock(c)
  \/ \E u \in Threads : ScanEntry(c, u)
  \/ ScanReload(c)
  \/ WindowStore(c)
  \/ AheadRelease(c)
  \/ KickPost(c)
  \/ KickNotify(c)

ThreadGoesOn(t) ==
  /\ UNCHANGED setup
  /\ \/ UpdateWindow(t)
     \/ AheadCheck(t) \/ AheadWait(t) \/ AheadTimeout(t)
     \/ \E b \in Bridges : TxnNotify(t, b)
     \/ TxnRelease(t)
     \/ \E b \in Bridges : TxnWait(t, b) \/ TxnUnlock(t, b)

CheckWindow ==
  \/ RunCheckWindow \/ CheckFront \/ NotifyFront
  \/ TakeLocksBegin \/ TakeOne \/ TakeLocksEnd
  \/ TimedWaitTakes \/ Repost \/ TimedWaitFails

KernelGoesOn ==
  /\ UNCHANGED setup
  /\ \/ UpdateWindow(K)
     \/ CheckWindow
     \/ \E b \in Bridges : RunTxn(b) \/ TakeLock(b)
     \/ AcceptUpdates
     \/ \E e \in Ev : ApplyUpdate(e)
     \/ DeltaNotification
     \/ \E m \in 1 .. MaxTime : AdvanceTime(m)
     \/ KernelWakes

Next ==
  \/ \E t \in Threads : ThreadCalls(t) \/ ThreadGoesOn(t)
  \/ KernelGoesOn
  \/ \E b \in Bridges : FinishTxn(b)

Spec == Init /\ [][Next]_vars

(***************************************************************************)
(* Fairness: the operating system runs every thread, no thread loses every *)
(* race for a spin lock (strong fairness), and the target of a transaction *)
(* answers.  A thread is never obliged to synchronise or to start a        *)
(* transaction.                                                            *)
(***************************************************************************)
Fairness ==
  /\ \A t \in Threads : SF_vars(ThreadGoesOn(t))
  /\ SF_vars(KernelGoesOn)
  /\ \A b \in Bridges : SF_vars(FinishTxn(b))

FairSpec == Spec /\ Fairness

-----------------------------------------------------------------------------
(* Properties *)

(* A thread has stored its time but not yet recomputed the windows. *)
Stale(t) == pc[t] \in {"update", "lockWindow", "scan"}

(* The windows are right whenever every setWindow() has recomputed them:    *)
(* backWindow is not past the kernel or any thread, and frontWindow is not  *)
(* behind any thread.  This is in spite of the stale sc_ts with which a     *)
(* slow thread computes them, and of endTimes changing under the loop.      *)
WindowsSound ==
  (\A t \in Threads : ~ Stale(t)) =>
    /\ backWindow <= now
    /\ \A t \in Threads : backWindow <= endTimes[t] /\ endTimes[t] <= frontWindow

(* A transaction has been handed to the kernel and is not finished. *)
InFlight ==
  \E b \in Bridges, t \in Threads :
    txnMutex[b] = t /\ pc[t] \in {"txnRelease", "txnWait"} /\ txnDone[b] = 0

(* SystemC does not run ahead: time passes beyond what some thread has      *)
(* synchronised to (and the initial quantum) only while a transaction of a  *)
(* remote thread is in flight.  checkWindow() holds the kernel back by      *)
(* waiting for a canLock token and must be called again after each return.  *)
NoRunAhead ==
  [][now' # now =>
       \/ InFlight
       \/ now' <= Quantum
       \/ \E t \in Threads : now' <= endTimes[t]]_vars

Busy(t) == pc[t] \in {"txnNotify", "txnRelease", "txnWait", "kicked"}

(* No token leaks: when no transaction and no kickLock() is under way, the  *)
(* tokens in canLock are exactly those takeLockMethod() is still to take.   *)
NoTokenLeft ==
  /\ \A t \in Threads : ~ Busy(t)
  /\ \A b \in Bridges : proc[b] = "wait"
  /\ pc[K] # "kicked"
  => canLock + (IF pc[K] = "repost" THEN 1 ELSE 0) = locksToDo

(* The answer a thread picks up is that of its own transaction. *)
OwnAnswer ==
  \A b \in Bridges, t \in Threads :
    pc[t] = "txnReturn" /\ txnMutex[b] = t => l_result[b] = t

(* A thread that leaves setWindow() by its condition is at most a quantum   *)
(* ahead of the kernel and of every other thread, unless another thread is  *)
(* just changing the windows.                                               *)
WithinQuantum ==
  [][\A t \in Threads \ setup.decoupled :
       pc[t] = "ahead" /\ pc'[t] = "run" /\ (\A u \in Threads : ~ Stale(u)) =>
         /\ endTimes[t] <= now + Quantum
         /\ \A u \in Threads : endTimes[t] <= endTimes[u] + Quantum]_vars

(* Every transaction of a remote thread returns. *)
TxnReturns ==
  \A t \in Threads : pc[t] = "txnNotify" ~> pc[t] = "run"

(* The kernel catches up with every thread, unless transactions keep it     *)
(* busy.                                                                    *)
CatchesUp ==
  \A t \in Threads, v \in 1 .. MaxTime :
    endTimes[t] = v ~> (now >= v \/ InFlight)

(* The events as the module that gs_event_async implements sees them. *)
Event == INSTANCE AsyncEventSpec WITH
           Events <- Ev, MaxDelay <- MaxTime, requested <- async \cup upd,
           delay <- [e \in Ev |-> DelayOf(e)], due <- due

(* This module relies on no more than AsyncEventSpec promises: what its     *)
(* events do is what gs_event_async may do.  (The delay starts at the       *)
(* quantum, because start_of_simulation() has notified already.)            *)
UsesAsyncEvents == [][Event!Next]_(Event!vars)
=============================================================================
