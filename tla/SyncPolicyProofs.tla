-------------------------- MODULE SyncPolicyProofs --------------------------
(***************************************************************************)
(* Proofs about the synchronisation policy and its bridges for every       *)
(* number of threads and bridges.                                          *)
(***************************************************************************)
EXTENDS SyncPolicy, FiniteSetTheorems, TLAPS

(* What a thread, or the kernel, may be doing. *)
States ==
  {"run", "update", "lockWindow", "scan", "release", "kick", "kicked", "ahead",
   "toWait", "waiting", "txnNotify", "txnRelease", "txnWait", "txnReturn",
   "eval", "takeLock", "front", "notifyFront", "takeLocks", "taking", "timedWait",
   "repost", "applying", "advance"}

(* The types of the variables. *)
TypeOK ==
  /\ setup \in Setups
  /\ now \in Time
  /\ endTimes \in [Threads -> Time]
  /\ backWindow \in Time /\ frontWindow \in Time /\ scIsBack \in BOOLEAN
  /\ mutex \in Callers \cup {None}
  /\ canLock \in Nat /\ locksToDo \in Nat
  /\ pc \in [Callers -> States]
  /\ ts \in [Callers -> Time]
  /\ scan \in [back : Time, front : Time, todo : SUBSET Threads,
               reload : Threads \cup {None}]
  /\ async \in SUBSET Ev /\ upd \in SUBSET Ev /\ runnable \in SUBSET Ev
  /\ checkDelay \in Time
  /\ due \in [Ev -> 0 .. Never]
  /\ proc \in [Bridges -> {"wait", "busy", "done"}]
  /\ txnMutex \in [Bridges -> Threads \cup {None}]
  /\ txnDone \in [Bridges -> Nat]
  /\ l_trans \in [Bridges -> Threads \cup {None}]
  /\ l_result \in [Bridges -> Threads \cup {None}]

-----------------------------------------------------------------------------
(***************************************************************************)
(* The inductive invariant.  Windows is WindowsSound and what the loop of  *)
(* update_window() knows half way, which needs MutexOwned.  Stages, Owners *)
(* and Finished follow a transaction through its bridge.  Balance counts   *)
(* the tokens, transaction by transaction.  Delays says that the kernel is *)
(* told to call checkWindow() no later than it may go, and HeldBack that   *)
(* it is told at all: with Balance, because checkWindow() may return with  *)
(* no new notification only when it finds a token that is not its to take. *)
(***************************************************************************)
(* Who is in a section protected by the mutex owns it. *)
MutexOwned == \A c \in Callers : pc[c] \in {"scan", "kicked", "taking"} => mutex = c

(* No other thread than c has a window to recompute. *)
Calm(c) == \A t \in Threads \ {c} : ~ Stale(t)

(* What the loop of update_window() has found so far is right as long as   *)
(* no other thread changes its entry: that thread would be stale, and      *)
(* remain so until it gets the mutex.                                      *)
ScanSound ==
  \A c \in Callers : pc[c] = "scan" /\ Calm(c) =>
    /\ scan.back <= ts[c] /\ ts[c] <= scan.front
    /\ scan.reload \notin scan.todo
    /\ scan.reload # None => endTimes[scan.reload] < scan.back
    /\ \A u \in Threads \ (scan.todo \cup {scan.reload}) :
         scan.back <= endTimes[u] /\ endTimes[u] <= scan.front

(* The windows are right, and the stale time stamps are in the past. *)
Windows ==
  /\ \A c \in Callers : ts[c] <= now
  /\ ScanSound
  /\ WindowsSound

(* A transaction is on its way to the kernel, in work or done, and in one   *)
(* of these stages only.                                                    *)
Pending(b) == b \in async \cup upd \cup runnable \/ due[b] # Never
Working(b) == Pending(b) \/ proc[b] = "busy" \/ txnDone[b] # 0

Stages ==
  \A b \in Bridges :
    /\ b \in async => b \notin upd
    /\ b \in async \cup upd => due[b] = Never
    /\ b \in async \cup upd \/ due[b] # Never => b \notin runnable
    /\ Pending(b) => proc[b] # "busy"
    /\ Pending(b) \/ proc[b] = "busy" => txnDone[b] = 0
    /\ txnDone[b] \in {0, 1}

TxnStates == {"txnNotify", "txnRelease", "txnWait", "txnReturn"}

(* The owner of a bridge is inside of a call of it, its transaction is the  *)
(* one the kernel has, and the result is for it.                            *)
Owners ==
  /\ \A b \in Bridges : txnMutex[b] # None =>
       /\ pc[txnMutex[b]] \in TxnStates
       /\ l_trans[b] = txnMutex[b]
       /\ pc[txnMutex[b]] = "txnReturn" => l_result[b] = txnMutex[b]
  /\ \A b, d \in Bridges : txnMutex[b] = txnMutex[d] /\ txnMutex[b] # None => b = d
  /\ \A t \in Threads : pc[t] \in TxnStates => \E b \in Bridges : txnMutex[b] = t
  /\ \A b \in Bridges : Working(b) =>
       txnMutex[b] # None /\ pc[txnMutex[b]] \in {"txnRelease", "txnWait"}
  /\ \A b \in Bridges : txnDone[b] # 0 => l_result[b] = txnMutex[b]

(* The process that has finished a transaction and is to take its lock. *)
Finished ==
  /\ pc[K] = "takeLock" => \E b \in Bridges : proc[b] = "done"
  /\ \A b \in Bridges : proc[b] = "done" => pc[K] = "takeLock"
  /\ \A b, d \in Bridges : proc[b] = "done" /\ proc[d] = "done" => b = d

(* Tokens posted by threads whose transaction is not finished; transactions *)
(* finished before their thread has posted its token.                       *)
Handed == {b \in Bridges : txnMutex[b] # None /\ pc[txnMutex[b]] = "txnWait" /\ txnDone[b] = 0}
Early == {b \in Bridges : txnMutex[b] # None /\ pc[txnMutex[b]] = "txnRelease" /\ txnDone[b] = 1}
One(p) == IF p THEN 1 ELSE 0
Kicking == \E c \in Callers : pc[c] = "kicked"

(* The tokens in canLock or in the hands of the kernel, against those it is *)
(* still to take.                                                           *)
TokenSum ==
  canLock + One(pc[K] = "repost") + Cardinality(Early)
    = locksToDo + Cardinality(Handed) + One(pc[K] = "takeLock") + One(Kicking)

Balance == IsFiniteSet(Handed) /\ IsFiniteSet(Early) /\ TokenSum

(* Time t is one that the kernel may reach. *)
Allowed(t) == t <= Quantum \/ \E u \in Threads : t <= endTimes[u]

(* checkWindowEvent is notified for an allowed time, or at once; in the     *)
(* phases that lead to the advance of time, at once only.                   *)
Delays ==
  /\ pc[K] # "applying" => upd = {}
  /\ \A t \in setup.decoupled : endTimes[t] <= now
  /\ frontWindow <= now \/ Allowed(frontWindow)
  /\ scan.front <= now \/ Allowed(scan.front)
  /\ Chk \in async \cup upd => checkDelay = 0 \/ Allowed(now + checkDelay)
  /\ pc[K] \in {"applying", "advance"} /\ Chk \in async => checkDelay = 0
  /\ due[Chk] # Never => due[Chk] = 0 \/ Allowed(now + due[Chk])

(* checkWindow() will be called again, or a transaction is in flight.  In   *)
(* timedWait a kickLock() since takeLockMethod() has notified the event; in *)
(* repost one that has not yet done so is under way.                        *)
HeldBack ==
  /\ pc[K] = "eval" /\ Chk \notin async \cup runnable /\ due[Chk] = Never => InFlight
  /\ pc[K] = "applying" /\ Chk \notin upd /\ due[Chk] = Never => InFlight
  /\ pc[K] = "advance" /\ due[Chk] = Never => InFlight
  /\ pc[K] = "timedWait" /\ Chk \notin async => locksToDo = 0
  /\ pc[K] = "repost" /\ Chk \notin async => InFlight \/ Kicking

(* The whole. *)
IInv == /\ TypeOK /\ MutexOwned /\ Windows /\ Stages /\ Owners /\ Finished
        /\ Balance /\ Delays /\ HeldBack

-----------------------------------------------------------------------------
USE ThreadAssumption, SetupAssumption, EventAssumption, TimeAssumption

(* The types hold after elaboration. *)
LEMMA TypeInit == Init => TypeOK
  BY DEF Init, TypeOK, States, Callers, Ev, Time, Never, NoScan

(* update_window() keeps them, in a thread and in the kernel. *)
LEMMA TypeUpdateWindow ==
  ASSUME TypeOK, NEW c \in Callers, UpdateWindow(c), UNCHANGED setup
  PROVE  TypeOK'
<1> USE DEF TypeOK, States, Time, Goto
<1>1. CASE ReadTimeStamp(c)
  BY <1>1 DEF ReadTimeStamp, tokenVars, eventVars, bridgeVars
<1>2. CASE WindowLock(c)
  BY <1>2 DEF WindowLock, tokenVars, eventVars, bridgeVars
<1>3. ASSUME NEW u \in Threads, ScanEntry(c, u) PROVE TypeOK'
  BY <1>3 DEF ScanEntry, Latest, tokenVars, eventVars, bridgeVars
<1>4. CASE ScanReload(c)
  BY <1>4 DEF ScanReload, tokenVars, eventVars, bridgeVars
<1>5. CASE WindowStore(c)
  BY <1>5 DEF WindowStore, NoScan, Return, eventVars, bridgeVars
<1>6. CASE AheadRelease(c)
  BY <1>6 DEF AheadRelease, policyVars, tokenVars, eventVars, bridgeVars
<1>7. CASE KickPost(c)
  BY <1>7 DEF KickPost, policyVars, eventVars, bridgeVars
<1>8. CASE KickNotify(c)
  BY <1>8 DEF KickNotify, NotifyCheck, Return, Ev, policyVars, bridgeVars
<1> QED
  BY <1>1, <1>2, <1>3, <1>4, <1>5, <1>6, <1>7, <1>8 DEF UpdateWindow

(* So do the other steps of a remote thread, *)
LEMMA TypeThread ==
  ASSUME TypeOK, NEW t \in Threads, ThreadCalls(t) \/ ThreadGoesOn(t)
  PROVE  TypeOK'
<1> USE DEF TypeOK, States, Time, Goto, Callers
<1>1. ASSUME NEW v \in Time, SyncAt(t, v), UNCHANGED setup PROVE TypeOK'
  BY <1>1 DEF SyncAt, tokenVars, eventVars, bridgeVars
<1>2. ASSUME NEW b \in Bridges, TxnLock(t, b), UNCHANGED setup PROVE TypeOK'
  BY <1>2 DEF TxnLock, policyVars, tokenVars, eventVars
<1>3. CASE UpdateWindow(t) /\ UNCHANGED setup
  BY <1>3, TypeUpdateWindow
<1>4. CASE (AheadCheck(t) \/ AheadWait(t) \/ AheadTimeout(t)) /\ UNCHANGED setup
  BY <1>4 DEF AheadCheck, AheadWait, AheadTimeout,
              policyVars, tokenVars, eventVars, bridgeVars
<1>5. ASSUME NEW b \in Bridges, TxnNotify(t, b), UNCHANGED setup PROVE TypeOK'
  BY <1>5 DEF TxnNotify, Ev, policyVars, tokenVars, bridgeVars
<1>6. CASE TxnRelease(t) /\ UNCHANGED setup
  BY <1>6 DEF TxnRelease, policyVars, eventVars, bridgeVars
<1>7. ASSUME NEW b \in Bridges, TxnWait(t, b), UNCHANGED setup PROVE TypeOK'
  BY <1>7 DEF TxnWait, policyVars, tokenVars, eventVars
<1>8. ASSUME NEW b \in Bridges, TxnUnlock(t, b), UNCHANGED setup PROVE TypeOK'
  BY <1>8 DEF TxnUnlock, policyVars, tokenVars, eventVars
<1> QED
  BY <1>1, <1>2, <1>3, <1>4, <1>5, <1>6, <1>7, <1>8 DEF ThreadCalls, ThreadGoesOn

(* and those of the kernel and of the target of a transaction. *)
LEMMA TypeKernel ==
  ASSUME TypeOK, KernelGoesOn \/ \E b \in Bridges : FinishTxn(b)
  PROVE  TypeOK'
<1> USE DEF TypeOK, States, Time, Never, Goto, Callers, Ev
<1>1. CASE UpdateWindow(K) /\ UNCHANGED setup
  BY <1>1, TypeUpdateWindow
<1>2. CASE CheckWindow /\ UNCHANGED setup
  BY <1>2 DEF CheckWindow, RunCheckWindow, CheckFront, NotifyFront, TakeLocksBegin,
              TakeOne, TakeLocksEnd, TimedWaitTakes, Repost, TimedWaitFails,
              NotifyCheck, policyVars, tokenVars, eventVars, bridgeVars
<1>3. ASSUME NEW b \in Bridges, RunTxn(b) \/ TakeLock(b), UNCHANGED setup PROVE TypeOK'
  BY <1>3 DEF RunTxn, TakeLock, NotifyCheck, policyVars, tokenVars
<1>4. CASE AcceptUpdates /\ UNCHANGED setup
  BY <1>4 DEF AcceptUpdates, policyVars, tokenVars, bridgeVars
<1>5. ASSUME NEW e \in Ev, ApplyUpdate(e), UNCHANGED setup PROVE TypeOK'
  BY <1>5 DEF ApplyUpdate, DelayOf, policyVars, tokenVars, bridgeVars
<1>6. CASE DeltaNotification /\ UNCHANGED setup
  BY <1>6 DEF DeltaNotification, Elapse, policyVars, tokenVars, bridgeVars
<1>7. ASSUME NEW m \in 1 .. MaxTime, AdvanceTime(m), UNCHANGED setup PROVE TypeOK'
  BY <1>7 DEF AdvanceTime, Elapse, policyVars, tokenVars, bridgeVars
<1>8. CASE KernelWakes /\ UNCHANGED setup
  BY <1>8 DEF KernelWakes, policyVars, tokenVars, eventVars, bridgeVars
<1>9. ASSUME NEW b \in Bridges, FinishTxn(b) PROVE TypeOK'
  BY <1>9 DEF FinishTxn, policyVars, tokenVars, eventVars
<1> QED
  BY <1>1, <1>2, <1>3, <1>4, <1>5, <1>6, <1>7, <1>8, <1>9 DEF KernelGoesOn

(* Every step keeps the types. *)
LEMMA TypeStep == ASSUME TypeOK, [Next]_vars PROVE TypeOK'
<1>1. CASE UNCHANGED vars
  BY <1>1 DEF vars, TypeOK, policyVars, tokenVars, eventVars, bridgeVars
<1> QED BY <1>1, TypeThread, TypeKernel DEF Next

-----------------------------------------------------------------------------
(* The steps of the specification, one disjunct for each kind. *)
LEMMA Steps ==
  ASSUME TypeOK, [Next]_vars
  PROVE  \/ \E c \in Callers : UpdateWindow(c) /\ UNCHANGED setup
         \/ \E t \in Threads, v \in Time : SyncAt(t, v) /\ UNCHANGED setup
         \/ \E t \in Threads : /\ AheadCheck(t) \/ AheadWait(t) \/ AheadTimeout(t)
                               /\ UNCHANGED setup
         \/ \E t \in Threads, b \in Bridges :
              TxnLock(t, b) \/ TxnNotify(t, b) \/ TxnWait(t, b) \/ TxnUnlock(t, b)
         \/ \E t \in Threads : TxnRelease(t)
         \/ \E b \in Bridges : RunTxn(b) \/ FinishTxn(b) \/ TakeLock(b)
         \/ CheckWindow /\ UNCHANGED setup
         \/ AcceptUpdates \/ DeltaNotification \/ KernelWakes
         \/ \E e \in Ev : ApplyUpdate(e)
         \/ \E m \in 1 .. MaxTime : AdvanceTime(m) /\ UNCHANGED setup
         \/ UNCHANGED vars
  BY DEF TypeOK, Next, ThreadCalls, ThreadGoesOn, KernelGoesOn, Callers

(* Sections protected by the mutex are entered and left with it. *)
LEMMA MutexStep == ASSUME TypeOK, MutexOwned, [Next]_vars PROVE MutexOwned'
<1> USE DEF TypeOK, MutexOwned, Goto
<1>1. ASSUME NEW c \in Callers, UpdateWindow(c) PROVE MutexOwned'
  <2>1. CASE AheadRelease(c) BY <2>1 DEF AheadRelease, tokenVars
  <2>2. CASE WindowStore(c) BY <2>2 DEF WindowStore, Return
  <2>3. ASSUME NEW u \in Threads, ScanEntry(c, u) PROVE MutexOwned'
    BY <2>3 DEF ScanEntry, tokenVars
  <2>4. CASE ReadTimeStamp(c) BY <2>4 DEF ReadTimeStamp, tokenVars
  <2>5. CASE WindowLock(c) BY <2>5 DEF WindowLock, Callers
  <2>6. CASE ScanReload(c) BY <2>6 DEF ScanReload, tokenVars
  <2>7. CASE KickPost(c) BY <2>7 DEF KickPost, Callers
  <2>8. CASE KickNotify(c) BY <2>8 DEF KickNotify, Return, Callers
  <2> QED BY <1>1, <2>1, <2>2, <2>3, <2>4, <2>5, <2>6, <2>7, <2>8 DEF UpdateWindow
<1>2. CASE CheckWindow
  BY <1>2 DEF CheckWindow, RunCheckWindow, CheckFront, NotifyFront, TakeLocksBegin,
              TakeOne, TakeLocksEnd, TimedWaitTakes, Repost, TimedWaitFails,
              tokenVars, Callers
<1>3. ASSUME NEW t \in Threads, NEW v \in Time, SyncAt(t, v) PROVE MutexOwned'
  BY <1>3 DEF SyncAt, tokenVars, Callers
<1>4. ASSUME NEW t \in Threads, AheadCheck(t) \/ AheadWait(t) \/ AheadTimeout(t)
      PROVE  MutexOwned'
  BY <1>4 DEF AheadCheck, AheadWait, AheadTimeout, tokenVars, Callers
<1>5. ASSUME NEW t \in Threads, NEW b \in Bridges,
             TxnLock(t, b) \/ TxnNotify(t, b) \/ TxnWait(t, b) \/ TxnUnlock(t, b)
      PROVE  MutexOwned'
  BY <1>5 DEF TxnLock, TxnNotify, TxnWait, TxnUnlock, tokenVars, Callers
<1>6. ASSUME NEW t \in Threads, TxnRelease(t) PROVE MutexOwned'
  BY <1>6 DEF TxnRelease, Callers
<1>7. ASSUME NEW b \in Bridges, RunTxn(b) \/ FinishTxn(b) \/ TakeLock(b) PROVE MutexOwned'
  BY <1>7 DEF RunTxn, FinishTxn, TakeLock, tokenVars, Callers
<1>8. CASE AcceptUpdates \/ DeltaNotification \/ KernelWakes
  BY <1>8 DEF AcceptUpdates, DeltaNotification, KernelWakes, tokenVars, Callers
<1>9. ASSUME NEW e \in Ev, ApplyUpdate(e) PROVE MutexOwned'
  BY <1>9 DEF ApplyUpdate, tokenVars
<1>10. ASSUME NEW m \in 1 .. MaxTime, AdvanceTime(m) PROVE MutexOwned'
  BY <1>10 DEF AdvanceTime, tokenVars, Callers
<1>11. CASE UNCHANGED vars BY <1>11 DEF vars, tokenVars
<1> QED
  BY <1>1, <1>2, <1>3, <1>4, <1>5, <1>6, <1>7, <1>8, <1>9, <1>10, <1>11, Steps

(* The windows stay right. *)
LEMMA WindowsStep ==
  ASSUME TypeOK, MutexOwned, Windows, [Next]_vars, TypeOK'
  PROVE  Windows'
<1> USE DEF TypeOK, Windows, ScanSound, WindowsSound, Calm, Stale, Goto, Time, Callers
<1>1. ASSUME NEW c \in Callers, UpdateWindow(c) PROVE Windows'
  <2>1. CASE ReadTimeStamp(c) BY <2>1 DEF ReadTimeStamp
  <2>2. CASE WindowLock(c) BY <2>2 DEF WindowLock, MutexOwned
  <2>3. ASSUME NEW u \in Threads, ScanEntry(c, u) PROVE Windows'
    BY <2>3 DEF ScanEntry, Latest, MutexOwned
  <2>4. CASE ScanReload(c) BY <2>4 DEF ScanReload, MutexOwned
  <2>5. CASE WindowStore(c) BY <2>5 DEF WindowStore, MutexOwned, Return
  <2>6. CASE AheadRelease(c) BY <2>6 DEF AheadRelease, policyVars
  <2>7. CASE KickPost(c) BY <2>7 DEF KickPost, policyVars
  <2>8. CASE KickNotify(c) BY <2>8 DEF KickNotify, Return, policyVars
  <2> QED BY <1>1, <2>1, <2>2, <2>3, <2>4, <2>5, <2>6, <2>7, <2>8 DEF UpdateWindow
<1>2. CASE CheckWindow
  BY <1>2 DEF CheckWindow, RunCheckWindow, CheckFront, NotifyFront, TakeLocksBegin,
              TakeOne, TakeLocksEnd, TimedWaitTakes, Repost, TimedWaitFails, policyVars
<1>3. ASSUME NEW t \in Threads, NEW v \in Time, SyncAt(t, v) PROVE Windows'
  BY <1>3 DEF SyncAt
<1>4. ASSUME NEW t \in Threads, AheadCheck(t) \/ AheadWait(t) \/ AheadTimeout(t)
      PROVE  Windows'
  BY <1>4 DEF AheadCheck, AheadWait, AheadTimeout, policyVars
<1>5. ASSUME NEW t \in Threads, NEW b \in Bridges,
             TxnLock(t, b) \/ TxnNotify(t, b) \/ TxnWait(t, b) \/ TxnUnlock(t, b)
      PROVE  Windows'
  BY <1>5 DEF TxnLock, TxnNotify, TxnWait, TxnUnlock, policyVars
<1>6. ASSUME NEW t \in Threads, TxnRelease(t) PROVE Windows'
  BY <1>6 DEF TxnRelease, policyVars
<1>7. ASSUME NEW b \in Bridges, RunTxn(b) \/ FinishTxn(b) \/ TakeLock(b) PROVE Windows'
  BY <1>7 DEF RunTxn, FinishTxn, TakeLock, policyVars
<1>8. CASE AcceptUpdates \/ DeltaNotification \/ KernelWakes
  BY <1>8 DEF AcceptUpdates, DeltaNotification, KernelWakes, policyVars
<1>9. ASSUME NEW e \in Ev, ApplyUpdate(e) PROVE Windows'
  BY <1>9 DEF ApplyUpdate, policyVars
<1>10. ASSUME NEW m \in 1 .. MaxTime, AdvanceTime(m) PROVE Windows'
  BY <1>10 DEF AdvanceTime, policyVars
<1>11. CASE UNCHANGED vars BY <1>11 DEF vars, policyVars
<1> QED
  BY <1>1, <1>2, <1>3, <1>4, <1>5, <1>6, <1>7, <1>8, <1>9, <1>10, <1>11, Steps

-----------------------------------------------------------------------------
(* The bridges: every transaction is in one stage, and known to its owner. *)
TxnInv == Stages /\ Owners /\ Finished

(* Every step keeps a transaction in its stage or moves it to the next. *)
LEMMA TxnStep == ASSUME TypeOK, TxnInv, [Next]_vars, TypeOK' PROVE TxnInv'
<1> USE DEF TypeOK, TxnInv, Stages, Owners, Finished, Pending, Working, TxnStates, Goto,
            Callers, Ev
<1>1. ASSUME NEW c \in Callers, UpdateWindow(c) PROVE TxnInv'
  <2>1. CASE ReadTimeStamp(c) BY <2>1 DEF ReadTimeStamp, eventVars, bridgeVars
  <2>2. CASE WindowLock(c) BY <2>2 DEF WindowLock, eventVars, bridgeVars
  <2>3. ASSUME NEW u \in Threads, ScanEntry(c, u) PROVE TxnInv'
    BY <2>3 DEF ScanEntry, eventVars, bridgeVars
  <2>4. CASE ScanReload(c) BY <2>4 DEF ScanReload, eventVars, bridgeVars
  <2>5. CASE WindowStore(c) BY <2>5 DEF WindowStore, Return, eventVars, bridgeVars
  <2>6. CASE AheadRelease(c) BY <2>6 DEF AheadRelease, eventVars, bridgeVars
  <2>7. CASE KickPost(c) BY <2>7 DEF KickPost, eventVars, bridgeVars
  <2>8. CASE KickNotify(c) BY <2>8 DEF KickNotify, NotifyCheck, Return, bridgeVars
  <2> QED BY <1>1, <2>1, <2>2, <2>3, <2>4, <2>5, <2>6, <2>7, <2>8 DEF UpdateWindow
<1>2. CASE CheckWindow
  <2>1. CASE RunCheckWindow BY <2>1 DEF RunCheckWindow, bridgeVars
  <2>2. CASE CheckFront BY <2>2 DEF CheckFront, eventVars, bridgeVars
  <2>3. CASE NotifyFront BY <2>3 DEF NotifyFront, NotifyCheck, bridgeVars
  <2>4. CASE TakeLocksBegin \/ TakeOne \/ TakeLocksEnd
    BY <2>4 DEF TakeLocksBegin, TakeOne, TakeLocksEnd, eventVars, bridgeVars
  <2>5. CASE TimedWaitTakes \/ Repost
    BY <2>5 DEF TimedWaitTakes, Repost, eventVars, bridgeVars
  <2>6. CASE TimedWaitFails BY <2>6 DEF TimedWaitFails, NotifyCheck, bridgeVars
  <2> QED BY <1>2, <2>1, <2>2, <2>3, <2>4, <2>5, <2>6 DEF CheckWindow
<1>3. ASSUME NEW t \in Threads, NEW v \in Time, SyncAt(t, v) PROVE TxnInv'
  BY <1>3 DEF SyncAt, eventVars, bridgeVars
<1>4. ASSUME NEW t \in Threads, AheadCheck(t) \/ AheadWait(t) \/ AheadTimeout(t)
      PROVE  TxnInv'
  <2>1. CASE AheadCheck(t) BY <2>1 DEF AheadCheck, eventVars, bridgeVars
  <2>2. CASE AheadWait(t) BY <2>2 DEF AheadWait, eventVars, bridgeVars
  <2>3. CASE AheadTimeout(t) BY <2>3 DEF AheadTimeout, eventVars, bridgeVars
  <2> QED BY <1>4, <2>1, <2>2, <2>3
<1>5. ASSUME NEW t \in Threads, NEW b \in Bridges,
             TxnLock(t, b) \/ TxnNotify(t, b) \/ TxnWait(t, b) \/ TxnUnlock(t, b)
      PROVE  TxnInv'
  <2>1. CASE TxnLock(t, b) BY <2>1 DEF TxnLock, eventVars
  <2>2. CASE TxnNotify(t, b) BY <2>2 DEF TxnNotify, bridgeVars
  <2>3. CASE TxnWait(t, b) BY <2>3 DEF TxnWait, eventVars
  <2>4. CASE TxnUnlock(t, b) BY <2>4 DEF TxnUnlock, eventVars
  <2> QED BY <1>5, <2>1, <2>2, <2>3, <2>4
<1>6. ASSUME NEW t \in Threads, TxnRelease(t) PROVE TxnInv'
  BY <1>6 DEF TxnRelease, eventVars, bridgeVars
<1>7. ASSUME NEW b \in Bridges, RunTxn(b) \/ FinishTxn(b) \/ TakeLock(b) PROVE TxnInv'
  <2>1. CASE RunTxn(b) BY <2>1 DEF RunTxn
  <2>2. CASE FinishTxn(b) BY <2>2 DEF FinishTxn, eventVars
  <2>3. CASE TakeLock(b) BY <2>3 DEF TakeLock, NotifyCheck
  <2> QED BY <1>7, <2>1, <2>2, <2>3
<1>8. CASE AcceptUpdates BY <1>8 DEF AcceptUpdates, bridgeVars
<1>9. CASE DeltaNotification
  BY <1>9 DEF DeltaNotification, Elapse, Never, Time, bridgeVars
<1>10. CASE KernelWakes BY <1>10 DEF KernelWakes, eventVars, bridgeVars
<1>11. ASSUME NEW e \in Ev, ApplyUpdate(e) PROVE TxnInv'
  BY <1>11 DEF ApplyUpdate, DelayOf, Never, Time, bridgeVars
<1>12. ASSUME NEW m \in 1 .. MaxTime, AdvanceTime(m) PROVE TxnInv'
  BY <1>12 DEF AdvanceTime, Elapse, Never, Time, bridgeVars
<1>13. CASE UNCHANGED vars BY <1>13 DEF vars, eventVars, bridgeVars
<1> QED
  BY <1>1, <1>2, <1>3, <1>4, <1>5, <1>6, <1>7, <1>8, <1>9, <1>10, <1>11, <1>12, <1>13, Steps

-----------------------------------------------------------------------------
(* A step in which no transaction moves and whose tokens add up. *)
LEMMA SameTransactions ==
  ASSUME Balance, Handed' = Handed, Early' = Early,
         canLock \in Nat, locksToDo \in Nat, canLock' \in Nat, locksToDo' \in Nat,
         canLock' + One(pc[K] = "repost")' + locksToDo + One(pc[K] = "takeLock") + One(Kicking)
           = canLock + One(pc[K] = "repost")
               + locksToDo' + One(pc[K] = "takeLock")' + One(Kicking)'
  PROVE  Balance'
<1>1. Cardinality(Handed) \in Nat /\ Cardinality(Early) \in Nat
  BY FS_CardinalityType DEF Balance
<1> QED BY <1>1 DEF Balance, TokenSum, One

(* A caller outside of a transaction stays outside. *)
LEMMA OutsideTransactions ==
  ASSUME TypeOK, Owners, NEW c \in Callers, pc[c] \notin TxnStates,
         pc'[c] \notin {"txnRelease", "txnWait"},
         \A d \in Callers \ {c} : pc'[d] # pc[d] =>
           pc[d] \notin TxnStates /\ pc'[d] \notin {"txnRelease", "txnWait"},
         UNCHANGED <<txnMutex, txnDone>>
  PROVE  Handed' = Handed /\ Early' = Early
  BY DEF TypeOK, Owners, Handed, Early, TxnStates, Callers

(* The tokens balance: TxnRelease and FinishTxn move a bridge in or out of  *)
(* Handed or Early, the other steps move tokens only.                       *)
LEMMA BalanceStep ==
  ASSUME TypeOK, MutexOwned, TxnInv, Balance, [Next]_vars, TypeOK'
  PROVE  Balance'
<1> USE DEF TypeOK, TxnInv, Goto, Callers, TxnStates, One, Kicking
<1>1. ASSUME NEW c \in Callers, UpdateWindow(c) PROVE Balance'
  <2>1. CASE ReadTimeStamp(c)
    BY <2>1, OutsideTransactions, SameTransactions DEF ReadTimeStamp, tokenVars, bridgeVars
  <2>2. CASE WindowLock(c)
    BY <2>2, OutsideTransactions, SameTransactions DEF WindowLock, bridgeVars
  <2>3. ASSUME NEW u \in Threads, ScanEntry(c, u) PROVE Balance'
    BY <2>3, OutsideTransactions, SameTransactions DEF ScanEntry, tokenVars, bridgeVars
  <2>4. CASE ScanReload(c)
    BY <2>4, OutsideTransactions, SameTransactions DEF ScanReload, tokenVars, bridgeVars
  <2>5. CASE WindowStore(c)
    BY <2>5, OutsideTransactions, SameTransactions DEF WindowStore, Return, bridgeVars
  <2>6. CASE AheadRelease(c)
    BY <2>6, OutsideTransactions, SameTransactions DEF AheadRelease, tokenVars, bridgeVars
  <2>7. CASE KickPost(c)
    BY <2>7, OutsideTransactions, SameTransactions DEF KickPost, MutexOwned, bridgeVars
  <2>8. CASE KickNotify(c)
    BY <2>8, OutsideTransactions, SameTransactions
       DEF KickNotify, Return, MutexOwned, bridgeVars
  <2> QED BY <1>1, <2>1, <2>2, <2>3, <2>4, <2>5, <2>6, <2>7, <2>8 DEF UpdateWindow
<1>2. CASE CheckWindow
  <2>1. CASE RunCheckWindow \/ CheckFront \/ NotifyFront
    BY <2>1, OutsideTransactions, SameTransactions
       DEF RunCheckWindow, CheckFront, NotifyFront, tokenVars, bridgeVars
  <2>2. CASE TakeLocksBegin \/ TakeLocksEnd
    BY <2>2, OutsideTransactions, SameTransactions
       DEF TakeLocksBegin, TakeLocksEnd, bridgeVars
  <2>3. CASE TakeOne
    BY <2>3, OutsideTransactions, SameTransactions DEF TakeOne, bridgeVars
  <2>4. CASE TimedWaitTakes \/ Repost
    BY <2>4, OutsideTransactions, SameTransactions DEF TimedWaitTakes, Repost, bridgeVars
  <2>5. CASE TimedWaitFails
    BY <2>5, OutsideTransactions, SameTransactions DEF TimedWaitFails, tokenVars, bridgeVars
  <2> QED BY <1>2, <2>1, <2>2, <2>3, <2>4, <2>5 DEF CheckWindow
<1>3. ASSUME NEW t \in Threads, NEW v \in Time, SyncAt(t, v) PROVE Balance'
  BY <1>3, OutsideTransactions, SameTransactions DEF SyncAt, tokenVars, bridgeVars
<1>4. ASSUME NEW t \in Threads, AheadCheck(t) \/ AheadWait(t) \/ AheadTimeout(t)
      PROVE  Balance'
  BY <1>4, OutsideTransactions, SameTransactions
     DEF AheadCheck, AheadWait, AheadTimeout, tokenVars, bridgeVars
<1>5. ASSUME NEW t \in Threads, NEW b \in Bridges,
             TxnLock(t, b) \/ TxnNotify(t, b) \/ TxnWait(t, b) \/ TxnUnlock(t, b)
      PROVE  Balance'
  <2>1. Handed' = Handed /\ Early' = Early
    <3>1. CASE TxnLock(t, b) BY <3>1 DEF TxnLock, Owners, Handed, Early
    <3>2. CASE TxnNotify(t, b)
      BY <3>2 DEF TxnNotify, Owners, Stages, Working, Handed, Early, bridgeVars
    <3>3. CASE TxnWait(t, b) BY <3>3 DEF TxnWait, Owners, Handed, Early
    <3>4. CASE TxnUnlock(t, b) BY <3>4 DEF TxnUnlock, Owners, Handed, Early
    <3> QED BY <1>5, <3>1, <3>2, <3>3, <3>4
  <2> QED
    BY <1>5, <2>1, SameTransactions DEF TxnLock, TxnNotify, TxnWait, TxnUnlock, tokenVars
<1>6. ASSUME NEW t \in Threads, TxnRelease(t) PROVE Balance'
  <2>1. PICK b \in Bridges : txnMutex[b] = t BY <1>6 DEF TxnRelease, Owners
  <2>2. Cardinality(Handed) \in Nat /\ Cardinality(Early) \in Nat
    BY FS_CardinalityType DEF Balance
  <2>3. txnDone[b] \in {0, 1} BY DEF Stages
  <2>4. CASE txnDone[b] = 0
    <3>1. /\ Handed' = Handed \cup {b} /\ b \notin Handed
          /\ Early' = Early
      BY <1>6, <2>1, <2>4 DEF TxnRelease, Owners, Handed, Early, bridgeVars
    <3>2. IsFiniteSet(Handed') /\ Cardinality(Handed') = Cardinality(Handed) + 1
      BY <3>1, FS_AddElement DEF Balance
    <3> QED BY <1>6, <2>2, <3>1, <3>2 DEF TxnRelease, Balance, TokenSum
  <2>5. CASE txnDone[b] = 1
    <3>1. /\ Early' = Early \ {b} /\ b \in Early
          /\ Handed' = Handed
      BY <1>6, <2>1, <2>5 DEF TxnRelease, Owners, Handed, Early, bridgeVars
    <3>2. IsFiniteSet(Early') /\ Cardinality(Early') = Cardinality(Early) - 1
      BY <3>1, FS_RemoveElement DEF Balance
    <3> QED BY <1>6, <2>2, <3>1, <3>2 DEF TxnRelease, Balance, TokenSum
  <2> QED BY <2>3, <2>4, <2>5
<1>7. ASSUME NEW b \in Bridges, RunTxn(b) PROVE Balance'
  <2>1. Handed' = Handed /\ Early' = Early BY <1>7 DEF RunTxn, Handed, Early
  <2> QED BY <1>7, <2>1, SameTransactions DEF RunTxn, tokenVars
<1>8. ASSUME NEW b \in Bridges, TakeLock(b) PROVE Balance'
  <2>1. Handed' = Handed /\ Early' = Early BY <1>8 DEF TakeLock, Handed, Early
  <2> QED BY <1>8, <2>1, SameTransactions DEF TakeLock
<1>9. ASSUME NEW b \in Bridges, FinishTxn(b) PROVE Balance'
  <2>1. Cardinality(Handed) \in Nat /\ Cardinality(Early) \in Nat
    BY FS_CardinalityType DEF Balance
  <2>2. /\ txnMutex[b] \in Threads /\ txnDone[b] = 0 /\ txnDone'[b] = 1
        /\ pc[txnMutex[b]] \in {"txnRelease", "txnWait"}
    BY <1>9 DEF FinishTxn, Owners, Working, Stages
  <2>3. CASE pc[txnMutex[b]] = "txnRelease"
    <3>1. /\ Early' = Early \cup {b} /\ b \notin Early
          /\ Handed' = Handed
      BY <1>9, <2>2, <2>3 DEF FinishTxn, Handed, Early
    <3>2. IsFiniteSet(Early') /\ Cardinality(Early') = Cardinality(Early) + 1
      BY <3>1, FS_AddElement DEF Balance
    <3> QED BY <1>9, <2>1, <3>1, <3>2 DEF FinishTxn, Balance, TokenSum, tokenVars
  <2>4. CASE pc[txnMutex[b]] = "txnWait"
    <3>1. /\ Handed' = Handed \ {b} /\ b \in Handed
          /\ Early' = Early
      BY <1>9, <2>2, <2>4 DEF FinishTxn, Handed, Early
    <3>2. IsFiniteSet(Handed') /\ Cardinality(Handed') = Cardinality(Handed) - 1
      BY <3>1, FS_RemoveElement DEF Balance
    <3> QED BY <1>9, <2>1, <3>1, <3>2 DEF FinishTxn, Balance, TokenSum, tokenVars
  <2> QED BY <2>2, <2>3, <2>4
<1>10. CASE AcceptUpdates \/ DeltaNotification \/ KernelWakes
  BY <1>10, OutsideTransactions, SameTransactions
     DEF AcceptUpdates, DeltaNotification, KernelWakes, tokenVars, bridgeVars
<1>11. ASSUME NEW e \in Ev, ApplyUpdate(e) PROVE Balance'
  BY <1>11, OutsideTransactions, SameTransactions DEF ApplyUpdate, tokenVars, bridgeVars
<1>12. ASSUME NEW m \in 1 .. MaxTime, AdvanceTime(m) PROVE Balance'
  BY <1>12, OutsideTransactions, SameTransactions DEF AdvanceTime, tokenVars, bridgeVars
<1>13. CASE UNCHANGED vars
  <2>1. Handed' = Handed /\ Early' = Early
    BY <1>13 DEF vars, Handed, Early, bridgeVars
  <2> QED BY <1>13, <2>1, SameTransactions DEF vars, tokenVars
<1> QED
  BY <1>1, <1>2, <1>3, <1>4, <1>5, <1>6, <1>7, <1>8, <1>9, <1>10, <1>11, <1>12, <1>13, Steps

-----------------------------------------------------------------------------
(* Neither simulated time nor the time a thread has synchronised to goes    *)
(* back: a decoupled source stores the time of the kernel, which is never   *)
(* less than what it stored before.                                         *)
LEMMA TimesGrow ==
  ASSUME TypeOK, Delays, [Next]_vars
  PROVE  /\ setup' = setup
         /\ now <= now'
         /\ \A t \in Threads : endTimes[t] <= endTimes'[t]
<1> USE DEF TypeOK, Time, Goto
<1>1. setup' = setup BY DEF Next, ThreadCalls, ThreadGoesOn, KernelGoesOn, FinishTxn, vars
<1>2. ASSUME NEW t \in Threads, NEW v \in Time, SyncAt(t, v)
      PROVE  now <= now' /\ \A u \in Threads : endTimes[u] <= endTimes'[u]
  BY <1>2 DEF SyncAt, Delays
<1>3. ASSUME NEW c \in Callers, UpdateWindow(c) PROVE now' = now /\ endTimes' = endTimes
  BY <1>3 DEF UpdateWindow, ReadTimeStamp, WindowLock, ScanEntry, ScanReload, WindowStore,
              AheadRelease, KickPost, KickNotify, policyVars
<1>4. ASSUME CheckWindow PROVE now' = now /\ endTimes' = endTimes
  BY <1>4 DEF CheckWindow, RunCheckWindow, CheckFront, NotifyFront, TakeLocksBegin,
              TakeOne, TakeLocksEnd, TimedWaitTakes, Repost, TimedWaitFails, policyVars
<1>5. ASSUME NEW t \in Threads, NEW b \in Bridges,
             TxnLock(t, b) \/ TxnNotify(t, b) \/ TxnWait(t, b) \/ TxnUnlock(t, b)
      PROVE  now' = now /\ endTimes' = endTimes
  <2>1. CASE TxnLock(t, b) BY <2>1 DEF TxnLock, policyVars
  <2>2. CASE TxnNotify(t, b) BY <2>2 DEF TxnNotify, policyVars
  <2>3. CASE TxnWait(t, b) BY <2>3 DEF TxnWait, policyVars
  <2>4. CASE TxnUnlock(t, b) BY <2>4 DEF TxnUnlock, policyVars
  <2> QED BY <1>5, <2>1, <2>2, <2>3, <2>4
<1>6. ASSUME NEW t \in Threads,
             AheadCheck(t) \/ AheadWait(t) \/ AheadTimeout(t) \/ TxnRelease(t)
      PROVE  now' = now /\ endTimes' = endTimes
  BY <1>6 DEF AheadCheck, AheadWait, AheadTimeout, TxnRelease, policyVars
<1>7. ASSUME AcceptUpdates \/ DeltaNotification \/ KernelWakes \/ UNCHANGED vars
      PROVE  now' = now /\ endTimes' = endTimes
  BY <1>7 DEF AcceptUpdates, DeltaNotification, KernelWakes, vars, policyVars
<1>8. ASSUME NEW b \in Bridges, RunTxn(b) \/ FinishTxn(b) \/ TakeLock(b)
      PROVE  now' = now /\ endTimes' = endTimes
  BY <1>8 DEF RunTxn, FinishTxn, TakeLock, policyVars
<1>9. ASSUME NEW e \in Ev, ApplyUpdate(e) PROVE now' = now /\ endTimes' = endTimes
  BY <1>9 DEF ApplyUpdate, policyVars
<1>10. ASSUME NEW m \in 1 .. MaxTime, AdvanceTime(m)
       PROVE  now <= now' /\ endTimes' = endTimes
  BY <1>10 DEF AdvanceTime, policyVars
<1> QED
  BY <1>1, <1>2, <1>3, <1>4, <1>5, <1>6, <1>7, <1>8, <1>9, <1>10, Steps

(* Steps that touch neither times nor events, and leave the kernel where it *)
(* is or keep it evaluating.                                                *)
LEMMA SameDelays ==
  ASSUME TypeOK, Delays, UNCHANGED <<setup, now, policyVars, eventVars>>,
         \/ pc'[K] = pc[K]
         \/ pc[K] # "applying" /\ pc'[K] \notin {"applying", "advance"}
  PROVE  Delays'
  BY DEF TypeOK, Delays, Allowed, policyVars, eventVars

(* checkWindowEvent stays notified for a time the kernel may reach. *)
LEMMA DelaysStep == ASSUME TypeOK, Windows, Delays, [Next]_vars, TypeOK' PROVE Delays'
<1>0. /\ setup' = setup
      /\ now <= now'
      /\ \A t \in Threads : endTimes[t] <= endTimes'[t]
  BY TimesGrow
<1> USE <1>0 DEF TypeOK, Delays, Allowed, Goto, Time, Callers, Ev
<1>1. ASSUME NEW c \in Callers, UpdateWindow(c) PROVE Delays'
  <2>1. CASE ReadTimeStamp(c) BY <2>1 DEF ReadTimeStamp, eventVars
  <2>2. CASE WindowLock(c) BY <2>2 DEF WindowLock, Windows, eventVars
  <2>3. ASSUME NEW u \in Threads, ScanEntry(c, u) PROVE Delays'
    BY <2>3 DEF ScanEntry, Latest, eventVars
  <2>4. CASE ScanReload(c) BY <2>4 DEF ScanReload, eventVars
  <2>5. CASE WindowStore(c) BY <2>5 DEF WindowStore, NoScan, Return, eventVars
  <2>6. CASE AheadRelease(c) BY <2>6 DEF AheadRelease, policyVars, eventVars
  <2>7. CASE KickPost(c) BY <2>7 DEF KickPost, policyVars, eventVars
  <2>8. CASE KickNotify(c) BY <2>8 DEF KickNotify, NotifyCheck, Return, policyVars
  <2> QED BY <1>1, <2>1, <2>2, <2>3, <2>4, <2>5, <2>6, <2>7, <2>8 DEF UpdateWindow
<1>2. CASE CheckWindow
  <2>1. CASE RunCheckWindow BY <2>1 DEF RunCheckWindow, policyVars
  <2>2. CASE CheckFront BY <2>2 DEF CheckFront, policyVars, eventVars
  <2>3. CASE NotifyFront BY <2>3 DEF NotifyFront, NotifyCheck, policyVars
  <2>4. CASE TakeLocksBegin \/ TakeOne \/ TakeLocksEnd
    BY <2>4, SameDelays DEF TakeLocksBegin, TakeOne, TakeLocksEnd
  <2>6. CASE TimedWaitTakes \/ Repost
    BY <2>6, SameDelays DEF TimedWaitTakes, Repost
  <2>5. CASE TimedWaitFails BY <2>5 DEF TimedWaitFails, NotifyCheck, policyVars
  <2> QED BY <1>2, <2>1, <2>2, <2>3, <2>4, <2>5, <2>6 DEF CheckWindow
<1>3. ASSUME NEW t \in Threads, NEW v \in Time, SyncAt(t, v) PROVE Delays'
  BY <1>3 DEF SyncAt, eventVars
<1>4. ASSUME NEW t \in Threads,
             AheadCheck(t) \/ AheadWait(t) \/ AheadTimeout(t) \/ TxnRelease(t)
      PROVE  Delays'
  <2>1. CASE AheadCheck(t) \/ AheadWait(t)
    BY <2>1, SameDelays DEF AheadCheck, AheadWait
  <2>2. CASE AheadTimeout(t) \/ TxnRelease(t)
    BY <2>2, SameDelays DEF AheadTimeout, TxnRelease
  <2> QED BY <1>4, <2>1, <2>2
<1>5. ASSUME NEW t \in Threads, NEW b \in Bridges,
             TxnLock(t, b) \/ TxnNotify(t, b) \/ TxnWait(t, b) \/ TxnUnlock(t, b)
      PROVE  Delays'
  <2>1. CASE TxnLock(t, b) BY <2>1 DEF TxnLock, policyVars, eventVars
  <2>2. CASE TxnNotify(t, b) BY <2>2 DEF TxnNotify, policyVars
  <2>3. CASE TxnWait(t, b) BY <2>3 DEF TxnWait, policyVars, eventVars
  <2>4. CASE TxnUnlock(t, b) BY <2>4 DEF TxnUnlock, policyVars, eventVars
  <2> QED BY <1>5, <2>1, <2>2, <2>3, <2>4
<1>6. ASSUME NEW b \in Bridges, RunTxn(b) \/ FinishTxn(b) PROVE Delays'
  <2>1. CASE RunTxn(b) BY <2>1 DEF RunTxn, policyVars
  <2>2. CASE FinishTxn(b) BY <2>2 DEF FinishTxn, policyVars, eventVars
  <2> QED BY <1>6, <2>1, <2>2
<1>7. ASSUME NEW b \in Bridges, TakeLock(b) PROVE Delays'
  BY <1>7 DEF TakeLock, NotifyCheck, policyVars
<1>8. CASE AcceptUpdates BY <1>8 DEF AcceptUpdates, policyVars
<1>9. CASE DeltaNotification BY <1>9 DEF DeltaNotification, Elapse, Never, policyVars
<1>10. CASE KernelWakes BY <1>10 DEF KernelWakes, policyVars, eventVars
<1>11. ASSUME NEW e \in Ev, ApplyUpdate(e) PROVE Delays'
  BY <1>11 DEF ApplyUpdate, DelayOf, Never, policyVars
<1>12. ASSUME NEW m \in 1 .. MaxTime, AdvanceTime(m) PROVE Delays'
  BY <1>12 DEF AdvanceTime, Elapse, Never, policyVars
<1>13. CASE UNCHANGED vars BY <1>13 DEF vars, policyVars, eventVars
<1> QED
  BY <1>1, <1>2, <1>3, <1>4, <1>5, <1>6, <1>7, <1>8, <1>9, <1>10, <1>11, <1>12, <1>13, Steps

-----------------------------------------------------------------------------
(* A transaction in flight stays so until processTxn() has finished it. *)
LEMMA FlightGoesOn ==
  ASSUME TypeOK, TxnInv, InFlight, [Next]_vars, \A b \in Bridges : ~ FinishTxn(b)
  PROVE  InFlight'
<1>1. PICK b \in Bridges, t \in Threads :
        txnMutex[b] = t /\ pc[t] \in {"txnRelease", "txnWait"} /\ txnDone[b] = 0
  BY DEF InFlight
<1> SUFFICES /\ txnMutex'[b] = t /\ txnDone'[b] = 0
             /\ pc'[t] \in {"txnRelease", "txnWait"}
  BY DEF InFlight
<1> USE <1>1 DEF TypeOK, Goto, Callers
<1>2. ASSUME NEW c \in Callers, UpdateWindow(c)
      PROVE  txnMutex'[b] = t /\ txnDone'[b] = 0 /\ pc'[t] = pc[t]
  BY <1>2 DEF UpdateWindow, ReadTimeStamp, WindowLock, ScanEntry, ScanReload, WindowStore,
              AheadRelease, KickPost, KickNotify, bridgeVars
<1>3. ASSUME CheckWindow
      PROVE  txnMutex'[b] = t /\ txnDone'[b] = 0 /\ pc'[t] = pc[t]
  BY <1>3 DEF CheckWindow, RunCheckWindow, CheckFront, NotifyFront, TakeLocksBegin,
              TakeOne, TakeLocksEnd, TimedWaitTakes, Repost, TimedWaitFails, bridgeVars
<1>4. ASSUME NEW u \in Threads, NEW v \in Time, SyncAt(u, v)
      PROVE  txnMutex'[b] = t /\ txnDone'[b] = 0 /\ pc'[t] = pc[t]
  BY <1>4 DEF SyncAt, bridgeVars
<1>5. ASSUME NEW u \in Threads, AheadCheck(u) \/ AheadWait(u) \/ AheadTimeout(u)
      PROVE  txnMutex'[b] = t /\ txnDone'[b] = 0 /\ pc'[t] = pc[t]
  BY <1>5 DEF AheadCheck, AheadWait, AheadTimeout, bridgeVars
<1>6. ASSUME NEW u \in Threads, NEW d \in Bridges,
             TxnLock(u, d) \/ TxnNotify(u, d) \/ TxnWait(u, d) \/ TxnUnlock(u, d)
      PROVE  txnMutex'[b] = t /\ txnDone'[b] = 0 /\ pc'[t] = pc[t]
  <2>1. CASE TxnLock(u, d) BY <2>1 DEF TxnLock
  <2>2. CASE TxnNotify(u, d) BY <2>2 DEF TxnNotify, bridgeVars
  <2>3. CASE TxnWait(u, d) BY <2>3 DEF TxnWait, TxnInv, Owners
  <2>4. CASE TxnUnlock(u, d) BY <2>4 DEF TxnUnlock
  <2> QED BY <1>6, <2>1, <2>2, <2>3, <2>4
<1>7. ASSUME NEW u \in Threads, TxnRelease(u)
      PROVE  /\ txnMutex'[b] = t /\ txnDone'[b] = 0
             /\ pc'[t] \in {"txnRelease", "txnWait"}
  BY <1>7 DEF TxnRelease, bridgeVars
<1>8. ASSUME NEW d \in Bridges, RunTxn(d) \/ TakeLock(d)
      PROVE  txnMutex'[b] = t /\ txnDone'[b] = 0 /\ pc'[t] = pc[t]
  BY <1>8 DEF RunTxn, TakeLock
<1>9. ASSUME AcceptUpdates \/ DeltaNotification \/ KernelWakes
      PROVE  txnMutex'[b] = t /\ txnDone'[b] = 0 /\ pc'[t] = pc[t]
  BY <1>9 DEF AcceptUpdates, DeltaNotification, KernelWakes, bridgeVars
<1>10. ASSUME NEW e \in Ev, ApplyUpdate(e)
       PROVE  txnMutex'[b] = t /\ txnDone'[b] = 0 /\ pc'[t] = pc[t]
  BY <1>10 DEF ApplyUpdate, bridgeVars
<1>11. ASSUME NEW m \in 1 .. MaxTime, AdvanceTime(m)
       PROVE  txnMutex'[b] = t /\ txnDone'[b] = 0 /\ pc'[t] = pc[t]
  BY <1>11 DEF AdvanceTime, bridgeVars
<1>12. ASSUME UNCHANGED vars
       PROVE  txnMutex'[b] = t /\ txnDone'[b] = 0 /\ pc'[t] = pc[t]
  BY <1>12 DEF vars, bridgeVars
<1> QED
  BY <1>2, <1>3, <1>4, <1>5, <1>6, <1>7, <1>8, <1>9, <1>10, <1>11, <1>12, Steps

(* When checkWindow() finds a token that no takeLockMethod() is to take, a  *)
(* transaction is in flight, or another thread is inside of kickLock().     *)
LEMMA SpareToken ==
  ASSUME TypeOK, Balance, pc[K] = "timedWait", canLock > 0, locksToDo = 0
  PROVE  InFlight \/ Kicking
<1>1. Cardinality(Handed) \in Nat /\ Cardinality(Early) \in Nat
  BY FS_CardinalityType DEF Balance
<1>2. Cardinality(Handed) > 0 \/ Kicking
  BY <1>1 DEF TypeOK, Balance, TokenSum, One
<1>3. Cardinality(Handed) > 0 => Handed # {} BY FS_EmptySet
<1>4. Handed # {} => InFlight BY DEF TypeOK, Handed, InFlight
<1> QED BY <1>2, <1>3, <1>4

(* checkWindow() is called again, or a transaction is in flight. *)
LEMMA HeldBackStep ==
  ASSUME TypeOK, MutexOwned, TxnInv, Balance, Delays, HeldBack, [Next]_vars, TypeOK'
  PROVE  HeldBack'
<1>0. ASSUME NEW b \in Bridges, FinishTxn(b) PROVE HeldBack'
  BY <1>0 DEF FinishTxn, HeldBack, TypeOK, Goto, Callers
<1> SUFFICES ASSUME \A b \in Bridges : ~ FinishTxn(b) PROVE HeldBack'
  BY <1>0
<1>f. InFlight => InFlight' BY FlightGoesOn
<1> HIDE DEF InFlight
<1> USE <1>f DEF TypeOK, HeldBack, Goto, Callers, Ev
<1>1. ASSUME NEW c \in Callers, UpdateWindow(c) PROVE HeldBack'
  <2>1. CASE ReadTimeStamp(c) BY <2>1 DEF ReadTimeStamp, Kicking, tokenVars, eventVars
  <2>2. CASE WindowLock(c) BY <2>2 DEF WindowLock, Kicking, eventVars
  <2>3. ASSUME NEW u \in Threads, ScanEntry(c, u) PROVE HeldBack'
    BY <2>3 DEF ScanEntry, Kicking, tokenVars, eventVars
  <2>4. CASE ScanReload(c) BY <2>4 DEF ScanReload, Kicking, tokenVars, eventVars
  <2>5. CASE WindowStore(c) BY <2>5 DEF WindowStore, Return, Kicking, eventVars
  <2>6. CASE AheadRelease(c) BY <2>6 DEF AheadRelease, Kicking, tokenVars, eventVars
  <2>7. CASE KickPost(c) BY <2>7 DEF KickPost, Kicking, eventVars
  <2>8. CASE KickNotify(c) BY <2>8 DEF KickNotify, NotifyCheck, Return
  <2> QED BY <1>1, <2>1, <2>2, <2>3, <2>4, <2>5, <2>6, <2>7, <2>8 DEF UpdateWindow
<1>2. CASE CheckWindow
  <2>1. CASE RunCheckWindow BY <2>1 DEF RunCheckWindow
  <2>2. CASE CheckFront BY <2>2 DEF CheckFront
  <2>3. CASE NotifyFront BY <2>3 DEF NotifyFront, NotifyCheck
  <2>4. CASE TakeLocksBegin \/ TakeOne
    BY <2>4 DEF TakeLocksBegin, TakeOne
  <2>5. CASE TakeLocksEnd BY <2>5 DEF TakeLocksEnd
  <2>6. CASE TimedWaitTakes
    <3>1. Chk \notin async => InFlight \/ Kicking BY <2>6, SpareToken DEF TimedWaitTakes
    <3>2. Kicking => Kicking' BY <2>6 DEF TimedWaitTakes, Kicking
    <3> QED BY <2>6, <3>1, <3>2 DEF TimedWaitTakes, eventVars
  <2>7. CASE Repost
    <3>1. ~ Kicking BY <2>7 DEF Repost, MutexOwned, Kicking
    <3> QED BY <2>7, <3>1 DEF Repost, eventVars
  <2>8. CASE TimedWaitFails BY <2>8 DEF TimedWaitFails, NotifyCheck
  <2> QED BY <1>2, <2>1, <2>2, <2>3, <2>4, <2>5, <2>6, <2>7, <2>8 DEF CheckWindow
<1>3. ASSUME NEW t \in Threads, NEW v \in Time, SyncAt(t, v) PROVE HeldBack'
  BY <1>3 DEF SyncAt, Kicking, tokenVars, eventVars
<1>4. ASSUME NEW t \in Threads, AheadCheck(t) \/ AheadWait(t) \/ AheadTimeout(t)
      PROVE  HeldBack'
  <2>1. CASE AheadCheck(t) BY <2>1 DEF AheadCheck, Kicking, tokenVars, eventVars
  <2>2. CASE AheadWait(t) BY <2>2 DEF AheadWait, Kicking, tokenVars, eventVars
  <2>3. CASE AheadTimeout(t) BY <2>3 DEF AheadTimeout, Kicking, tokenVars, eventVars
  <2> QED BY <1>4, <2>1, <2>2, <2>3
<1>5. ASSUME NEW t \in Threads, NEW b \in Bridges,
             TxnLock(t, b) \/ TxnNotify(t, b) \/ TxnWait(t, b) \/ TxnUnlock(t, b)
      PROVE  HeldBack'
  <2>1. CASE TxnLock(t, b) BY <2>1 DEF TxnLock, Kicking, tokenVars, eventVars
  <2>2. CASE TxnNotify(t, b) BY <2>2 DEF TxnNotify, Kicking, tokenVars
  <2>3. CASE TxnWait(t, b) BY <2>3 DEF TxnWait, Kicking, tokenVars, eventVars
  <2>4. CASE TxnUnlock(t, b) BY <2>4 DEF TxnUnlock, Kicking, tokenVars, eventVars
  <2> QED BY <1>5, <2>1, <2>2, <2>3, <2>4
<1>6. ASSUME NEW t \in Threads, TxnRelease(t) PROVE HeldBack'
  BY <1>6 DEF TxnRelease, Kicking, eventVars
<1>7. ASSUME NEW b \in Bridges, RunTxn(b) \/ TakeLock(b) PROVE HeldBack'
  <2>1. CASE RunTxn(b) BY <2>1 DEF RunTxn
  <2>2. CASE TakeLock(b) BY <2>2 DEF TakeLock, NotifyCheck
  <2> QED BY <1>7, <2>1, <2>2
<1>8. CASE AcceptUpdates BY <1>8 DEF AcceptUpdates
<1>9. CASE DeltaNotification BY <1>9 DEF DeltaNotification, Elapse, Never, Time
<1>10. CASE KernelWakes BY <1>10 DEF KernelWakes, eventVars
<1>11. ASSUME NEW e \in Ev, ApplyUpdate(e) PROVE HeldBack'
  BY <1>11 DEF ApplyUpdate, DelayOf, Never, Time
<1>12. ASSUME NEW m \in 1 .. MaxTime, AdvanceTime(m) PROVE HeldBack'
  BY <1>12 DEF AdvanceTime, Elapse, Never, Time
<1>13. CASE UNCHANGED vars BY <1>13 DEF vars, tokenVars, eventVars, Kicking
<1> QED
  BY <1>1, <1>2, <1>3, <1>4, <1>5, <1>6, <1>7, <1>8, <1>9, <1>10, <1>11, <1>12, <1>13, Steps

-----------------------------------------------------------------------------
(* The state after elaboration satisfies the inductive invariant. *)
LEMMA InitInv == Init => IInv
<1> SUFFICES ASSUME Init PROVE IInv OBVIOUS
<1>1. TypeOK BY TypeInit
<1> USE DEF Init, Callers
<1>2. MutexOwned BY DEF MutexOwned
<1>3. Windows BY DEF Windows, ScanSound, WindowsSound, Stale
<1>4. Stages BY DEF Stages, Pending, Ev
<1>5. Owners BY DEF Owners, Working, Pending, TxnStates, Ev
<1>6. Finished BY DEF Finished
<1>7. Handed = {} /\ Early = {} BY DEF Handed, Early
<1>8. ~ Kicking BY DEF Kicking
<1>9. Balance BY <1>7, <1>8, FS_EmptySet DEF Balance, TokenSum, One
<1>10. Delays BY <1>1 DEF Delays, Allowed, NoScan, Ev, TypeOK, Time
<1>11. HeldBack BY DEF HeldBack, Ev
<1> QED BY <1>1, <1>2, <1>3, <1>4, <1>5, <1>6, <1>9, <1>10, <1>11 DEF IInv

(* The inductive invariant holds in every reachable state. *)
THEOREM Invariance == Spec => []IInv
<1>1. IInv /\ [Next]_vars => IInv'
  BY TypeStep, MutexStep, WindowsStep, TxnStep, BalanceStep, DelaysStep, HeldBackStep
     DEF IInv, TxnInv
<1> QED BY InitInv, <1>1, PTL DEF Spec

(* The windows that update_window() has computed are right, whatever stale   *)
(* time stamp a slow thread computed them with and whatever became of        *)
(* endTimes under its loop.                                                  *)
THEOREM WindowsAreSound == Spec => []WindowsSound
<1>1. IInv => WindowsSound BY DEF IInv, Windows
<1> QED BY Invariance, <1>1, PTL

(* No token leaks: outside of transactions and kickLock(), the tokens in    *)
(* canLock are those that takeLockMethod() is still to take.                *)
THEOREM TokensAreTaken == Spec => []NoTokenLeft
<1>1. IInv => NoTokenLeft
  <2> SUFFICES ASSUME IInv, \A t \in Threads : ~ Busy(t),
                      \A b \in Bridges : proc[b] = "wait", pc[K] # "kicked"
               PROVE  canLock + (IF pc[K] = "repost" THEN 1 ELSE 0) = locksToDo
    BY DEF NoTokenLeft
  <2>1. Handed = {} /\ Early = {} BY DEF IInv, TypeOK, Handed, Early, Busy
  <2>2. pc[K] # "takeLock" BY DEF IInv, Finished
  <2>3. ~ Kicking BY DEF Kicking, Busy, Callers
  <2> QED BY <2>1, <2>2, <2>3, FS_EmptySet DEF IInv, TypeOK, Balance, TokenSum, One
<1> QED BY Invariance, <1>1, PTL

(* The answer that a thread picks up from the bridge is its own. *)
THEOREM AnswersAreOwn == Spec => []OwnAnswer
<1>1. IInv => OwnAnswer BY DEF IInv, Owners, OwnAnswer
<1> QED BY Invariance, <1>1, PTL

(* A thread that leaves setWindow() by its condition is at most a quantum   *)
(* ahead.                                                                   *)
THEOREM ThreadsStayWithinQuantum == Spec => WithinQuantum
<1>1. IInv /\ [Next]_vars =>
        [\A t \in Threads \ setup.decoupled :
           pc[t] = "ahead" /\ pc'[t] = "run" /\ (\A u \in Threads : ~ Stale(u)) =>
             /\ endTimes[t] <= now + Quantum
             /\ \A u \in Threads : endTimes[t] <= endTimes[u] + Quantum]_vars
  <2> SUFFICES ASSUME IInv, [Next]_vars, NEW t \in Threads \ setup.decoupled,
                      pc[t] = "ahead", pc'[t] = "run", \A u \in Threads : ~ Stale(u)
               PROVE  /\ endTimes[t] <= now + Quantum
                      /\ \A u \in Threads : endTimes[t] <= endTimes[u] + Quantum
    OBVIOUS
  <2> USE DEF IInv, TypeOK, Goto, Callers
  <2>1. endTimes[t] <= backWindow + Quantum
    <3>1. ASSUME NEW u \in Threads, AheadCheck(u) PROVE endTimes[t] <= backWindow + Quantum
      BY <3>1 DEF AheadCheck, Time
    <3>2. ASSUME NEW u \in Threads, AheadWait(u) \/ AheadTimeout(u) PROVE FALSE
      BY <3>2 DEF AheadWait, AheadTimeout
    <3>3. ASSUME NEW c \in Callers, UpdateWindow(c) PROVE FALSE
      <4>1. CASE AheadRelease(c) BY <4>1 DEF AheadRelease
      <4> QED BY <3>3, <4>1 DEF UpdateWindow, ReadTimeStamp, WindowLock, ScanEntry,
                ScanReload, WindowStore, KickPost, KickNotify, Return
    <3>4. ASSUME CheckWindow PROVE FALSE
      BY <3>4 DEF CheckWindow, RunCheckWindow, CheckFront, NotifyFront, TakeLocksBegin,
                  TakeOne, TakeLocksEnd, TimedWaitTakes, Repost, TimedWaitFails
    <3>5. ASSUME NEW u \in Threads, NEW v \in Time, SyncAt(u, v) PROVE FALSE
      BY <3>5 DEF SyncAt
    <3>6. ASSUME NEW u \in Threads, NEW b \in Bridges,
                 TxnLock(u, b) \/ TxnNotify(u, b) \/ TxnWait(u, b) \/ TxnUnlock(u, b)
          PROVE  FALSE
      BY <3>6 DEF TxnLock, TxnNotify, TxnWait, TxnUnlock
    <3>7. ASSUME NEW u \in Threads, TxnRelease(u) PROVE FALSE BY <3>7 DEF TxnRelease
    <3>8. ASSUME NEW b \in Bridges, RunTxn(b) \/ FinishTxn(b) \/ TakeLock(b) PROVE FALSE
      BY <3>8 DEF RunTxn, FinishTxn, TakeLock
    <3>9. ASSUME AcceptUpdates \/ DeltaNotification \/ KernelWakes PROVE FALSE
      BY <3>9 DEF AcceptUpdates, DeltaNotification, KernelWakes
    <3>10. ASSUME NEW e \in Ev, ApplyUpdate(e) PROVE FALSE BY <3>10 DEF ApplyUpdate
    <3>11. ASSUME NEW m \in 1 .. MaxTime, AdvanceTime(m) PROVE FALSE
      BY <3>11 DEF AdvanceTime
    <3>12. ASSUME UNCHANGED vars PROVE FALSE BY <3>12 DEF vars
    <3> QED
      BY <3>1, <3>2, <3>3, <3>4, <3>5, <3>6, <3>7, <3>8, <3>9, <3>10, <3>11, <3>12, Steps
  <2>2. WindowsSound BY DEF Windows
  <2> QED BY <2>1, <2>2 DEF WindowsSound, Time
<1> QED BY Invariance, <1>1, PTL DEF Spec, WithinQuantum

(* Time passes beyond what the threads have synchronised to only while a    *)
(* transaction is in flight.                                                *)
THEOREM KernelIsHeldBack == Spec => NoRunAhead
<1>1. IInv /\ [Next]_vars =>
        [now' # now =>
           \/ InFlight
           \/ now' <= Quantum
           \/ \E t \in Threads : now' <= endTimes[t]]_vars
  <2> SUFFICES ASSUME IInv, [Next]_vars, now' # now, ~ InFlight
               PROVE  now' <= Quantum \/ \E t \in Threads : now' <= endTimes[t]
    OBVIOUS
  <2>1. PICK m \in 1 .. MaxTime : AdvanceTime(m)
    BY Steps DEF IInv, UpdateWindow, ReadTimeStamp, WindowLock, ScanEntry, ScanReload,
         WindowStore, AheadRelease, KickPost, KickNotify, CheckWindow, RunCheckWindow,
         CheckFront, NotifyFront, TakeLocksBegin, TakeOne, TakeLocksEnd, TimedWaitTakes,
         Repost, TimedWaitFails, SyncAt, AheadCheck, AheadWait, AheadTimeout, TxnLock,
         TxnNotify, TxnWait, TxnUnlock, TxnRelease, RunTxn, FinishTxn, TakeLock,
         AcceptUpdates, DeltaNotification, KernelWakes, ApplyUpdate, vars
  <2>2. due[Chk] # Never /\ m <= due[Chk] /\ due[Chk] # 0
    BY <2>1 DEF AdvanceTime, IInv, HeldBack, TypeOK, Ev
  <2>3. Allowed(now + due[Chk]) BY <2>2 DEF IInv, Delays
  <2> QED BY <2>1, <2>2, <2>3 DEF AdvanceTime, Allowed, IInv, TypeOK, Time, Ev, Never
<1> QED BY Invariance, <1>1, PTL DEF Spec, NoRunAhead

-----------------------------------------------------------------------------
(* checkWindowEvent.notify(d) is a request of the abstract event. *)
LEMMA NotifyIsRequest ==
  ASSUME TypeOK, NEW d \in Time, NotifyCheck(d) PROVE Event!Next
<1>1. Event!Request(Chk, d)
  BY DEF NotifyCheck, Event!Request, DelayOf, Ev
<1> QED BY <1>1 DEF Event!Next, Ev, Time

(* Where no event is touched, the abstract events stutter. *)
LEMMA EventsStutter ==
  ASSUME UNCHANGED eventVars PROVE UNCHANGED Event!vars
  BY DEF eventVars, Event!vars, DelayOf

(* The kernel and the threads use their events as AsyncEventSpec allows. *)
THEOREM EventsAreAsync == Spec => UsesAsyncEvents
<1>1. IInv /\ [Next]_vars => [Event!Next]_(Event!vars)
  <2> SUFFICES ASSUME IInv, [Next]_vars, ~ UNCHANGED Event!vars PROVE Event!Next
    OBVIOUS
  <2> USE DEF IInv
  <2>0. ~ UNCHANGED eventVars BY EventsStutter
  <2>1. ASSUME NEW c \in Callers, UpdateWindow(c) PROVE Event!Next
    <3>1. KickNotify(c)
      BY <2>0, <2>1 DEF UpdateWindow, ReadTimeStamp, WindowLock, ScanEntry, ScanReload,
           WindowStore, AheadRelease, KickPost
    <3> QED BY <3>1, NotifyIsRequest DEF KickNotify, Time
  <2>2. ASSUME CheckWindow PROVE Event!Next
    <3>1. CASE RunCheckWindow
      <4>1. UNCHANGED <<async, upd, checkDelay, due>> BY <3>1 DEF RunCheckWindow
      <4>2. UNCHANGED Event!vars BY <4>1 DEF Event!vars, DelayOf
      <4> QED BY <4>2
    <3>2. CASE NotifyFront
      BY <3>2, NotifyIsRequest DEF NotifyFront, TypeOK, Time
    <3>3. CASE TimedWaitFails BY <3>3, NotifyIsRequest DEF TimedWaitFails, Time
    <3> QED BY <2>0, <2>2, <3>1, <3>2, <3>3 DEF CheckWindow, CheckFront, TakeLocksBegin,
              TakeOne, TakeLocksEnd, TimedWaitTakes, Repost
  <2>3. ASSUME NEW t \in Threads, NEW b \in Bridges,
               TxnLock(t, b) \/ TxnNotify(t, b) \/ TxnWait(t, b) \/ TxnUnlock(t, b)
        PROVE  Event!Next
    <3>1. TxnNotify(t, b) BY <2>0, <2>3 DEF TxnLock, TxnWait, TxnUnlock
    <3>2. Event!Request(b, 0)
      BY <3>1 DEF TxnNotify, Event!Request, DelayOf, Ev
    <3> QED BY <3>2 DEF Event!Next, Ev
  <2>4. ASSUME NEW b \in Bridges, RunTxn(b) \/ FinishTxn(b) \/ TakeLock(b)
        PROVE  Event!Next
    <3>1. CASE RunTxn(b)
      <4>1. UNCHANGED <<async, upd, checkDelay, due>> BY <3>1 DEF RunTxn
      <4>2. UNCHANGED Event!vars BY <4>1 DEF Event!vars, DelayOf
      <4> QED BY <4>2
    <3>2. CASE TakeLock(b) BY <3>2, NotifyIsRequest DEF TakeLock, Time
    <3> QED BY <2>0, <2>4, <3>1, <3>2 DEF FinishTxn
  <2>5. ASSUME AcceptUpdates PROVE FALSE
    <3>1. UNCHANGED <<async \cup upd, checkDelay, due>>
      BY <2>5 DEF AcceptUpdates, Delays
    <3>2. UNCHANGED Event!vars BY <3>1 DEF Event!vars, DelayOf
    <3> QED BY <3>2
  <2>6. ASSUME NEW e \in Ev, ApplyUpdate(e) PROVE Event!Next
    <3>1. Event!Apply(e)
      BY <2>6 DEF ApplyUpdate, Event!Apply, DelayOf, TypeOK
    <3> QED BY <3>1 DEF Event!Next
  <2>7. ASSUME DeltaNotification PROVE Event!Next
    <3>1. Event!Elapse(0)
      BY <2>7 DEF DeltaNotification, Elapse, Event!Elapse, Event!Never, DelayOf, Never,
                  TypeOK
    <3> QED BY <3>1 DEF Event!Next
  <2>8. ASSUME NEW m \in 1 .. MaxTime, AdvanceTime(m) PROVE Event!Next
    <3>1. Event!Elapse(m)
      BY <2>8 DEF AdvanceTime, Elapse, Event!Elapse, Event!Never, DelayOf, Never
    <3> QED BY <3>1 DEF Event!Next
  <2>9. ASSUME KernelWakes PROVE FALSE BY <2>0, <2>9 DEF KernelWakes
  <2>10. ASSUME NEW t \in Threads, NEW v \in Time, SyncAt(t, v) PROVE FALSE
    BY <2>0, <2>10 DEF SyncAt
  <2>11. ASSUME NEW t \in Threads,
                AheadCheck(t) \/ AheadWait(t) \/ AheadTimeout(t) \/ TxnRelease(t)
         PROVE  FALSE
    BY <2>0, <2>11 DEF AheadCheck, AheadWait, AheadTimeout, TxnRelease
  <2>12. ASSUME UNCHANGED vars PROVE FALSE BY <2>0, <2>12 DEF vars
  <2> QED
    BY <2>1, <2>2, <2>3, <2>4, <2>5, <2>6, <2>7, <2>8, <2>9, <2>10, <2>11, <2>12, Steps
<1> QED BY Invariance, <1>1, PTL DEF Spec, UsesAsyncEvents

=============================================================================
