-------------------------- MODULE AsyncEventProofs --------------------------
(***************************************************************************)
(* Proofs about gs_event_async for every number of threads and events.     *)
(***************************************************************************)
EXTENDS AsyncEvent, FiniteSetTheorems, TLAPS

(***************************************************************************)
(* The inductive invariant.  The balance of tokens needs only that the     *)
(* sets it counts are finite.  That no wake-up is lost needs to know who   *)
(* owns which local_mutex, and what is left in the kernel's queues in each *)
(* of its phases.                                                          *)
(***************************************************************************)
Balance ==
  /\ IsFiniteSet(Tokens)
  /\ IsFiniteSet(Posted)
  /\ TokensBalance

(* A local_mutex has an owner that is inside notify() or update(), and no   *)
(* thread owns two.                                                         *)
Ownership ==
  /\ pc[K] # "idle" => kpc = "process"
  /\ \A e \in Events :
       mutex[e] # Free => \/ pc[mutex[e]] # "idle"
                          \/ mutex[e] = K /\ kpc \in {"apply", "drain"}
  /\ \A e, f \in Events : mutex[e] = mutex[f] /\ mutex[e] # Free => e = f

UpdatePhase == {"update", "apply", "drain"}

(* What the kernel's queues hold in each phase. *)
Phases ==
  /\ kpc \in UpdatePhase \cup {"notification", "advance"} => runnable = {}
  /\ kpc \notin UpdatePhase => upd = {}
  /\ kpc = "apply" => \A e \in Events : mutex[e] = K => e \in upd

(* The helper process runs, is runnable or has its event notified. *)
HelperAlive ==
  \/ kpc \in {"helper", "callback", "wait", "repost"}
  \/ Helper \in runnable
  \/ helperEvt # Never

(* While the kernel sleeps, a request has its token or is about to get it. *)
Asleep ==
  kpc = "wait" =>
    /\ runnable = {}
    /\ \A e \in Events : evt[e] = Never
    /\ \A e \in async :
         \/ outstanding[e] > 0
         \/ \E c \in Callers : mutex[e] = c /\ pc[c] \in {"post", "count"}

IInv == TypeOK /\ Balance /\ Ownership /\ Phases /\ HelperAlive /\ Asleep

-----------------------------------------------------------------------------
USE ThreadAssumption, EventAssumption, DelayAssumption, OutstandingAssumption
    DEF Callers

(* Every step of the specification keeps the variables' types. *)
LEMMA TypeStep == ASSUME TypeOK, [Next]_vars PROVE TypeOK'
<1> USE DEF TypeOK, Times, Never, KernelStates
<1>1. ASSUME NEW c \in Callers, Notify(c) PROVE TypeOK'
  BY <1>1 DEF Notify, NotifyFinish, NotifyLock, NotifyRequest, NotifyPost,
              NotifyUnlock, kernelVars
<1>2. CASE Kernel
  <2>1. ASSUME NEW e \in Events, RunProcess(e) PROVE TypeOK'
    BY <2>1 DEF RunProcess, notifyVars
  <2>2. CASE ProcessReturns BY <2>2 DEF ProcessReturns, notifyVars
  <2>3. CASE RunHelper BY <2>3 DEF RunHelper, notifyVars
  <2>4. ASSUME NEW t \in Times, HelperFollows(t) PROVE TypeOK'
    BY <2>4 DEF HelperFollows, notifyVars
  <2>5. CASE HelperCallsBack BY <2>5 DEF HelperCallsBack, notifyVars
  <2>6. CASE CallbackChecks BY <2>6 DEF CallbackChecks, notifyVars
  <2>7. CASE CallbackWait BY <2>7 DEF CallbackWait, notifyVars
  <2>8. CASE CallbackRepost BY <2>8 DEF CallbackRepost, notifyVars
  <2>9. CASE AcceptUpdates BY <2>9 DEF AcceptUpdates
  <2>10. ASSUME NEW e \in Events, UpdateApply(e) PROVE TypeOK'
    BY <2>10 DEF UpdateApply, Earlier, notifyVars
  <2>11. ASSUME NEW e \in Events, UpdateDrain(e) PROVE TypeOK'
    BY <2>11 DEF UpdateDrain, kernelVars
  <2>12. ASSUME NEW e \in Events, UpdateUnlock(e) PROVE TypeOK'
    BY <2>12 DEF UpdateUnlock
  <2>13. CASE UpdatesDone BY <2>13 DEF UpdatesDone, notifyVars
  <2>14. CASE DeltaNotification
    BY <2>14 DEF DeltaNotification, Elapse, After, notifyVars
  <2>15. ASSUME NEW m \in Times, AdvanceTime(m) PROVE TypeOK'
    BY <2>15 DEF AdvanceTime, Elapse, After, notifyVars
  <2> QED
    BY <1>2, <2>1, <2>2, <2>3, <2>4, <2>5, <2>6, <2>7, <2>8, <2>9, <2>10,
       <2>11, <2>12, <2>13, <2>14, <2>15 DEF Kernel
<1>3. ASSUME NEW e \in Events, UpdateLock(e) PROVE TypeOK'
  BY <1>3 DEF UpdateLock
<1>4. CASE UNCHANGED vars BY <1>4 DEF vars
<1> QED BY <1>1, <1>2, <1>3, <1>4 DEF Next

-----------------------------------------------------------------------------
(* The tokens of e grow by one when outstanding[e] does. *)
LEMMA TokensGrow ==
  ASSUME TypeOK, NEW e \in Events,
         outstanding' = [outstanding EXCEPT ![e] = @ + 1]
  PROVE  /\ Tokens' = Tokens \cup {<<e, outstanding[e] + 1>>}
         /\ <<e, outstanding[e] + 1>> \notin Tokens
  BY DEF TypeOK, Tokens

(* The tokens of e shrink by one when outstanding[e] does. *)
LEMMA TokensShrink ==
  ASSUME TypeOK, NEW e \in Events, outstanding[e] > 0,
         outstanding' = [outstanding EXCEPT ![e] = @ - 1]
  PROVE  /\ Tokens' = Tokens \ {<<e, outstanding[e]>>}
         /\ <<e, outstanding[e]>> \in Tokens
  BY DEF TypeOK, Tokens

(* A step that moves no token keeps the balance. *)
LEMMA BalanceUnchanged ==
  ASSUME Balance, UNCHANGED <<outstanding, sem>>, Posted' = Posted, Held' = Held
  PROVE  Balance'
  BY DEF Balance, TokensBalance, Tokens

(* Every step keeps the balance of the semaphore's tokens. *)
LEMMA BalanceStep == ASSUME TypeOK, Balance, [Next]_vars PROVE Balance'
<1>1. ASSUME NEW c \in Callers, Notify(c) PROVE Balance'
  <2>1. ASSUME NEW e \in Events, NotifyLock(c, e) PROVE Balance'
    <3>1. Posted' = Posted BY <2>1 DEF NotifyLock, Posted, TypeOK
    <3>2. Held' = Held BY <2>1 DEF NotifyLock, Held, kernelVars
    <3> QED BY <2>1, <3>1, <3>2, BalanceUnchanged DEF NotifyLock
  <2>2. ASSUME NEW e \in Events, NEW d \in 0 .. MaxDelay, NotifyRequest(c, e, d)
        PROVE Balance'
    <3>1. Posted' = Posted BY <2>2 DEF NotifyRequest, Posted, TypeOK
    <3>2. Held' = Held BY <2>2 DEF NotifyRequest, Held, kernelVars
    <3> QED BY <2>2, <3>1, <3>2, BalanceUnchanged DEF NotifyRequest
  <2>3. CASE NotifyPost(c)
    <3>1. Posted' = Posted \cup {c} /\ c \notin Posted
      BY <2>3 DEF NotifyPost, Posted, TypeOK
    <3>2. IsFiniteSet(Posted') /\ Cardinality(Posted') = Cardinality(Posted) + 1
      BY <3>1, FS_AddElement DEF Balance
    <3>3. sem' = sem + 1 /\ Tokens' = Tokens /\ Held' = Held
      BY <2>3 DEF NotifyPost, Tokens, Held, kernelVars
    <3>4. Cardinality(Tokens) \in Nat /\ Cardinality(Posted) \in Nat
      BY FS_CardinalityType DEF Balance
    <3> QED BY <3>2, <3>3, <3>4 DEF Balance, TokensBalance, TypeOK, Held
  <2>4. ASSUME NEW e \in Events, NotifyUnlock(c, e) PROVE Balance'
    <3>1. Posted' = Posted \ {c} /\ c \in Posted
      BY <2>4 DEF NotifyUnlock, Posted, TypeOK
    <3>2. IsFiniteSet(Posted') /\ Cardinality(Posted') = Cardinality(Posted) - 1
      BY <3>1, FS_RemoveElement DEF Balance
    <3>3. /\ Tokens' = Tokens \cup {<<e, outstanding[e] + 1>>}
          /\ <<e, outstanding[e] + 1>> \notin Tokens
      BY <2>4, TokensGrow DEF NotifyUnlock
    <3>4. IsFiniteSet(Tokens') /\ Cardinality(Tokens') = Cardinality(Tokens) + 1
      BY <3>3, FS_AddElement DEF Balance
    <3>5. sem' = sem /\ Held' = Held BY <2>4 DEF NotifyUnlock, Held, kernelVars
    <3>6. Cardinality(Tokens) \in Nat /\ Cardinality(Posted) \in Nat
      BY FS_CardinalityType DEF Balance
    <3> QED BY <3>2, <3>4, <3>5, <3>6 DEF Balance, TokensBalance, TypeOK, Held
  <2> QED BY <1>1, <2>1, <2>2, <2>3, <2>4 DEF Notify, NotifyFinish
<1>2. CASE CallbackWait
  <2>1. Tokens' = Tokens /\ Posted' = Posted /\ Held = 0 /\ Held' = 1
    BY <1>2 DEF CallbackWait, notifyVars, Tokens, Posted, Held
  <2>2. Cardinality(Tokens) \in Nat /\ Cardinality(Posted) \in Nat
    BY FS_CardinalityType DEF Balance
  <2> QED BY <1>2, <2>1, <2>2 DEF CallbackWait, Balance, TokensBalance, TypeOK
<1>3. CASE CallbackRepost
  <2>1. Tokens' = Tokens /\ Posted' = Posted /\ Held = 1 /\ Held' = 0
    BY <1>3 DEF CallbackRepost, notifyVars, Tokens, Posted, Held
  <2>2. Cardinality(Tokens) \in Nat /\ Cardinality(Posted) \in Nat
    BY FS_CardinalityType DEF Balance
  <2> QED BY <1>3, <2>1, <2>2 DEF CallbackRepost, Balance, TokensBalance, TypeOK
<1>4. ASSUME NEW e \in Events, UpdateDrain(e) PROVE Balance'
  <2>1. Posted' = Posted /\ Held' = 0 /\ Held = 0
    BY <1>4 DEF UpdateDrain, kernelVars, Posted, Held
  <2>2. /\ Tokens' = Tokens \ {<<e, outstanding[e]>>}
        /\ <<e, outstanding[e]>> \in Tokens
    BY <1>4, TokensShrink DEF UpdateDrain
  <2>3. IsFiniteSet(Tokens') /\ Cardinality(Tokens') = Cardinality(Tokens) - 1
    BY <2>2, FS_RemoveElement DEF Balance
  <2>4. Cardinality(Tokens) \in Nat /\ Cardinality(Posted) \in Nat
    BY FS_CardinalityType DEF Balance
  <2> QED BY <1>4, <2>1, <2>3, <2>4
         DEF UpdateDrain, Balance, TokensBalance, TypeOK
<1>5. ASSUME UNCHANGED <<outstanding, sem, pc>>, kpc # "repost", kpc' # "repost"
      PROVE  Balance'
  BY <1>5, BalanceUnchanged DEF Posted, Held
<1>6. ASSUME Kernel, ~ CallbackWait, ~ CallbackRepost,
             ~ \E e \in Events : UpdateDrain(e)
      PROVE  Balance'
  BY <1>5, <1>6 DEF Kernel, notifyVars, RunProcess, ProcessReturns, RunHelper,
     HelperFollows, HelperCallsBack, CallbackChecks, AcceptUpdates, UpdateApply,
     UpdateUnlock, UpdatesDone, DeltaNotification, AdvanceTime
<1>7. ASSUME NEW e \in Events, UpdateLock(e) PROVE Balance'
  BY <1>5, <1>7 DEF UpdateLock
<1>8. CASE UNCHANGED vars
  BY <1>8, BalanceUnchanged DEF vars, Posted, Held
<1> QED BY <1>1, <1>2, <1>3, <1>4, <1>6, <1>7, <1>8 DEF Next

-----------------------------------------------------------------------------
(* Every step keeps the mutexes owned by one caller each. *)
LEMMA OwnershipStep == ASSUME TypeOK, Ownership, [Next]_vars PROVE Ownership'
<1> USE DEF TypeOK, Ownership
<1>1. ASSUME NEW c \in Callers, NEW e \in Events, NotifyLock(c, e)
      PROVE  Ownership'
  BY <1>1 DEF NotifyLock, MayCall, kernelVars
<1>2. ASSUME NEW c \in Callers, NEW e \in Events, NEW d \in 0 .. MaxDelay,
             NotifyRequest(c, e, d)
      PROVE  Ownership'
  BY <1>2 DEF NotifyRequest, kernelVars
<1>3. ASSUME NEW c \in Callers, NotifyPost(c) PROVE Ownership'
  BY <1>3 DEF NotifyPost, kernelVars
<1>4. ASSUME NEW c \in Callers, NEW e \in Events, NotifyUnlock(c, e)
      PROVE  Ownership'
  BY <1>4 DEF NotifyUnlock, kernelVars
<1>5. ASSUME NEW e \in Events, UpdateLock(e) PROVE Ownership'
  BY <1>5 DEF UpdateLock
<1>6. ASSUME NEW e \in Events, UpdateUnlock(e) PROVE Ownership'
  BY <1>6 DEF UpdateUnlock
<1>7. ASSUME Kernel, ~ \E e \in Events : UpdateUnlock(e) PROVE Ownership'
  BY <1>7 DEF Kernel, kernelVars, notifyVars, RunProcess, ProcessReturns,
     RunHelper, HelperFollows, HelperCallsBack, CallbackChecks, CallbackWait,
     CallbackRepost, AcceptUpdates, UpdateApply, UpdateDrain, UpdatesDone,
     DeltaNotification, AdvanceTime
<1>8. CASE UNCHANGED vars BY <1>8 DEF vars
<1> QED BY <1>1, <1>2, <1>3, <1>4, <1>5, <1>6, <1>7, <1>8
       DEF Next, Notify, NotifyFinish

(* Every step keeps the kernel's queues in phase. *)
LEMMA PhasesStep ==
  ASSUME TypeOK, Ownership, Phases, [Next]_vars PROVE Phases'
<1> USE DEF TypeOK, Phases, UpdatePhase
<1>1. ASSUME NEW c \in Callers, Notify(c) PROVE Phases'
  BY <1>1 DEF Notify, NotifyFinish, NotifyLock, NotifyRequest, NotifyPost,
              NotifyUnlock, MayCall, kernelVars
<1>2. ASSUME NEW e \in Events, UpdateLock(e) PROVE Phases'
  BY <1>2 DEF UpdateLock, Ownership
<1>3. ASSUME NEW e \in Events, UpdateApply(e) PROVE Phases'
  BY <1>3 DEF UpdateApply, notifyVars
<1>4. ASSUME Kernel, ~ \E e \in Events : UpdateApply(e) PROVE Phases'
  BY <1>4 DEF Kernel, kernelVars, notifyVars, RunProcess, ProcessReturns,
     RunHelper, HelperFollows, HelperCallsBack, CallbackChecks, CallbackWait,
     CallbackRepost, AcceptUpdates, UpdateDrain, UpdateUnlock, UpdatesDone,
     DeltaNotification, AdvanceTime
<1>5. CASE UNCHANGED vars BY <1>5 DEF vars
<1> QED BY <1>1, <1>2, <1>3, <1>4, <1>5 DEF Next

(* Every step keeps the helper process alive. *)
LEMMA HelperStep ==
  ASSUME TypeOK, Phases, HelperAlive, [Next]_vars PROVE HelperAlive'
<1> USE DEF HelperAlive
<1>1. ASSUME NEW c \in Callers, Notify(c) PROVE HelperAlive'
  BY <1>1 DEF Notify, NotifyFinish, NotifyLock, NotifyRequest, NotifyPost,
              NotifyUnlock, kernelVars
<1>2. ASSUME NEW t \in Times, HelperFollows(t) PROVE HelperAlive'
  BY <1>2 DEF HelperFollows, Pending, IsTimeToPending, Never, Times, TypeOK
<1>3. CASE DeltaNotification
  BY <1>3 DEF DeltaNotification, Elapse, After, Never, Times, TypeOK, Phases
<1>4. ASSUME NEW m \in Times, AdvanceTime(m) PROVE HelperAlive'
  BY <1>4 DEF AdvanceTime, Elapse, After, Never, Times, TypeOK, Phases
<1>5. ASSUME NEW e \in Events, RunProcess(e) PROVE HelperAlive'
  BY <1>5 DEF RunProcess
<1>6. ASSUME Kernel, ~ \E t \in Times : HelperFollows(t), ~ DeltaNotification,
             ~ \E m \in Times : AdvanceTime(m),
             ~ \E e \in Events : RunProcess(e)
      PROVE  HelperAlive'
  BY <1>6 DEF Kernel, kernelVars, ProcessReturns, RunHelper, HelperCallsBack,
     CallbackChecks, CallbackWait, CallbackRepost, AcceptUpdates, UpdateApply,
     UpdateDrain, UpdateUnlock, UpdatesDone, Never
<1>7. ASSUME NEW e \in Events, UpdateLock(e) PROVE HelperAlive'
  BY <1>7 DEF UpdateLock
<1>8. CASE UNCHANGED vars BY <1>8 DEF vars
<1> QED BY <1>1, <1>2, <1>3, <1>4, <1>5, <1>6, <1>7, <1>8 DEF Next

(* Every step keeps a sleeping kernel within reach of a token. *)
LEMMA AsleepStep ==
  ASSUME TypeOK, Ownership, Asleep, [Next]_vars PROVE Asleep'
<1> USE DEF TypeOK, Asleep
<1>1. ASSUME NEW c \in Callers, NEW e \in Events, NotifyLock(c, e)
      PROVE  Asleep'
  BY <1>1 DEF NotifyLock, kernelVars
<1>2. ASSUME NEW c \in Callers, NEW e \in Events, NEW d \in 0 .. MaxDelay,
             NotifyRequest(c, e, d)
      PROVE  Asleep'
  BY <1>2 DEF NotifyRequest, kernelVars
<1>3. ASSUME NEW c \in Callers, NotifyPost(c) PROVE Asleep'
  BY <1>3 DEF NotifyPost, kernelVars
<1>4. ASSUME NEW c \in Callers, NEW e \in Events, NotifyUnlock(c, e)
      PROVE  Asleep'
  BY <1>4 DEF NotifyUnlock, kernelVars, Ownership
<1>5. CASE CallbackChecks
  BY <1>5 DEF CallbackChecks, Pending, PendingNow, notifyVars
<1>6. ASSUME Kernel, ~ CallbackChecks PROVE Asleep'
  BY <1>6 DEF Kernel, kernelVars, RunProcess, ProcessReturns, RunHelper,
     HelperFollows, HelperCallsBack, CallbackWait, CallbackRepost,
     AcceptUpdates, UpdateApply, UpdateDrain, UpdateUnlock, UpdatesDone,
     DeltaNotification, AdvanceTime
<1>7. ASSUME NEW e \in Events, UpdateLock(e) PROVE Asleep'
  BY <1>7 DEF UpdateLock
<1>8. CASE UNCHANGED vars BY <1>8 DEF vars
<1> QED BY <1>1, <1>2, <1>3, <1>4, <1>5, <1>6, <1>7, <1>8
       DEF Next, Notify, NotifyFinish

(* The initial states satisfy the inductive invariant. *)
LEMMA InitInv == Init => IInv
<1> SUFFICES ASSUME Init PROVE IInv OBVIOUS
<1>1. TypeOK BY DEF Init, TypeOK, Times, Never, KernelStates
<1>2. Tokens = {} /\ Posted = {} /\ Held = 0
  BY DEF Init, Tokens, Posted, Held
<1>3. Balance BY <1>2, FS_EmptySet DEF Balance, TokensBalance, Init
<1>4. Ownership /\ Phases /\ HelperAlive /\ Asleep
  BY DEF Init, Ownership, Phases, UpdatePhase, HelperAlive, Asleep
<1> QED BY <1>1, <1>3, <1>4 DEF IInv

(* The inductive invariant holds in every reachable state. *)
THEOREM Invariance == Spec => []IInv
<1>1. IInv /\ [Next]_vars => IInv'
  BY TypeStep, BalanceStep, OwnershipStep, PhasesStep, HelperStep, AsleepStep
     DEF IInv
<1> QED BY InitInv, <1>1, PTL DEF Spec

(* Every variable keeps its type. *)
THEOREM TypeCorrect == Spec => []TypeOK
<1>1. IInv => TypeOK BY DEF IInv
<1> QED BY Invariance, <1>1, PTL

(* No token of global_semaphore is lost or left over. *)
THEOREM TokensAreBalanced == Spec => []TokensBalance
<1>1. IInv => TokensBalance BY DEF IInv, Balance
<1> QED BY Invariance, <1>1, PTL

(* update() never blocks on the semaphore while it holds local_mutex: the   *)
(* outstanding notification it is about to take back is one of the tokens.  *)
THEOREM UpdateDoesNotBlock == Spec => []UpdateNeverBlocks
<1>1. IInv => UpdateNeverBlocks
  <2> SUFFICES ASSUME IInv, NEW e \in Events, kpc = "drain", outstanding[e] > 0
               PROVE  sem > 0
    BY DEF UpdateNeverBlocks
  <2>1. <<e, outstanding[e]>> \in Tokens BY DEF IInv, TypeOK, Tokens
  <2>2. Cardinality(Tokens) \in Nat \ {0}
    BY <2>1, FS_EmptySet, FS_CardinalityType DEF IInv, Balance
  <2>3. Cardinality(Posted) \in Nat BY FS_CardinalityType DEF IInv, Balance
  <2>4. Held = 0 BY DEF Held
  <2> QED BY <2>2, <2>3, <2>4 DEF IInv, Balance, TokensBalance, TypeOK
<1> QED BY Invariance, <1>1, PTL

(* The kernel never sleeps on work it could do: with no token in the        *)
(* semaphore nothing is outstanding and nobody has posted, so by Asleep any *)
(* request left belongs to a notify() that is about to post.                *)
THEOREM NoWakeupIsLost == Spec => []NoLostWakeup
<1>1. IInv => NoLostWakeup
  <2> SUFFICES ASSUME IInv, kpc = "wait", sem = 0
               PROVE  /\ runnable = {} /\ upd = {}
                      /\ \A e \in Events : evt[e] = Never
                      /\ \A e \in async : \E c \in Callers :
                           mutex[e] = c /\ pc[c] = "post"
    BY DEF NoLostWakeup
  <2>1. Cardinality(Tokens) \in Nat /\ Cardinality(Posted) \in Nat
    BY FS_CardinalityType DEF IInv, Balance
  <2>2. Cardinality(Tokens) = 0 /\ Cardinality(Posted) = 0
    BY <2>1 DEF IInv, Balance, TokensBalance, Held
  <2>3. Tokens = {} /\ Posted = {} BY <2>2, FS_EmptySet DEF IInv, Balance
  <2>4. \A e \in Events : ~ (outstanding[e] > 0)
    <3>1. ASSUME NEW e \in Events, outstanding[e] > 0 PROVE FALSE
      <4>1. <<e, outstanding[e]>> \in Tokens BY <3>1 DEF IInv, TypeOK, Tokens
      <4> QED BY <4>1, <2>3
    <3> QED BY <3>1
  <2>5. \A c \in Callers : pc[c] # "count" BY <2>3 DEF Posted
  <2> QED BY <2>4, <2>5 DEF IInv, Asleep, Phases, UpdatePhase, TypeOK
<1> QED BY Invariance, <1>1, PTL

(* The simulation never ends for lack of a next point in time. *)
THEOREM KernelStaysAlive == Spec => []KernelNeverStarves
<1>1. IInv => KernelNeverStarves
  BY DEF IInv, HelperAlive, Phases, KernelNeverStarves
<1> QED BY Invariance, <1>1, PTL

-----------------------------------------------------------------------------
(* gs_event_async implements the abstract asynchronous event. *)
THEOREM Refinement == Spec => ImplementsAbstract
<1>1. Init => Abstract!Init
  BY DEF Init, Abstract!Init, Never, Abstract!Never
<1>2. IInv /\ [Next]_vars => [Abstract!Next]_(Abstract!vars)
  <2> SUFFICES ASSUME IInv, [Next]_vars
               PROVE  Abstract!Next \/ UNCHANGED <<async \cup upd, delay, evt>>
    BY DEF Abstract!vars
  <2> USE DEF IInv, TypeOK
  <2>1. ASSUME NEW c \in Callers, NEW e \in Events, NEW d \in 0 .. MaxDelay,
               NotifyRequest(c, e, d)
        PROVE  Abstract!Request(e, d)
    BY <2>1 DEF NotifyRequest, Abstract!Request, kernelVars
  <2>2. ASSUME NEW e \in Events, UpdateApply(e) PROVE Abstract!Apply(e)
    <3>1. e \in upd BY <2>2 DEF UpdateApply, Phases
    <3>2. async' = async /\ upd' = upd \ {e} /\ delay' = delay
      BY <2>2 DEF UpdateApply, notifyVars
    <3>3. (async \cup upd)' \in {async \cup upd, (async \cup upd) \ {e}}
      <4>1. CASE e \in async BY <3>1, <3>2, <4>1
      <4>2. CASE e \notin async BY <3>1, <3>2, <4>2
      <4> QED BY <4>1, <4>2
    <3> QED BY <2>2, <3>1, <3>2, <3>3 DEF UpdateApply, Earlier, Abstract!Apply
  <2>3. CASE DeltaNotification
    <3>1. \A e \in Events : 0 <= evt[e] BY DEF Times, Never
    <3>2. Abstract!Elapse(0)
      BY <2>3, <3>1 DEF DeltaNotification, Elapse, After, Abstract!Elapse,
         Never, Abstract!Never, notifyVars
    <3> QED BY <3>2 DEF Abstract!Next
  <2>4. ASSUME NEW m \in Times, AdvanceTime(m)
        PROVE  m \in 0 .. MaxDelay /\ Abstract!Elapse(m)
    BY <2>4 DEF AdvanceTime, Elapse, After, Abstract!Elapse, Never, Times,
       Abstract!Never, notifyVars
  <2>5. CASE AcceptUpdates
    BY <2>5 DEF AcceptUpdates, Phases, UpdatePhase
  <2>6. ASSUME Kernel, ~ AcceptUpdates, ~ DeltaNotification,
               ~ \E m \in Times : AdvanceTime(m),
               ~ \E e \in Events : UpdateApply(e)
        PROVE  UNCHANGED <<async, upd, delay, evt>>
    BY <2>6 DEF Kernel, kernelVars, notifyVars, RunProcess, ProcessReturns,
       RunHelper, HelperFollows, HelperCallsBack, CallbackChecks, CallbackWait,
       CallbackRepost, UpdateDrain, UpdateUnlock, UpdatesDone
  <2>7. ASSUME NEW c \in Callers, Notify(c),
               ~ \E e \in Events, d \in 0 .. MaxDelay : NotifyRequest(c, e, d)
        PROVE  UNCHANGED <<async, upd, delay, evt>>
    BY <2>7 DEF Notify, NotifyFinish, NotifyLock, NotifyPost, NotifyUnlock,
       kernelVars
  <2>8. ASSUME NEW e \in Events, UpdateLock(e)
        PROVE  UNCHANGED <<async, upd, delay, evt>>
    BY <2>8 DEF UpdateLock
  <2>9. CASE UNCHANGED vars BY <2>9 DEF vars
  <2> QED BY <2>1, <2>2, <2>3, <2>4, <2>5, <2>6, <2>7, <2>8, <2>9
         DEF Next, Notify, NotifyFinish, Abstract!Next
<1>3. Spec => Abstract!Spec
  BY <1>1, <1>2, Invariance, PTL DEF Spec, Abstract!Spec
<1> QED BY <1>3 DEF ImplementsAbstract
=============================================================================
