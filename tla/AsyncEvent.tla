----------------------------- MODULE AsyncEvent -----------------------------
(***************************************************************************)
(* gs_event_async of GreenThreads: an sc_event that any operating-system   *)
(* thread may notify while the SystemC kernel runs in a thread of its own. *)
(* The kernel must be kept alive when it has nothing to do, so every       *)
(* notify() posts a token into one global semaphore, the kernel sleeps on  *)
(* that semaphore in a helper process, and update() takes back as many     *)
(* tokens as it finds outstanding for its event.                           *)
(*                                                                         *)
(* Callers of notify() are the remote threads and the kernel thread K      *)
(* itself (checkWindow, takeLock ... run inside the kernel).  The steps of *)
(* notify() and update() between two accesses to shared state that another *)
(* thread can see are one action each; m_delay and outstanding are only    *)
(* touched under local_mutex, so an access to them is merged with the next *)
(* visible one.  The SystemC kernel is external: its evaluate, update,     *)
(* notification and time-advance phases are modelled as far as             *)
(* thread_safe_event.h uses them.  Times are relative to the kernel's now: *)
(* 0 is a delta notification, Never is no notification.                    *)
(***************************************************************************)
EXTENDS Integers, FiniteSets

CONSTANTS
  Threads,          \* the remote threads
  K,                \* the thread of the SystemC kernel
  Events,           \* the gs_event_async objects
  Helper,           \* the process of before_end_of_delta_helper
  Free,             \* the owner of an unlocked mutex
  MaxDelay,         \* bound: the largest delay given to notify()
  MaxOutstanding    \* bound: unserved notifications of one event

ASSUME ThreadAssumption == K \notin Threads /\ Free \notin Threads \cup {K}
ASSUME EventAssumption == Helper \notin Events
ASSUME DelayAssumption == MaxDelay \in Nat
ASSUME OutstandingAssumption == MaxOutstanding \in Nat \ {0}

Callers == Threads \cup {K}
Never == MaxDelay + 1
Times == 0 .. Never

VARIABLES
  mutex,        \* local_mutex: the thread that owns it, or Free
  delay,        \* m_delay
  outstanding,  \* outstanding
  sem,          \* the value of global_semaphore
  pc,           \* where a caller is in notify()
  async,        \* events in the kernel's thread-safe update queue
  upd,          \* events whose update() the current update phase still owes
  evt,          \* time until the sc_event base of the event triggers
  helperEvt,    \* the same for endofdeltaEvent
  runnable,     \* processes to run: an event stands for the one waiting for it
  kpc           \* what the kernel thread is doing

vars == <<mutex, delay, outstanding, sem, pc, async, upd, evt, helperEvt,
          runnable, kpc>>

KernelStates == {"eval", "process", "helper", "callback", "wait", "repost",
                 "update", "apply", "drain", "notification", "advance"}

(* The type invariant. *)
TypeOK ==
  /\ mutex \in [Events -> Callers \cup {Free}]
  /\ delay \in [Events -> 0 .. MaxDelay]
  /\ outstanding \in [Events -> Nat]
  /\ sem \in Nat
  /\ pc \in [Callers -> {"idle", "request", "post", "count"}]
  /\ async \subseteq Events
  /\ upd \subseteq Events
  /\ evt \in [Events -> Times]
  /\ helperEvt \in Times
  /\ runnable \subseteq Events \cup {Helper}
  /\ kpc \in KernelStates

(***************************************************************************)
(* The simulation starts with the start_of_simulation callbacks, which run *)
(* in the kernel thread and may notify, hence kpc = "process".  The helper *)
(* has no dont_initialize(), so the kernel runs it once at the beginning.  *)
(***************************************************************************)
Init ==
  /\ mutex = [e \in Events |-> Free]
  /\ delay = [e \in Events |-> 0]
  /\ outstanding = [e \in Events |-> 0]
  /\ sem = 0
  /\ pc = [c \in Callers |-> "idle"]
  /\ async = {}
  /\ upd = {}
  /\ evt = [e \in Events |-> Never]
  /\ helperEvt = Never
  /\ runnable = {Helper}
  /\ kpc = "process"

-----------------------------------------------------------------------------
(* notify(), in any thread *)

kernelVars == <<upd, evt, helperEvt, runnable, kpc>>

(* The kernel thread is in notify() only while one of its processes runs. *)
MayCall(c) == c = K => kpc = "process"

(* local_mutex.lock() *)
NotifyLock(c, e) ==
  /\ pc[c] = "idle" /\ MayCall(c)
  /\ mutex[e] = Free
  /\ outstanding[e] < MaxOutstanding
  /\ mutex' = [mutex EXCEPT ![e] = c]
  /\ pc' = [pc EXCEPT ![c] = "request"]
  /\ UNCHANGED <<delay, outstanding, sem, async, kernelVars>>

(* m_delay = delay; async_request_update() *)
NotifyRequest(c, e, d) ==
  /\ pc[c] = "request" /\ mutex[e] = c
  /\ delay' = [delay EXCEPT ![e] = d]
  /\ async' = async \cup {e}
  /\ pc' = [pc EXCEPT ![c] = "post"]
  /\ UNCHANGED <<mutex, outstanding, sem, kernelVars>>

(* Mutant: notify() leaves the kernel no token. *)
NotifyPostNoToken(c) ==
  /\ pc[c] = "post"
  /\ pc' = [pc EXCEPT ![c] = "count"]
  /\ UNCHANGED <<mutex, delay, outstanding, sem, async, kernelVars>>

(* global_semaphore.post() *)
NotifyPost(c) ==
  /\ pc[c] = "post"
  /\ sem' = sem + 1
  /\ pc' = [pc EXCEPT ![c] = "count"]
  /\ UNCHANGED <<mutex, delay, outstanding, async, kernelVars>>

(* Mutant: notify() does not count the token it posted. *)
NotifyUnlockNoCount(c, e) ==
  /\ pc[c] = "count" /\ mutex[e] = c
  /\ mutex' = [mutex EXCEPT ![e] = Free]
  /\ pc' = [pc EXCEPT ![c] = "idle"]
  /\ UNCHANGED <<delay, outstanding, sem, async, kernelVars>>

(* outstanding++; local_mutex.unlock() *)
NotifyUnlock(c, e) ==
  /\ pc[c] = "count" /\ mutex[e] = c
  /\ outstanding' = [outstanding EXCEPT ![e] = @ + 1]
  /\ mutex' = [mutex EXCEPT ![e] = Free]
  /\ pc' = [pc EXCEPT ![c] = "idle"]
  /\ UNCHANGED <<delay, sem, async, kernelVars>>

-----------------------------------------------------------------------------
(* The evaluation phase: processes and the end-of-delta helper *)

notifyVars == <<mutex, delay, outstanding, pc, async>>

(* The kernel runs a process; in it K may call notify(). *)
RunProcess(e) ==
  /\ kpc = "eval" /\ e \in runnable
  /\ runnable' = runnable \ {e}
  /\ kpc' = "process"
  /\ UNCHANGED <<notifyVars, sem, upd, evt, helperEvt>>

ProcessReturns ==
  /\ kpc = "process" /\ pc[K] = "idle"
  /\ kpc' = "eval"
  /\ UNCHANGED <<notifyVars, sem, upd, evt, helperEvt, runnable>>

RunHelper ==
  /\ kpc = "eval" /\ Helper \in runnable
  /\ runnable' = runnable \ {Helper}
  /\ kpc' = "helper"
  /\ UNCHANGED <<notifyVars, sem, upd, evt, helperEvt>>

(* sc_pending_activity(), without the helper's own event, which is never   *)
(* pending when the helper asks.                                           *)
PendingNow == runnable # {} \/ upd # {} \/ async # {}

Pending == PendingNow \/ \E e \in Events : evt[e] # Never

(* sc_time_to_pending_activity(): t is the time to the next event. *)
IsTimeToPending(t) ==
  \/ PendingNow /\ t = 0
  \/ /\ ~ PendingNow
     /\ \E e \in Events : evt[e] = t
     /\ \A e \in Events : t <= evt[e]

(* endofdeltaMethod(), the branch that follows the pending activity.  The   *)
(* two kernel calls are merged: activity never goes away while K is here,   *)
(* and one that arrives in between only shortens the time.                  *)
HelperFollows(t) ==
  /\ kpc = "helper" /\ Pending /\ IsTimeToPending(t)
  /\ helperEvt' = t
  /\ kpc' = "eval"
  /\ UNCHANGED <<notifyVars, sem, upd, evt, runnable>>

(* endofdeltaMethod(), else: parent->simulation_phase_callback() *)
HelperCallsBack ==
  /\ kpc = "helper" /\ ~ Pending
  /\ kpc' = "callback"
  /\ UNCHANGED <<notifyVars, sem, upd, evt, helperEvt, runnable>>

(* simulation_phase_callback(): a second look at the pending activity *)
CallbackChecks ==
  /\ kpc = "callback"
  /\ IF Pending THEN /\ helperEvt' = 0
                     /\ kpc' = "eval"
                ELSE /\ kpc' = "wait"
                     /\ UNCHANGED helperEvt
  /\ UNCHANGED <<notifyVars, sem, upd, evt, runnable>>

(* global_semaphore.wait(): the kernel sleeps until there is a token. *)
CallbackWait ==
  /\ kpc = "wait" /\ sem > 0
  /\ sem' = sem - 1
  /\ kpc' = "repost"
  /\ UNCHANGED <<notifyVars, upd, evt, helperEvt, runnable>>

(* Mutant: endofdeltaMethod() does not notify itself again. *)
CallbackForgetsHelper ==
  /\ kpc = "repost"
  /\ sem' = sem + 1
  /\ kpc' = "eval"
  /\ UNCHANGED <<notifyVars, upd, evt, helperEvt, runnable>>

(* global_semaphore.post(), back in endofdeltaMethod(): notify(0) *)
CallbackRepost ==
  /\ kpc = "repost"
  /\ sem' = sem + 1
  /\ helperEvt' = 0
  /\ kpc' = "eval"
  /\ UNCHANGED <<notifyVars, upd, evt, runnable>>

-----------------------------------------------------------------------------
(* The update phase *)

(* The kernel accepts the requests of the thread-safe queue. *)
AcceptUpdates ==
  /\ kpc = "eval" /\ runnable = {}
  /\ upd' = async
  /\ async' = {}
  /\ kpc' = "update"
  /\ UNCHANGED <<mutex, delay, outstanding, pc, sem, evt, helperEvt, runnable>>

(* update(): local_mutex.lock() *)
UpdateLock(e) ==
  /\ kpc = "update" /\ e \in upd
  /\ mutex[e] = Free
  /\ mutex' = [mutex EXCEPT ![e] = K]
  /\ kpc' = "apply"
  /\ UNCHANGED <<delay, outstanding, pc, async, sem, upd, evt, helperEvt,
                 runnable>>

Earlier(s, t) == IF s < t THEN s ELSE t

(* Mutant: an event that is already notified keeps its time. *)
ApplyKeeps(e) ==
  /\ kpc = "apply" /\ mutex[e] = K
  /\ evt' = [evt EXCEPT ![e] = IF @ = Never THEN delay[e] ELSE @]
  /\ upd' = upd \ {e}
  /\ kpc' = "drain"
  /\ UNCHANGED <<notifyVars, sem, helperEvt, runnable>>

(* update(): sc_event::notify(m_delay), which leaves the earlier of the     *)
(* pending and the new notification.                                        *)
UpdateApply(e) ==
  /\ kpc = "apply" /\ mutex[e] = K
  /\ evt' = [evt EXCEPT ![e] = Earlier(@, delay[e])]
  /\ upd' = upd \ {e}
  /\ kpc' = "drain"
  /\ UNCHANGED <<notifyVars, sem, helperEvt, runnable>>

(* update(): one round of the loop, global_semaphore.wait(); outstanding-- *)
UpdateDrain(e) ==
  /\ kpc = "drain" /\ mutex[e] = K
  /\ outstanding[e] > 0 /\ sem > 0
  /\ sem' = sem - 1
  /\ outstanding' = [outstanding EXCEPT ![e] = @ - 1]
  /\ UNCHANGED <<mutex, delay, pc, async, kernelVars>>

(* update(): local_mutex.unlock() *)
UpdateUnlock(e) ==
  /\ kpc = "drain" /\ mutex[e] = K
  /\ outstanding[e] = 0
  /\ mutex' = [mutex EXCEPT ![e] = Free]
  /\ kpc' = "update"
  /\ UNCHANGED <<delay, outstanding, pc, async, sem, upd, evt, helperEvt,
                 runnable>>

UpdatesDone ==
  /\ kpc = "update" /\ upd = {}
  /\ kpc' = "notification"
  /\ UNCHANGED <<notifyVars, sem, upd, evt, helperEvt, runnable>>

-----------------------------------------------------------------------------
(* The notification phase and the advance of time *)

After(t, m) == IF t = Never \/ t = m THEN Never ELSE t - m

(* m time units pass: the notifications due then trigger their processes. *)
Elapse(m) ==
  /\ evt' = [e \in Events |-> After(evt[e], m)]
  /\ helperEvt' = After(helperEvt, m)
  /\ runnable' = {e \in Events : evt[e] = m} \cup
                 (IF helperEvt = m THEN {Helper} ELSE {})

DeltaNotification ==
  /\ kpc = "notification"
  /\ Elapse(0)
  /\ kpc' = IF runnable' = {} THEN "advance" ELSE "eval"
  /\ UNCHANGED <<notifyVars, sem, upd>>

AdvanceTime(m) ==
  /\ kpc = "advance"
  /\ m # Never
  /\ \/ helperEvt = m
     \/ \E e \in Events : evt[e] = m
  /\ m <= helperEvt /\ \A e \in Events : m <= evt[e]
  /\ Elapse(m)
  /\ kpc' = "eval"
  /\ UNCHANGED <<notifyVars, sem, upd>>

-----------------------------------------------------------------------------
NotifyFinish(c) ==
  \/ \E e \in Events, d \in 0 .. MaxDelay : NotifyRequest(c, e, d)
  \/ NotifyPost(c)
  \/ \E e \in Events : NotifyUnlock(c, e)

Notify(c) ==
  \/ \E e \in Events : NotifyLock(c, e)
  \/ NotifyFinish(c)

(* What the kernel thread does apart from notify() and update()'s lock. *)
Kernel ==
  \/ \E e \in Events : RunProcess(e)
  \/ ProcessReturns
  \/ RunHelper
  \/ \E t \in Times : HelperFollows(t)
  \/ HelperCallsBack
  \/ CallbackChecks
  \/ CallbackWait
  \/ CallbackRepost
  \/ AcceptUpdates
  \/ \E e \in Events : UpdateApply(e)
  \/ \E e \in Events : UpdateDrain(e)
  \/ \E e \in Events : UpdateUnlock(e)
  \/ UpdatesDone
  \/ DeltaNotification
  \/ \E m \in Times : AdvanceTime(m)

Next ==
  \/ \E c \in Callers : Notify(c)
  \/ Kernel
  \/ \E e \in Events : UpdateLock(e)

(***************************************************************************)
(* Fairness: the operating system runs every thread that can run, so a     *)
(* notify() that has begun finishes and the kernel goes on.  update()'s    *)
(* spin lock is contended by threads that notify again and again: the      *)
(* strong fairness says that no set of callers wins every race for it.     *)
(* Nothing obliges a thread to call notify().                              *)
(***************************************************************************)
Fairness ==
  /\ \A c \in Callers : WF_vars(NotifyFinish(c))
  /\ WF_vars(Kernel)
  /\ \A e \in Events : SF_vars(UpdateLock(e))

Spec == Init /\ [][Next]_vars
FairSpec == Spec /\ Fairness

-----------------------------------------------------------------------------
(* Properties *)

(* The tokens that notify() has counted, as a set of pairs. *)
Tokens == UNION {{e} \X (1 .. outstanding[e]) : e \in Events}
(* The callers that have posted a token and not yet counted it. *)
Posted == {c \in Callers : pc[c] = "count"}
(* The token the sleeping kernel took and has not put back yet. *)
Held == IF kpc = "repost" THEN 1 ELSE 0

(* No token of global_semaphore is lost and none is left over: the value of *)
(* the semaphore is what all events together have outstanding, plus the     *)
(* tokens posted by a notify() that has not reached outstanding++, less the *)
(* one simulation_phase_callback() holds.  A leftover token would make the  *)
(* idle kernel spin for ever, a missing one would put it to sleep.          *)
TokensBalance == sem + Held = Cardinality(Tokens) + Cardinality(Posted)

(* update() waits on the semaphore while it holds local_mutex: it must find *)
(* a token there each time, or the kernel and every notifier would stop.    *)
UpdateNeverBlocks ==
  \A e \in Events :
    kpc = "drain" /\ mutex[e] = K /\ outstanding[e] > 0 => sem > 0

(* When the kernel sleeps in global_semaphore.wait(), no notification of an *)
(* sc_event and no runnable process is waiting for it, and a request in the *)
(* queue belongs to a notify() that is about to post the token that wakes   *)
(* the kernel: no wake-up is lost.                                          *)
NoLostWakeup ==
  kpc = "wait" /\ sem = 0 =>
    /\ runnable = {} /\ upd = {}
    /\ \A e \in Events : evt[e] = Never
    /\ \A e \in async : \E c \in Callers : mutex[e] = c /\ pc[c] = "post"

(* endofdeltaMethod() keeps the kernel alive: whenever the kernel looks for *)
(* the next point in time there is one, so the simulation does not end      *)
(* because only remote threads have work.                                   *)
KernelNeverStarves == kpc = "advance" => helperEvt # Never

(* Every request that reaches the queue is applied by a later update(),     *)
(* even if the kernel is asleep when it comes.                              *)
RequestApplied ==
  \A e \in Events : e \in async ~> (kpc = "drain" /\ mutex[e] = K)

(* The abstract event this is an implementation of. *)
Abstract == INSTANCE AsyncEventSpec WITH
              requested <- async \cup upd, delay <- delay, due <- evt

(* gs_event_async implements AsyncEventSpec, which says what a caller of    *)
(* notify() may rely on.                                                    *)
ImplementsAbstract == Abstract!Spec
=============================================================================
