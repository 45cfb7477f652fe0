------------------------------- MODULE GsParam -------------------------------
(***************************************************************************)
(* A GreenConfig parameter: gs_param_base with the set and get functions   *)
(* of gs_param_t.  A write runs the reject_write, the pre_write and the     *)
(* post_write callbacks; a callback may itself use the parameter, so the    *)
(* calls nest and the state is a stack of calls that have not returned.     *)
(* Everything runs in one thread: a step is one call, one callback or the   *)
(* code between two of them.                                               *)
(*                                                                         *)
(* Callbacks are typed callbacks (ParamTypedCallbAdapt) registered with the *)
(* GC_REGISTER_TYPED_PARAM_CALLBACK macro, which makes one adapter for each *)
(* registration and registers it once.                                     *)
(***************************************************************************)
EXTENDS Integers, Sequences, FiniteSets, SequencesExt

CONSTANTS
    Adapters,      \* callback adapters
    TypeOf,        \* TypeOf[a]: the callback type a is registered for
    Observer,      \* Observer[a]: the module that registers a
    Results,       \* Results[a]: what the callback of a may return, a subset of 0 .. 2
    Uses,          \* the ways the parameter may be used, records of
                   \*   adapters: the adapters that get registered
                   \*   body: body[a] is what the callback of a may do with the parameter
                   \*   top: what is done with the parameter outside of callbacks
    Values,        \* values of the parameter
    Passwords,     \* lock passwords; NoPwd is the default argument NULL
    NoPwd, None,
    CounterModulus \* m_callback_list_delete_enqueued counts modulo this

\* m_callback_lists, a map ordered by callback_type.
ListOrder == <<"pre_read", "post_read", "reject_write", "pre_write",
               "post_write", "destroy_param">>
ListNames == Range(ListOrder)

Writes == {"setValue", "setString", "setValuePwd"}
Reads == {"getString", "getValue"}
Ops == Writes \cup Reads \cup
       {"lock", "unlock", "register", "unregister", "unregisterAll", "destruct"}

\* The callback_return_type values, combined by the largest one.
return_nothing == 0
return_value_change_rejected == 1
return_other_error == 2

ASSUME ConstantsAssumption ==
    /\ TypeOf \in [Adapters -> ListNames \cup {"post_write_and_destroy"}]
    /\ Results \in [Adapters -> SUBSET {return_nothing, return_value_change_rejected,
                                        return_other_error}]
    /\ Uses \subseteq [adapters : SUBSET Adapters, top : SUBSET Ops,
                        body : [Adapters -> SUBSET (Ops \ {"destruct"})]]
    /\ DOMAIN Observer = Adapters
    /\ NoPwd \notin Passwords
    /\ None \notin Adapters
    /\ CounterModulus \in Nat \ {0}

VARIABLES
    use,       \* the way this parameter is used
    lists,     \* the six callback lists: sequences of [on, ad]
    making,    \* m_currently_making_callbacks
    enqueued,  \* m_callback_list_delete_enqueued
    calling,   \* the adapters whose m_calling is set
    locked,    \* m_locked
    lockPwd,   \* m_lock_pwd
    value,     \* my_value
    alive,     \* the parameter has not been destroyed
    aborted,   \* an assertion has failed
    stack,     \* the calls of the parameter that have not returned, innermost last
    members,   \* history: the <<list, adapter>> pairs that should be called back
    fresh,     \* history: adapters that do not exist yet
    known      \* history: known[a] is the value the observer of a knows of

vars == <<use, lists, making, enqueued, calling, locked, lockPwd, value, alive,
          aborted, stack, members, fresh, known>>
callVars == <<making, enqueued, calling>>
lockVars == <<locked, lockPwd>>
histVars == <<members, fresh, known>>

\* The lists that registerParamCallback adds an adapter to.
ListsOf(a) == IF TypeOf[a] = "post_write_and_destroy"
              THEN {"destroy_param", "post_write"} ELSE {TypeOf[a]}

Top == stack[Len(stack)]
SetTop(f) == stack' = [stack EXCEPT ![Len(stack)] = f]
Pop == stack' = Front(stack)
Push(f) == stack' = Append(stack, f)

\* A call of a set or get function or of the destructor.  The code is in the
\* helper for the list f.reason: entering it, in its loop at index f.i, in the
\* callback of f.ad, or after it with f.ret as the combined result.
\* f.due, f.seen and f.refused are history: the enabled adapters when the loop
\* began, the adapters the loop has passed, and whether a callback refused.
Call(op, v, p, reason) ==
    [op |-> op, arg |-> v, pwd |-> p, reason |-> reason, at |-> "enter", i |-> 1,
     ret |-> return_nothing, ad |-> None, due |-> {}, seen |-> <<>>, refused |-> FALSE]

\* The user of the parameter runs: outside of any call or in a callback.
UserRuns(op) ==
    /\ alive /\ ~aborted
    /\ \/ stack = <<>> /\ op \in use.top
       \/ stack # <<>> /\ Top.at = "body" /\ op \in use.body[Top.ad]

\* The code of the innermost call runs.
CodeRuns(at) == ~aborted /\ stack # <<>> /\ Top.at = at

Enabled(l) == {a \in Adapters : \E k \in DOMAIN lists[l] : lists[l][k] = [on |-> TRUE, ad |-> a]}

-----------------------------------------------------------------------------
Init ==
    /\ use \in Uses
    /\ lists = [l \in ListNames |-> <<>>]
    /\ making = FALSE /\ enqueued = 0 /\ calling = {}
    /\ locked = FALSE /\ lockPwd = NoPwd
    /\ value \in Values
    /\ alive = TRUE /\ aborted = FALSE /\ stack = <<>>
    /\ members = {} /\ fresh = use.adapters
    /\ known = [a \in use.adapters |-> value]

\* setValue(val) and setString(str): the lock is looked at later.
Write(op, v) ==
    /\ op \in {"setValue", "setString"} /\ UserRuns(op)
    /\ Push(Call(op, v, NoPwd, "reject_write"))
    /\ UNCHANGED <<lists, callVars, lockVars, value, alive, aborted, histVars>>

\* setValue(val, lock_pwd): refused at once when locked with another password.
WriteWithPwd(v, p) ==
    /\ UserRuns("setValuePwd")
    /\ ~(locked /\ lockPwd # p)
    /\ Push(Call("setValuePwd", v, p, "reject_write"))
    /\ UNCHANGED <<lists, callVars, lockVars, value, alive, aborted, histVars>>

\* getString() and getValue().
Read(op) ==
    /\ op \in Reads /\ UserRuns(op)
    /\ Push(Call(op, None, NoPwd, "pre_read"))
    /\ UNCHANGED <<lists, callVars, lockVars, value, alive, aborted, histVars>>

\* lock(pwd)
Lock(p) ==
    /\ UserRuns("lock")
    /\ ~(locked /\ p # lockPwd /\ lockPwd # NoPwd)
    /\ locked' = TRUE /\ lockPwd' = p
    /\ UNCHANGED <<lists, callVars, value, alive, aborted, stack, histVars>>

\* unlock(pwd)
Unlock(p) ==
    /\ UserRuns("unlock")
    /\ p = lockPwd
    /\ locked' = FALSE
    /\ UNCHANGED <<lists, callVars, lockPwd, value, alive, aborted, stack, histVars>>

\* Mutant: the legacy type is only added to the list for destruction.
RegisterHalf(a) ==
    /\ UserRuns("register")
    /\ a \in fresh
    /\ lists' = [l \in ListNames |-> IF l \in ListsOf(a) /\ (l = TypeOf[a] \/ l = "destroy_param")
                                     THEN Append(lists[l], [on |-> TRUE, ad |-> a])
                                     ELSE lists[l]]
    /\ fresh' = fresh \ {a}
    /\ members' = members \cup (ListsOf(a) \X {a})
    /\ known' = [known EXCEPT ![a] = value]
    /\ UNCHANGED <<callVars, lockVars, value, alive, aborted, stack>>

\* registerParamCallback of a new adapter; its observer knows the value.
Register(a) ==
    /\ UserRuns("register")
    /\ a \in fresh
    /\ lists' = [l \in ListNames |-> IF l \in ListsOf(a)
                                     THEN Append(lists[l], [on |-> TRUE, ad |-> a])
                                     ELSE lists[l]]
    /\ fresh' = fresh \ {a}
    /\ members' = members \cup (ListsOf(a) \X {a})
    /\ known' = [known EXCEPT ![a] = value]
    /\ UNCHANGED <<callVars, lockVars, value, alive, aborted, stack>>

\* The first entry of list l whose adapter is in A, 0 when there is none.
FirstOf(l, A) ==
    SelectInSeq(lists[l], LAMBDA e : e.ad \in A)

\* Mutants: only the first list is searched; the entry is erased even during
\* calls; the entry is only disabled.
RemoveInOneList(A) ==
    LET n == SelectInSeq(ListOrder, LAMBDA l : FirstOf(l, A) # 0)
    IN  /\ lists' = IF n = 0 THEN lists
                    ELSE [lists EXCEPT ![ListOrder[n]] = RemoveAt(@, FirstOf(ListOrder[n], A))]
        /\ UNCHANGED enqueued

RemoveAlways(A) ==
    /\ lists' = [l \in ListNames |-> IF FirstOf(l, A) = 0 THEN lists[l]
                                     ELSE RemoveAt(lists[l], FirstOf(l, A))]
    /\ UNCHANGED enqueued

RemoveNever(A) ==
    /\ lists' = [l \in ListNames |-> IF FirstOf(l, A) = 0 THEN lists[l]
                                     ELSE [lists[l] EXCEPT ![FirstOf(l, A)].on = FALSE]]
    /\ UNCHANGED enqueued

\* conditional_callback_remove for the first entry in each list.
ConditionalCallbackRemove(A) ==
    LET hit == {l \in ListNames : FirstOf(l, A) # 0}
    IN  /\ lists' = [l \in ListNames |->
              IF l \notin hit THEN lists[l]
              ELSE IF making THEN [lists[l] EXCEPT ![FirstOf(l, A)].on = FALSE]
              ELSE RemoveAt(lists[l], FirstOf(l, A))]
        /\ enqueued' = IF making THEN (enqueued + Cardinality(hit)) % CounterModulus
                       ELSE enqueued

\* unregisterParamCallback(callb), as the GC_UNREGISTER_CALLBACK macro uses
\* it: once for each adapter, whose pointer it then forgets.
Unregister(a) ==
    /\ UserRuns("unregister")
    /\ \E l \in ListNames : <<l, a>> \in members
    /\ ConditionalCallbackRemove({a})
    /\ members' = {m \in members : m[2] # a}
    /\ UNCHANGED <<making, calling, lockVars, value, alive, aborted, stack, fresh, known>>

\* unregisterParamCallbacks(observer): repeats passes over all lists until
\* one finds nothing.
UnregisterAll(o) ==
    /\ UserRuns("unregisterAll")
    /\ Push([Call("unregisterAll", o, NoPwd, "pre_read") EXCEPT !.at = "pass"])
    /\ UNCHANGED <<lists, callVars, lockVars, value, alive, aborted, histVars>>

UnregisterPass ==
    LET A == {a \in Adapters : Observer[a] = Top.arg}
    IN  /\ CodeRuns("pass")
        /\ ConditionalCallbackRemove(A)
        /\ IF \A l \in ListNames : FirstOf(l, A) = 0
           THEN Pop /\ members' = {m \in members : m[2] \notin A}
           ELSE UNCHANGED stack /\ members' =
                  {m \in members : FirstOf(m[1], A) = 0 \/ lists[m[1]][FirstOf(m[1], A)].ad # m[2]}
        /\ UNCHANGED <<making, calling, lockVars, value, alive, aborted, fresh, known>>

\* destruct_gs_param, called by the owner when no call is in progress.
Destruct ==
    /\ stack = <<>> /\ UserRuns("destruct")
    /\ Push(Call("destruct", None, NoPwd, "destroy_param"))
    /\ UNCHANGED <<lists, callVars, lockVars, value, alive, aborted, histVars>>

-----------------------------------------------------------------------------
\* Mutants: the loop starts at the second entry; callbacks are not nested
\* (GCNF_AVOID_NESTED_CALLBACKS_IN_PARAM).
EnterAtSecond ==
    /\ CodeRuns("enter")
    /\ IF lists[Top.reason] = <<>>
       THEN SetTop([Top EXCEPT !.at = "after", !.ret = return_nothing])
            /\ UNCHANGED making
       ELSE SetTop([Top EXCEPT !.at = "loop", !.i = 2, !.ret = return_nothing,
                               !.due = Enabled(Top.reason), !.seen = <<>>])
            /\ making' = TRUE
    /\ UNCHANGED <<lists, enqueued, calling, lockVars, value, alive, aborted, histVars>>

EnterNotNested ==
    /\ CodeRuns("enter")
    /\ IF lists[Top.reason] = <<>> \/ making
       THEN SetTop([Top EXCEPT !.at = "after", !.ret = return_nothing])
            /\ UNCHANGED making
       ELSE SetTop([Top EXCEPT !.at = "loop", !.i = 1, !.ret = return_nothing,
                               !.due = Enabled(Top.reason), !.seen = <<>>])
            /\ making' = TRUE
    /\ UNCHANGED <<lists, enqueued, calling, lockVars, value, alive, aborted, histVars>>

\* make_enabled_callbacks_helper: nothing to do for an empty list.
EnterHelper ==
    /\ CodeRuns("enter")
    /\ IF lists[Top.reason] = <<>>
       THEN SetTop([Top EXCEPT !.at = "after", !.ret = return_nothing])
            /\ UNCHANGED making
       ELSE SetTop([Top EXCEPT !.at = "loop", !.i = 1, !.ret = return_nothing,
                               !.due = Enabled(Top.reason), !.seen = <<>>])
            /\ making' = TRUE
    /\ UNCHANGED <<lists, enqueued, calling, lockVars, value, alive, aborted, histVars>>

Entry == lists[Top.reason][Top.i]

\* The loop meets an entry that it calls; call() sets m_calling.
CallBack ==
    /\ CodeRuns("loop") /\ Top.i <= Len(lists[Top.reason])
    /\ Entry.on /\ Entry.ad \notin calling
    /\ SetTop([Top EXCEPT !.at = "body", !.ad = Entry.ad, !.seen = Append(@, Entry.ad)])
    /\ calling' = calling \cup {Entry.ad}
    /\ known' = [known EXCEPT ![Entry.ad] = value]
    /\ UNCHANGED <<lists, making, enqueued, lockVars, value, alive, aborted, members, fresh>>

\* The loop meets an entry that is disabled or whose callback is running.
PassOver ==
    /\ CodeRuns("loop") /\ Top.i <= Len(lists[Top.reason])
    /\ ~Entry.on \/ Entry.ad \in calling
    /\ SetTop([Top EXCEPT !.i = @ + 1,
                          !.seen = IF Entry.on THEN Append(@, Entry.ad) ELSE @])
    /\ UNCHANGED <<lists, callVars, lockVars, value, alive, aborted, histVars>>

\* Mutant: the last result counts.
Latest(r, s) == s

Higher(r, s) == IF r < s THEN s ELSE r

\* The callback returns r.
CallbackReturns(r) ==
    /\ CodeRuns("body") /\ r \in Results[Top.ad]
    /\ calling' = calling \ {Top.ad}
    /\ SetTop([Top EXCEPT !.at = "loop", !.ad = None, !.i = @ + 1, !.ret = Higher(@, r),
                          !.refused = @ \/ (/\ Top.reason = "reject_write"
                                            /\ r = return_value_change_rejected)])
    /\ UNCHANGED <<lists, making, enqueued, lockVars, value, alive, aborted, histVars>>

\* cleanup_callback_list for one list, from its last entry to its first.
\* vector::erase(rit.base()) erases the entry after the one rit refers to; for
\* the last entry that is erase(end()), undefined in C++, by which libstdc++
\* drops the last entry.
CleanStep(c, k) ==
    LET off == ~c.list[k].on
        left == IF off THEN (c.count - 1) % CounterModulus ELSE c.count
    IN  IF c.stop THEN c
        ELSE [list |-> IF off THEN RemoveAt(c.list, IF k = Len(c.list) THEN k ELSE k + 1)
                       ELSE c.list,
              count |-> left, stop |-> left = 0]

CleanList(s, count) ==
    LET Clean[j \in 0 .. Len(s)] ==
          IF j = 0 THEN [list |-> s, count |-> count, stop |-> FALSE]
          ELSE CleanStep(Clean[j - 1], Len(s) - j + 1)
    IN  Clean[Len(s)]

\* cleanup_callback_list over the map of lists, as [lists, count].
CleanAll ==
    LET All[n \in 0 .. Len(ListOrder)] ==
          IF n = 0 THEN [lists |-> lists, count |-> enqueued]
          ELSE LET c == CleanList(All[n - 1].lists[ListOrder[n]], All[n - 1].count)
               IN  [lists |-> [All[n - 1].lists EXCEPT ![ListOrder[n]] = c.list],
                    count |-> c.count]
    IN  All[Len(ListOrder)]

\* The loop is over: m_currently_making_callbacks is cleared and the disabled
\* entries are removed; the assertion at the end wants all of them gone.
LeaveHelper ==
    /\ CodeRuns("loop") /\ Top.i > Len(lists[Top.reason])
    /\ making' = FALSE
    /\ SetTop([Top EXCEPT !.at = "after"])
    /\ IF enqueued = 0 THEN UNCHANGED <<lists, enqueued, aborted>>
       ELSE /\ lists' = CleanAll.lists
            /\ enqueued' = CleanAll.count
            /\ aborted' = (CleanAll.count # 0)
    /\ UNCHANGED <<calling, lockVars, value, alive, histVars>>

\* After one helper the call goes on with the next list.
GoesOnTo(reason) == SetTop([Top EXCEPT !.at = "enter", !.reason = reason])

AfterReject ==
    /\ CodeRuns("after") /\ Top.reason = "reject_write"
    /\ IF Top.ret = return_value_change_rejected THEN Pop ELSE GoesOnTo("pre_write")
    /\ UNCHANGED <<lists, callVars, lockVars, value, alive, aborted, histVars>>

\* Mutant: only a lock with a password stops a write.
LockWithPwdStops == Top.op # "setValuePwd" /\ locked /\ lockPwd # NoPwd

\* Only the password form of setValue does not look at the lock here.
LockStops == Top.op # "setValuePwd" /\ locked

\* A string may have no value: deserialize() then leaves my_value alone.
NotDeserialized == Top.op = "setString"

\* The write itself.  The observer whose callback writes knows the new value.
Commit ==
    LET author == IF Len(stack) = 1 THEN None ELSE stack[Len(stack) - 1].ad
    IN  /\ value' = Top.arg
        /\ known' = [a \in use.adapters |-> IF a = author THEN Top.arg ELSE known[a]]
        /\ GoesOnTo("post_write")

AfterPreWrite ==
    /\ CodeRuns("after") /\ Top.reason = "pre_write"
    /\ aborted' = (Top.ret = return_value_change_rejected)
    /\ \/ Top.ret # return_value_change_rejected /\ ~LockStops /\ Commit
       \/ /\ Top.ret = return_value_change_rejected \/ LockStops \/ NotDeserialized
          /\ Pop
          /\ UNCHANGED <<value, known>>
    /\ UNCHANGED <<lists, callVars, lockVars, alive, members, fresh>>

AfterRead ==
    /\ CodeRuns("after") /\ Top.reason \in {"pre_read", "post_read"}
    /\ IF Top.reason = "pre_read" THEN GoesOnTo("post_read") ELSE Pop
    /\ UNCHANGED <<lists, callVars, lockVars, value, alive, aborted, histVars>>

AfterPostWrite ==
    /\ CodeRuns("after") /\ Top.reason = "post_write"
    /\ Pop
    /\ UNCHANGED <<lists, callVars, lockVars, value, alive, aborted, histVars>>

\* ~gs_param_base: every adapter forgets the parameter.
AfterDestroy ==
    /\ CodeRuns("after") /\ Top.reason = "destroy_param"
    /\ Pop
    /\ alive' = FALSE
    /\ members' = {}
    /\ UNCHANGED <<lists, callVars, lockVars, value, aborted, fresh, known>>

-----------------------------------------------------------------------------
CodeStep ==
    \/ UnregisterPass \/ EnterHelper \/ CallBack \/ PassOver \/ LeaveHelper
    \/ AfterReject \/ AfterPreWrite \/ AfterPostWrite \/ AfterRead \/ AfterDestroy
    \/ \E r \in 0 .. 2 : CallbackReturns(r)

UserStep ==
    \/ \E op \in Ops, v \in Values : Write(op, v)
    \/ \E v \in Values, p \in Passwords \cup {NoPwd} : WriteWithPwd(v, p)
    \/ \E op \in Ops : Read(op)
    \/ \E p \in Passwords \cup {NoPwd} : Lock(p) \/ Unlock(p)
    \/ \E a \in Adapters : Register(a) \/ Unregister(a)
    \/ \E o \in Range(Observer) : UnregisterAll(o)
    \/ Destruct

Next == (CodeStep \/ UserStep) /\ UNCHANGED use
Spec == Init /\ [][Next]_vars

-----------------------------------------------------------------------------
\* A callback that was registered and not unregistered is still in its list
\* and enabled, whatever calls and callbacks have come and gone since
\* (registerParamCallback, unregisterParamCallback, cleanup_callback_list).
NoCallbackLost == ~aborted => \A m \in members : m[2] \in Enabled(m[1])

\* Callbacks do not unregister callbacks, so lists are not cleaned up.
NoCleanup == \A a \in use.adapters : use.body[a] \cap {"unregister", "unregisterAll"} = {}

\* No callback is lost by nested calls, by registering in callbacks, or by
\* unregistering outside of them.
CallbacksKept == NoCleanup => NoCallbackLost

\* Only callbacks that are registered can be called: an entry that stays in a
\* list after it was unregistered stays disabled (conditional_callback_remove).
OnlyRegisteredEnabled ==
    alive => \A l \in ListNames : \A a \in Enabled(l) : <<l, a>> \in members

\* When a helper has gone through its list, it has met every callback that was
\* enabled at the start and still is, once, although the callbacks used the
\* parameter meanwhile (make_enabled_callbacks_helper).
CalledOnce ==
    \A n \in DOMAIN stack :
        LET f == stack[n]
        IN  /\ \A j, k \in DOMAIN f.seen : j # k => f.seen[j] # f.seen[k]
            /\ f.at = "after" => \A a \in f.due :
                   <<f.reason, a>> \in members => a \in Range(f.seen)

\* While the callbacks of a list are being called, nothing is taken out of it
\* (make_post_write_callbacks, cleanup_callback_list).
NoRemovalDuringCalls ==
    [][\A n \in DOMAIN stack :
          stack[n].at = "body" => Len(lists'[stack[n].reason]) >= Len(lists[stack[n].reason])]_vars

\* A locked parameter is read-only but for a write with the lock's password
\* (lock, setValue).
ReadOnlyWhenLocked ==
    [][value' # value => ~locked \/ (Top.op = "setValuePwd" /\ Top.pwd = lockPwd)]_vars

\* A write that a reject_write callback refused does not change the value
\* (return_value_change_rejected).
RefusedWriteHasNoEffect == [][value' # value => ~Top.refused]_vars

\* Unless a cleanup may have lost a callback: when all calls have returned, the
\* observer of every post_write callback knows the value, it was called after
\* the last write or wrote itself (make_post_write_callbacks).
ObserversUpToDate ==
    (NoCleanup /\ stack = <<>> /\ alive) =>
        \A m \in members : m[1] = "post_write" => known[m[2]] = value

\* Outside of callbacks every pass of unregisterParamCallbacks but the last
\* takes an entry out of a list, so the call ends (unregisterParamCallbacks,
\* conditional_callback_remove).
UnregisterAllAdvances ==
    [][Len(stack) = 1 /\ Top.at = "pass" /\ stack' = stack =>
          \E l \in ListNames : Len(lists'[l]) < Len(lists[l])]_vars
=============================================================================
