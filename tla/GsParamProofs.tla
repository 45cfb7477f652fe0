---------------------------- MODULE GsParamProofs ----------------------------
(***************************************************************************)
(* Proofs about GsParam, for any callbacks, observers and values, and for  *)
(* any nesting of calls: which callbacks a parameter keeps, which it may   *)
(* call, what its loops meet, who has been told the value, and what the    *)
(* lock protects.                                                          *)
(***************************************************************************)
EXTENDS GsParam, FiniteSetTheorems, SequenceTheorems, TLAPS

Entries == [on : BOOLEAN, ad : Adapters]
Frames == [op : Ops, arg : Values \cup {None} \cup Range(Observer),
           pwd : Passwords \cup {NoPwd}, reason : ListNames,
           at : {"enter", "loop", "body", "after", "pass"}, i : Nat \ {0}, ret : 0 .. 2,
           ad : Adapters \cup {None}, due : SUBSET Adapters, seen : Seq(Adapters),
           refused : BOOLEAN]

(* No two entries of a list are for the same adapter. *)
Distinct(s) == \A j, k \in DOMAIN s : s[j].ad = s[k].ad => j = k
IsEntry(e, s) == \E k \in DOMAIN s : s[k] = e
Live(a) == [on |-> TRUE, ad |-> a]

(* A way of using the parameter in which callbacks unregister nothing. *)
Clean(u) == \A a \in u.adapters : u.body[a] \cap {"unregister", "unregisterAll"} = {}

(* reject_write callbacks refuse or accept, and report no other error. *)
RefuseCleanly ==
  \A a \in Adapters : "reject_write" \in ListsOf(a) => return_other_error \notin Results[a]

(* Adapters are registered once, in their own lists. *)
OnceInList(ls, fr, u) ==
  \A l \in ListNames :
    /\ Distinct(ls[l])
    /\ \A k \in DOMAIN ls[l] : /\ ls[l][k].ad \in u.adapters /\ ls[l][k].ad \notin fr
                               /\ l \in ListsOf(ls[l][k].ad)

(* The lists, as far as no call in progress matters: enabled entries are      *)
(* members, and without clean-ups the other way round.                        *)
ListsOK(ls, ms, fr, u, en, al) ==
  /\ ls \in [ListNames -> Seq(Entries)] /\ ms \in SUBSET (ListNames \X Adapters)
  /\ fr \in SUBSET u.adapters
  /\ OnceInList(ls, fr, u)
  /\ al => \A l \in ListNames, a \in Adapters : IsEntry(Live(a), ls[l]) => <<l, a>> \in ms
  /\ Clean(u) => /\ en = 0
                 /\ \A l \in ListNames : \A k \in DOMAIN ls[l] : ls[l][k].on
                 /\ \A m \in ms : IsEntry(Live(m[2]), ls[m[1]])

(* A loop has met the entries of its list one by one, ... *)
LoopOK(f, L) ==
  f.at \in {"loop", "body"} =>
    /\ Len(f.seen) = (IF f.at = "loop" THEN f.i - 1 ELSE f.i) /\ Len(f.seen) <= Len(L)
    /\ \A j \in 1 .. Len(f.seen) : f.seen[j] = L[j].ad
    /\ \A a \in f.due : \E k \in DOMAIN L : L[k].ad = a

(* ... none of them twice, and all of them at its end. *)
LoopDone(f, ms) ==
  /\ \A j, k \in DOMAIN f.seen : j # k => f.seen[j] # f.seen[k]
  /\ f.at = "after" =>
       \A a \in f.due : <<f.reason, a>> \in ms => \E k \in DOMAIN f.seen : f.seen[k] = a

(* A refusal is the result of the call until the call returns. *)
RefusalOK(f) ==
  /\ f.refused => f.reason = "reject_write" /\ f.at \in {"loop", "body", "after"} /\ f.ret = 1
  /\ f.reason = "reject_write" => f.ret # 2

FrameOK(f, ls, ms, u) ==
  /\ f.at = "body" => f.ad \in u.adapters /\ f.reason \in ListsOf(f.ad)
  /\ Clean(u) => LoopOK(f, ls[f.reason]) /\ LoopDone(f, ms)
  /\ RefuseCleanly => RefusalOK(f)

(* All calls but the innermost are in a callback. *)
StackOK(st, ls, ms, u) ==
  /\ st \in Seq(Frames)
  /\ \A n \in 1 .. Len(st) : n < Len(st) => st[n].at = "body"
  /\ \A n \in 1 .. Len(st) : FrameOK(st[n], ls, ms, u)
  /\ Clean(u) => \A n \in 1 .. Len(st) : st[n].at = "pass" => Len(st) = 1

(* m_currently_making_callbacks is off outside of the loops of all calls. *)
QuietOK(st, mk) ==
  /\ st = <<>> => ~mk
  /\ Len(st) = 1 /\ st[1].at \notin {"loop", "body"} => ~mk

IInv ==
  /\ use \in Uses /\ making \in BOOLEAN /\ alive \in BOOLEAN
  /\ ListsOK(lists, members, fresh, use, enqueued, alive)
  /\ StackOK(stack, lists, members, use)
  /\ QuietOK(stack, making)
-----------------------------------------------------------------------------
(* Counting a prefix of the indices counts up to its last one. *)
LEMMA Prefix ==
  ASSUME NEW n \in Nat, NEW S \in SUBSET (1 .. n),
         \A j, k \in 1 .. n : k \in S /\ j < k => j \in S
  PROVE  Cardinality(S) \in 0 .. n /\ S = 1 .. Cardinality(S)
<1>1. IsFiniteSet(1 .. n) /\ Cardinality(1 .. n) = n
  BY FS_Interval
<1>2. IsFiniteSet(S) /\ Cardinality(S) <= n
  BY <1>1, FS_Subset
<1>3. Cardinality(S) \in Nat
  BY <1>2, FS_CardinalityType
<1>4. \A k \in S : k <= Cardinality(S)
  <2> SUFFICES ASSUME NEW k \in S PROVE k <= Cardinality(S)
    OBVIOUS
  <2>1. 1 .. k \in SUBSET S
    OBVIOUS
  <2>2. Cardinality(1 .. k) <= Cardinality(S)
    BY <2>1, <1>2, FS_Subset
  <2>3. Cardinality(1 .. k) = k
    BY FS_Interval
  <2> QED BY <2>2, <2>3
<1>5. S \in SUBSET (1 .. Cardinality(S))
  BY <1>3, <1>4
<1>6. IsFiniteSet(1 .. Cardinality(S)) /\ Cardinality(1 .. Cardinality(S)) = Cardinality(S)
  BY <1>3, FS_Interval
<1>7. 1 .. Cardinality(S) = S
  BY <1>5, <1>6, FS_Subset
<1> QED BY <1>2, <1>3, <1>7

(* Induction up to a number, over a set. *)
LEMMA UpTo ==
  ASSUME NEW n \in Nat, NEW S, 0 \in S, \A j \in 0 .. n - 1 : j \in S => j + 1 \in S
  PROVE  \A j \in 0 .. n : j \in S
<1> DEFINE T == {j \in 1 .. n : \A i \in 0 .. j : i \in S}
           c == Cardinality(T)
<1>1. T \in SUBSET (1 .. n)
  OBVIOUS
<1>2. \A j, k \in 1 .. n : k \in T /\ j < k => j \in T
  OBVIOUS
<1>3. \A j \in 1 .. n : j \in T <=> \A i \in 0 .. j : i \in S
  OBVIOUS
<1> HIDE DEF T
<1>4. c \in 0 .. n /\ T = 1 .. c
  BY <1>1, <1>2, Prefix
<1> HIDE DEF c
<1>5. \A i \in 0 .. c : i \in S
  <2>1. CASE c = 0
    BY <2>1
  <2>2. CASE c # 0
    <3>1. c \in T /\ c \in 1 .. n
      BY <1>4, <2>2
    <3> QED BY <1>3, <3>1
  <2> QED BY <2>1, <2>2
<1>6. c = n
  <2> SUFFICES ASSUME c # n PROVE FALSE
    OBVIOUS
  <2>1. c \in 0 .. n - 1 /\ c + 1 \in 1 .. n /\ c \in 0 .. c
    BY <1>4
  <2>2. c + 1 \in S
    BY <1>5, <2>1
  <2>3. \A i \in 0 .. c + 1 : i \in 0 .. c \/ i = c + 1
    BY <1>4
  <2>4. c + 1 \in T
    BY <1>3, <1>5, <2>1, <2>2, <2>3
  <2> QED BY <1>4, <2>4
<1> QED BY <1>5, <1>6

(* A set of indices has a least one. *)
LEMMA LeastExists ==
  ASSUME NEW n \in Nat, NEW I \in SUBSET (1 .. n), I # {}
  PROVE  Min(I) \in I /\ \A k \in I : Min(I) <= k
<1> SUFFICES \E m \in I : \A k \in I : m <= k
  BY DEF Min
<1> SUFFICES ASSUME \A m \in I : \E k \in I : ~ (m <= k) PROVE FALSE
  OBVIOUS
<1> DEFINE S == {j \in 0 .. n : \A k \in I : j < k}
<1>1. 0 \in S
  OBVIOUS
<1>2. ASSUME NEW j \in 0 .. n - 1, j \in S PROVE j + 1 \in S
  <2>1. j + 1 \notin I
    <3> SUFFICES ASSUME j + 1 \in I PROVE FALSE
      OBVIOUS
    <3>1. PICK k \in I : ~ (j + 1 <= k)
      OBVIOUS
    <3>2. k \in Nat /\ j < k
      BY <1>2
    <3> QED BY <3>1, <3>2
  <2>2. \A k \in I : k \in Nat /\ j < k /\ k # j + 1
    BY <1>2, <2>1
  <2> QED BY <2>2
<1>3. \A j \in 0 .. n : j \in S
  <2> HIDE DEF S
  <2> QED BY <1>1, <1>2, UpTo
<1>4. \A k \in I : n < k /\ k \in 1 .. n
  BY <1>3
<1>5. PICK k \in I : TRUE
  OBVIOUS
<1>6. n < k /\ k <= n /\ k \in Nat
  BY <1>4
<1> QED BY <1>6

(* The names of the lists. *)
LEMMA Names ==
  ListNames = {"pre_read", "post_read", "reject_write", "pre_write", "post_write", "destroy_param"}
  BY DEF ListNames, ListOrder, Range
-----------------------------------------------------------------------------
(* What vector::erase leaves. *)
LEMMA Removed ==
  ASSUME NEW S, NEW s \in Seq(S), NEW i \in 1 .. Len(s)
  PROVE  /\ RemoveAt(s, i) \in Seq(S) /\ Len(RemoveAt(s, i)) = Len(s) - 1
         /\ DOMAIN RemoveAt(s, i) = 1 .. Len(s) - 1
         /\ \A k \in 1 .. Len(s) - 1 : RemoveAt(s, i)[k] = IF k < i THEN s[k] ELSE s[k + 1]
<1> DEFINE u == SubSeq(s, 1, i - 1)
           v == SubSeq(s, i + 1, Len(s))
<1>0. Len(s) \in Nat /\ i \in Nat
  OBVIOUS
<1>1. /\ u \in Seq(S) /\ Len(u) = i - 1
      /\ \A k \in 1 .. i - 1 : u[k] = s[k]
  BY <1>0
<1>2. /\ v \in Seq(S) /\ Len(v) = Len(s) - i
      /\ \A k \in 1 .. Len(s) - i : v[k] = s[i + k]
  BY <1>0
<1>3. RemoveAt(s, i) = u \o v
  BY DEF RemoveAt
<1> HIDE DEF u, v
<1>4. /\ u \o v \in Seq(S) /\ Len(u \o v) = Len(u) + Len(v)
      /\ \A k \in 1 .. Len(u) + Len(v) :
           (u \o v)[k] = IF k <= Len(u) THEN u[k] ELSE v[k - Len(u)]
  BY <1>1, <1>2, ConcatProperties
<1>5. Len(u) + Len(v) = Len(s) - 1
  BY <1>0, <1>1, <1>2
<1>6. \A k \in 1 .. Len(s) - 1 : (u \o v)[k] = IF k < i THEN s[k] ELSE s[k + 1]
  <2> SUFFICES ASSUME NEW k \in 1 .. Len(s) - 1
               PROVE  (u \o v)[k] = IF k < i THEN s[k] ELSE s[k + 1]
    OBVIOUS
  <2>1. CASE k < i
    BY <1>0, <1>1, <1>4, <1>5, <2>1
  <2>2. CASE ~ (k < i)
    <3>1. k - (i - 1) \in 1 .. Len(s) - i /\ i + (k - (i - 1)) = k + 1
      BY <1>0, <2>2
    <3>2. (u \o v)[k] = v[k - (i - 1)]
      BY <1>0, <1>1, <1>4, <1>5, <2>2
    <3> QED BY <1>2, <2>2, <3>1, <3>2
  <2> QED BY <2>1, <2>2
<1>7. DOMAIN (u \o v) = 1 .. Len(s) - 1
  BY <1>4, <1>5
<1> QED BY <1>3, <1>4, <1>5, <1>6, <1>7

(* Erasing keeps distinct entries distinct, and all of them but one.          *)
LEMMA RemovedEntries ==
  ASSUME NEW s \in Seq(Entries), NEW i \in 1 .. Len(s), Distinct(s)
  PROVE  /\ Distinct(RemoveAt(s, i))
         /\ \A e : IsEntry(e, RemoveAt(s, i)) => IsEntry(e, s) /\ e.ad # s[i].ad
         /\ \A e : IsEntry(e, s) /\ e.ad # s[i].ad => IsEntry(e, RemoveAt(s, i))
<1> DEFINE r == RemoveAt(s, i)
           at(k) == IF k < i THEN k ELSE k + 1
<1>0. Len(s) \in Nat /\ i \in Nat /\ DOMAIN s = 1 .. Len(s)
  OBVIOUS
<1>1. /\ DOMAIN r = 1 .. Len(s) - 1
      /\ \A k \in 1 .. Len(s) - 1 : r[k] = s[at(k)]
  BY Removed
<1> HIDE DEF r
<1>2. \A k \in 1 .. Len(s) - 1 : at(k) \in 1 .. Len(s) /\ at(k) # i
  BY <1>0
<1>3. \A j, k \in 1 .. Len(s) - 1 : at(j) = at(k) => j = k
  BY <1>0
<1>4. \A m \in 1 .. Len(s) : m # i => \E k \in 1 .. Len(s) - 1 : m = at(k)
  <2> SUFFICES ASSUME NEW m \in 1 .. Len(s), m # i PROVE \E k \in 1 .. Len(s) - 1 : m = at(k)
    OBVIOUS
  <2>1. m < i => m \in 1 .. Len(s) - 1 /\ m = at(m)
    BY <1>0
  <2>2. m > i => m - 1 \in 1 .. Len(s) - 1 /\ m = at(m - 1)
    BY <1>0
  <2> QED BY <1>0, <2>1, <2>2
<1> HIDE DEF at
<1>5. Distinct(r)
  BY <1>0, <1>1, <1>2, <1>3 DEF Distinct
<1>6. \A e : IsEntry(e, r) => IsEntry(e, s) /\ e.ad # s[i].ad
  BY <1>0, <1>1, <1>2 DEF IsEntry, Distinct
<1>7. \A e : IsEntry(e, s) /\ e.ad # s[i].ad => IsEntry(e, r)
  <2> SUFFICES ASSUME NEW e, NEW m \in 1 .. Len(s), s[m] = e, e.ad # s[i].ad PROVE IsEntry(e, r)
    BY <1>0 DEF IsEntry
  <2>1. m # i
    OBVIOUS
  <2>2. PICK k \in 1 .. Len(s) - 1 : m = at(k)
    BY <1>4, <2>1
  <2> QED BY <1>1, <2>2 DEF IsEntry
<1> QED BY <1>5, <1>6, <1>7 DEF r
-----------------------------------------------------------------------------
(* t is s after some entries have been erased. *)
Thinned(s, t) == /\ t \in Seq(Entries) /\ Distinct(t)
                 /\ \A e : IsEntry(e, t) => IsEntry(e, s)

(* One entry of the clean-up erases at most one entry, and never one outside  *)
(* of the list.                                                               *)
LEMMA CleanStepThins ==
  ASSUME NEW s, NEW c, NEW k \in Nat \ {0}, Thinned(s, c.list), k <= Len(c.list)
  PROVE  /\ Thinned(s, CleanStep(c, k).list)
         /\ Len(CleanStep(c, k).list) >= k - 1
<1> DEFINE off == ~c.list[k].on
           left == IF off THEN (c.count - 1) % CounterModulus ELSE c.count
           m == IF k = Len(c.list) THEN k ELSE k + 1
           t == IF off THEN RemoveAt(c.list, m) ELSE c.list
<1>0. c.list \in Seq(Entries) /\ Len(c.list) \in Nat
  BY DEF Thinned
<1>1. m \in 1 .. Len(c.list)
  BY <1>0
<1>2. CleanStep(c, k).list = IF c.stop THEN c.list ELSE t
  <2>1. CleanStep(c, k) = IF c.stop THEN c ELSE [list |-> t, count |-> left, stop |-> left = 0]
    BY DEF CleanStep
  <2> HIDE DEF t, left
  <2> QED BY <2>1
<1> HIDE DEF m
<1>3. Thinned(s, RemoveAt(c.list, m)) /\ Len(RemoveAt(c.list, m)) = Len(c.list) - 1
  <2>1. RemoveAt(c.list, m) \in Seq(Entries) /\ Len(RemoveAt(c.list, m)) = Len(c.list) - 1
    BY <1>0, <1>1, Removed
  <2>2. Distinct(c.list)
    BY DEF Thinned
  <2>3. /\ Distinct(RemoveAt(c.list, m))
        /\ \A e : IsEntry(e, RemoveAt(c.list, m)) => IsEntry(e, c.list)
    BY <1>0, <1>1, <2>2, RemovedEntries
  <2> QED BY <2>1, <2>3 DEF Thinned
<1> QED BY <1>0, <1>2, <1>3

(* The loop of cleanup_callback_list over one list. *)
LEMMA CleanListThins ==
  ASSUME NEW s \in Seq(Entries), Distinct(s), NEW count
  PROVE  Thinned(s, CleanList(s, count).list)
<1> DEFINE n == Len(s)
           b == [list |-> s, count |-> count, stop |-> FALSE]
           IsLoop(g, m) == g = [j \in 0 .. m |-> IF j = 0 THEN b ELSE CleanStep(g[j - 1], n - j + 1)]
           f == CHOOSE g : IsLoop(g, n)
           S == {m \in 0 .. n : \E g : IsLoop(g, m)}
<1>0. n \in Nat
  OBVIOUS
<1>1. CleanList(s, count) = f[n]
  BY Zenon DEF CleanList
<1> HIDE DEF n, b
<1>2. 0 \in S
  <2> DEFINE g == [j \in 0 .. 0 |-> b]
  <2>1. \A j \in 0 .. 0 : j = 0
    OBVIOUS
  <2>2. g = [j \in 0 .. 0 |-> IF j = 0 THEN b ELSE CleanStep(g[j - 1], n - j + 1)]
    BY <2>1
  <2>3. IsLoop(g, 0) /\ 0 \in 0 .. n
    BY <1>0, <2>2
  <2> HIDE DEF IsLoop, g
  <2> QED BY <2>3
<1>3. ASSUME NEW m \in 0 .. n - 1, m \in S PROVE m + 1 \in S
  <2>1. PICK g : IsLoop(g, m)
    BY <1>3
  <2> DEFINE h == [j \in 0 .. m + 1 |-> IF j = m + 1 THEN CleanStep(g[m], n - j + 1) ELSE g[j]]
             d == [j \in 0 .. m + 1 |-> IF j = 0 THEN b ELSE CleanStep(h[j - 1], n - j + 1)]
  <2>2. ASSUME NEW j \in 0 .. m + 1 PROVE h[j] = d[j]
    <3>1. CASE j = m + 1
      <4>1. h[j] = CleanStep(g[m], n - j + 1)
        BY <3>1
      <4>2. j # 0 /\ j - 1 = m /\ m \in 0 .. m + 1 /\ m # m + 1
        BY <1>0, <3>1
      <4>3. h[m] = g[m]
        BY <4>2
      <4>4. d[j] = CleanStep(h[j - 1], n - j + 1)
        BY <4>2
      <4> HIDE DEF h, d
      <4> QED BY <4>1, <4>2, <4>3, <4>4
    <3>2. CASE j # m + 1
      <4>1. h[j] = g[j] /\ j \in 0 .. m
        BY <1>0, <3>2
      <4>2. g[j] = IF j = 0 THEN b ELSE CleanStep(g[j - 1], n - j + 1)
        BY <2>1, <4>1
      <4>3. CASE j = 0
        <5>1. d[j] = b
          BY <4>3
        <5> HIDE DEF h, d
        <5> QED BY <4>1, <4>2, <4>3, <5>1
      <4>4. CASE j # 0
        <5>1. j - 1 \in 0 .. m + 1 /\ j - 1 # m + 1
          BY <1>0, <4>1, <4>4
        <5>2. h[j - 1] = g[j - 1]
          BY <5>1
        <5>3. d[j] = CleanStep(h[j - 1], n - j + 1)
          BY <4>4
        <5> HIDE DEF h, d
        <5> QED BY <4>1, <4>2, <4>4, <5>2, <5>3
      <4> QED BY <4>3, <4>4
    <3> QED BY <3>1, <3>2
  <2>3. h = [j \in 0 .. m + 1 |-> h[j]] /\ d = [j \in 0 .. m + 1 |-> d[j]]
    OBVIOUS
  <2>4. h = d
    <3> HIDE DEF h, d
    <3> QED BY <2>2, <2>3, Zenon
  <2>5. IsLoop(h, m + 1)
    BY <2>4
  <2>6. m + 1 \in 0 .. n
    BY <1>0
  <2> HIDE DEF IsLoop, h
  <2> QED BY <2>5, <2>6
<1>4. \A m \in 0 .. n : m \in S
  <2> HIDE DEF S
  <2> QED BY <1>0, <1>2, <1>3, UpTo
<1>5. n \in S
  <2> HIDE DEF S
  <2> QED BY <1>0, <1>4
<1>6. IsLoop(f, n)
  <2>1. \E g : IsLoop(g, n)
    BY <1>5
  <2> HIDE DEF IsLoop
  <2> QED BY <2>1
<1>7. \A j \in 0 .. n : f[j] = IF j = 0 THEN b ELSE CleanStep(f[j - 1], n - j + 1)
  <2> HIDE DEF f
  <2> QED BY <1>6
<1> HIDE DEF f, S, IsLoop
<1> DEFINE G == {j \in 0 .. n : Thinned(s, f[j].list) /\ Len(f[j].list) >= n - j}
<1>8. 0 \in G
  <2>1. f[0] = b /\ 0 \in 0 .. n
    BY <1>0, <1>7
  <2>2. f[0].list = s
    BY <2>1 DEF b
  <2>3. Thinned(s, s)
    BY DEF Thinned
  <2> QED BY <1>0, <2>1, <2>2, <2>3 DEF n
<1>9. ASSUME NEW j \in 0 .. n - 1, j \in G PROVE j + 1 \in G
  <2>1. j + 1 \in 0 .. n /\ j + 1 # 0 /\ (j + 1) - 1 = j /\ n - (j + 1) + 1 = n - j
    BY <1>0
  <2>2. f[j + 1] = CleanStep(f[(j + 1) - 1], n - (j + 1) + 1)
    BY <1>7, <2>1
  <2>3. f[j + 1] = CleanStep(f[j], n - j)
    BY <2>1, <2>2
  <2>4. n - j \in Nat \ {0} /\ Thinned(s, f[j].list) /\ n - j <= Len(f[j].list)
    BY <1>0, <1>9 DEF Thinned
  <2> DEFINE k == n - j
  <2>5. k \in Nat \ {0} /\ k <= Len(f[j].list) /\ f[j + 1] = CleanStep(f[j], k)
    BY <2>3, <2>4
  <2> HIDE DEF k
  <2>6. /\ Thinned(s, CleanStep(f[j], k).list)
        /\ Len(CleanStep(f[j], k).list) >= k - 1
    BY <2>4, <2>5, CleanStepThins
  <2>7. k - 1 = n - (j + 1)
    BY <1>0 DEF k
  <2> QED BY <2>1, <2>5, <2>6, <2>7
<1>10. \A j \in 0 .. n : j \in G
  <2> HIDE DEF G
  <2> QED BY <1>0, <1>8, <1>9, UpTo
<1> QED BY <1>0, <1>1, <1>10

(* ... and over all lists. *)
LEMMA CleanAllThins ==
  ASSUME lists \in [ListNames -> Seq(Entries)], \A l \in ListNames : Distinct(lists[l])
  PROVE  /\ CleanAll.lists \in [ListNames -> Seq(Entries)]
         /\ \A l \in ListNames : Thinned(lists[l], CleanAll.lists[l])
<1> DEFINE n == Len(ListOrder)
           b == [lists |-> lists, count |-> enqueued]
           Step(a, k) == LET c == CleanList(a.lists[ListOrder[k]], a.count)
                         IN [lists |-> [a.lists EXCEPT ![ListOrder[k]] = c.list], count |-> c.count]
           IsLoop(g, m) == g = [j \in 0 .. m |-> IF j = 0 THEN b ELSE Step(g[j - 1], j)]
           f == CHOOSE g : IsLoop(g, n)
           S == {m \in 0 .. n : \E g : IsLoop(g, m)}
<1>0. n = 6 /\ n \in Nat /\ \A k \in 1 .. 6 : ListOrder[k] \in ListNames
  BY DEF ListOrder, ListNames, Range
<1>1. CleanAll = f[n]
  BY Zenon DEF CleanAll
<1> HIDE DEF n, b, Step
<1>2. 0 \in S
  <2> DEFINE g == [j \in 0 .. 0 |-> b]
  <2>1. \A j \in 0 .. 0 : j = 0
    OBVIOUS
  <2>2. g = [j \in 0 .. 0 |-> IF j = 0 THEN b ELSE Step(g[j - 1], j)]
    BY <2>1
  <2>3. IsLoop(g, 0) /\ 0 \in 0 .. n
    BY <1>0, <2>2
  <2> HIDE DEF IsLoop, g
  <2> QED BY <2>3
<1>3. ASSUME NEW m \in 0 .. n - 1, m \in S PROVE m + 1 \in S
  <2>1. PICK g : IsLoop(g, m)
    BY <1>3
  <2> DEFINE h == [j \in 0 .. m + 1 |-> IF j = m + 1 THEN Step(g[m], j) ELSE g[j]]
             d == [j \in 0 .. m + 1 |-> IF j = 0 THEN b ELSE Step(h[j - 1], j)]
  <2>2. ASSUME NEW j \in 0 .. m + 1 PROVE h[j] = d[j]
    <3>1. CASE j = m + 1
      <4>1. h[j] = Step(g[m], j)
        BY <3>1
      <4>2. j # 0 /\ j - 1 = m /\ m \in 0 .. m + 1 /\ m # m + 1
        BY <1>0, <3>1
      <4>3. h[m] = g[m]
        BY <4>2
      <4>4. d[j] = Step(h[j - 1], j)
        BY <4>2
      <4> HIDE DEF h, d
      <4> QED BY <4>1, <4>2, <4>3, <4>4
    <3>2. CASE j # m + 1
      <4>1. h[j] = g[j] /\ j \in 0 .. m
        BY <1>0, <3>2
      <4>2. g[j] = IF j = 0 THEN b ELSE Step(g[j - 1], j)
        BY <2>1, <4>1
      <4>3. CASE j = 0
        <5>1. d[j] = b
          BY <4>3
        <5> HIDE DEF h, d
        <5> QED BY <4>1, <4>2, <4>3, <5>1
      <4>4. CASE j # 0
        <5>1. j - 1 \in 0 .. m + 1 /\ j - 1 # m + 1
          BY <1>0, <4>1, <4>4
        <5>2. h[j - 1] = g[j - 1]
          BY <5>1
        <5>3. d[j] = Step(h[j - 1], j)
          BY <4>4
        <5> HIDE DEF h, d
        <5> QED BY <4>1, <4>2, <4>4, <5>2, <5>3
      <4> QED BY <4>3, <4>4
    <3> QED BY <3>1, <3>2
  <2>3. h = [j \in 0 .. m + 1 |-> h[j]] /\ d = [j \in 0 .. m + 1 |-> d[j]]
    OBVIOUS
  <2>4. h = d
    <3> HIDE DEF h, d
    <3> QED BY <2>2, <2>3, Zenon
  <2>5. IsLoop(h, m + 1)
    BY <2>4
  <2>6. m + 1 \in 0 .. n
    BY <1>0
  <2> HIDE DEF IsLoop, h
  <2> QED BY <2>5, <2>6
<1>4. \A m \in 0 .. n : m \in S
  <2> HIDE DEF S
  <2> QED BY <1>0, <1>2, <1>3, UpTo
<1>5. n \in S
  <2> HIDE DEF S
  <2> QED BY <1>0, <1>4
<1>6. IsLoop(f, n)
  <2>1. \E g : IsLoop(g, n)
    BY <1>5
  <2> HIDE DEF IsLoop
  <2> QED BY <2>1
<1>7. \A j \in 0 .. n : f[j] = IF j = 0 THEN b ELSE Step(f[j - 1], j)
  <2> HIDE DEF f
  <2> QED BY <1>6
<1> HIDE DEF f, S, IsLoop
<1> DEFINE G == {j \in 0 .. n : /\ f[j].lists \in [ListNames -> Seq(Entries)]
                                /\ \A l \in ListNames : Thinned(lists[l], f[j].lists[l])}
<1>8. 0 \in G
  <2>1. f[0] = b /\ 0 \in 0 .. n
    BY <1>0, <1>7
  <2>2. f[0].lists = lists
    BY <2>1 DEF b
  <2>3. \A l \in ListNames : Thinned(lists[l], lists[l])
    BY DEF Thinned
  <2> QED BY <2>1, <2>2, <2>3
<1>9. ASSUME NEW j \in 0 .. n - 1, j \in G PROVE j + 1 \in G
  <2>1. j + 1 \in 0 .. n /\ j + 1 # 0 /\ (j + 1) - 1 = j
    BY <1>0
  <2>2. f[j + 1] = Step(f[(j + 1) - 1], j + 1)
    BY <1>7, <2>1
  <2>3. f[j + 1] = Step(f[j], j + 1)
    BY <2>1, <2>2
  <2> DEFINE a == f[j].lists
             x == ListOrder[j + 1]
             c == CleanList(a[x], f[j].count)
  <2>4. f[j + 1].lists = [a EXCEPT ![x] = c.list]
    BY <2>3 DEF Step
  <2>5. a \in [ListNames -> Seq(Entries)] /\ \A l \in ListNames : Thinned(lists[l], a[l])
    BY <1>9
  <2>6. x \in ListNames
    <3>1. j + 1 \in 1 .. 6
      BY <1>0
    <3> QED BY <1>0, <3>1
  <2> HIDE DEF a, x
  <2>7. Thinned(a[x], c.list)
    <3>1. a[x] \in Seq(Entries) /\ Distinct(a[x])
      BY <2>5, <2>6 DEF Thinned
    <3> QED BY <3>1, CleanListThins
  <2> HIDE DEF c
  <2>8. Thinned(lists[x], c.list)
    BY <2>5, <2>6, <2>7 DEF Thinned
  <2>9. f[j + 1].lists \in [ListNames -> Seq(Entries)]
    BY <2>4, <2>5, <2>6, <2>8 DEF Thinned
  <2>10. \A l \in ListNames : Thinned(lists[l], f[j + 1].lists[l])
    BY <2>4, <2>5, <2>6, <2>8
  <2> QED BY <2>1, <2>9, <2>10
<1>10. \A j \in 0 .. n : j \in G
  <2> HIDE DEF G
  <2> QED BY <1>0, <1>8, <1>9, UpTo
<1>11. n \in G
  <2> HIDE DEF G
  <2> QED BY <1>0, <1>10
<1> QED BY <1>1, <1>11
-----------------------------------------------------------------------------
(* The first entry of a list for some adapters. *)
LEMMA FirstOfFinds ==
  ASSUME NEW l \in ListNames, lists[l] \in Seq(Entries), NEW A
  PROVE  /\ FirstOf(l, A) = 0 => \A k \in DOMAIN lists[l] : lists[l][k].ad \notin A
         /\ FirstOf(l, A) # 0 => /\ FirstOf(l, A) \in 1 .. Len(lists[l])
                                 /\ lists[l][FirstOf(l, A)].ad \in A
<1> DEFINE I == {k \in 1 .. Len(lists[l]) : lists[l][k].ad \in A}
<1>0. Len(lists[l]) \in Nat /\ DOMAIN lists[l] = 1 .. Len(lists[l])
  OBVIOUS
<1>1. FirstOf(l, A) = IF I # {} THEN Min(I) ELSE 0
  BY DEF FirstOf, SelectInSeq
<1>2. I \in SUBSET (1 .. Len(lists[l]))
  OBVIOUS
<1>3. I # {} => Min(I) \in I
  <2> HIDE DEF I
  <2> QED BY <1>0, <1>2, LeastExists
<1>4. \A k \in 1 .. Len(lists[l]) : k \in I <=> lists[l][k].ad \in A
  OBVIOUS
<1>5. I # {} => Min(I) # 0
  BY <1>2, <1>3
<1> HIDE DEF I
<1> QED BY <1>0, <1>1, <1>2, <1>3, <1>4, <1>5
-----------------------------------------------------------------------------
(* A call that begins. *)
LEMMA PushOK ==
  ASSUME NEW st, NEW ls, NEW ms, NEW u, StackOK(st, ls, ms, u),
         NEW f \in Frames, FrameOK(f, ls, ms, u),
         st = <<>> \/ st[Len(st)].at = "body",
         f.at = "pass" /\ Clean(u) => st = <<>>
  PROVE  /\ StackOK(Append(st, f), ls, ms, u)
         /\ Append(st, f) # <<>> /\ (Len(Append(st, f)) = 1 => st = <<>>)
<1>0. st \in Seq(Frames) /\ Len(st) \in Nat
  BY DEF StackOK
<1> DEFINE t == Append(st, f)
<1>1. /\ t \in Seq(Frames) /\ Len(t) = Len(st) + 1 /\ t[Len(st) + 1] = f
      /\ \A n \in 1 .. Len(st) : t[n] = st[n]
  BY <1>0
<1> HIDE DEF t
<1>2. ASSUME NEW n \in 1 .. Len(t), n < Len(t) PROVE t[n].at = "body"
  <2>1. n \in 1 .. Len(st) /\ st # <<>>
    BY <1>0, <1>1, <1>2
  <2>2. n < Len(st) => st[n].at = "body"
    BY <2>1 DEF StackOK
  <2> QED BY <1>0, <1>1, <2>1, <2>2
<1>3. ASSUME NEW n \in 1 .. Len(t) PROVE FrameOK(t[n], ls, ms, u)
  <2>1. n = Len(st) + 1 \/ n \in 1 .. Len(st)
    BY <1>0, <1>1
  <2>2. n \in 1 .. Len(st) => FrameOK(st[n], ls, ms, u)
    BY DEF StackOK
  <2> QED BY <1>1, <2>1, <2>2
<1>4. ASSUME Clean(u), NEW n \in 1 .. Len(t), t[n].at = "pass" PROVE Len(t) = 1
  <2>1. CASE n = Len(st) + 1
    <3>1. st = <<>>
      BY <1>1, <1>4, <2>1
    <3> QED BY <1>1, <3>1
  <2>2. CASE n # Len(st) + 1
    <3>1. n \in 1 .. Len(st) /\ st[n].at = "pass" /\ st # <<>>
      BY <1>0, <1>1, <1>4, <2>2
    <3>2. Len(st) = 1
      BY <1>4, <3>1 DEF StackOK
    <3> QED BY <3>1, <3>2
  <2> QED BY <2>1, <2>2
<1>5. t # <<>> /\ (Len(t) = 1 => st = <<>>)
  BY <1>0, <1>1
<1> QED BY <1>1, <1>2, <1>3, <1>4, <1>5 DEF StackOK, t

WithTop(st, g) == [st EXCEPT ![Len(st)] = g]

(* The innermost call goes on. *)
LEMMA TopOK ==
  ASSUME NEW st, NEW ls, NEW ms, NEW u, StackOK(st, ls, ms, u), st # <<>>,
         NEW g \in Frames, FrameOK(g, ls, ms, u), g.at # "pass"
  PROVE  /\ StackOK(WithTop(st, g), ls, ms, u)
         /\ Len(WithTop(st, g)) = Len(st) /\ WithTop(st, g) # <<>>
         /\ WithTop(st, g)[Len(WithTop(st, g))] = g
<1>0. st \in Seq(Frames) /\ Len(st) \in Nat \ {0} /\ Len(st) \in 1 .. Len(st)
  BY DEF StackOK
<1> DEFINE t == [st EXCEPT ![Len(st)] = g]
<1>1. /\ t \in Seq(Frames) /\ Len(t) = Len(st) /\ t # <<>>
      /\ \A n \in 1 .. Len(st) : t[n] = IF n = Len(st) THEN g ELSE st[n]
  BY <1>0
<1>7. WithTop(st, g) = t
  BY DEF WithTop
<1> HIDE DEF t
<1>2. \A n \in 1 .. Len(t) : n < Len(t) => t[n].at = "body"
  BY <1>0, <1>1 DEF StackOK
<1>3. \A n \in 1 .. Len(t) : FrameOK(t[n], ls, ms, u)
  BY <1>0, <1>1 DEF StackOK
<1>4. Clean(u) => \A n \in 1 .. Len(t) : t[n].at = "pass" => Len(t) = 1
  BY <1>0, <1>1 DEF StackOK
<1>5. t[Len(t)] = g
  BY <1>0, <1>1
<1> QED BY <1>1, <1>2, <1>3, <1>4, <1>5, <1>7 DEF StackOK

(* The innermost call returns. *)
LEMMA PopOK ==
  ASSUME NEW st, NEW ls, NEW ms, NEW u, StackOK(st, ls, ms, u), st # <<>>
  PROVE  /\ StackOK(Front(st), ls, ms, u)
         /\ Len(st) = 1 => Front(st) = <<>>
         /\ Len(st) # 1 => Front(st) # <<>> /\ Front(st)[Len(Front(st))].at = "body"
<1>0. st \in Seq(Frames) /\ Len(st) \in Nat \ {0}
  BY DEF StackOK
<1> DEFINE t == Front(st)
<1>1. /\ t \in Seq(Frames) /\ Len(t) = Len(st) - 1
      /\ \A n \in 1 .. Len(st) - 1 : t[n] = st[n]
  <2>1. t = SubSeq(st, 1, Len(st) - 1)
    BY DEF Front
  <2> DEFINE m == Len(st) - 1
  <2>2. m \in Nat /\ m <= Len(st)
    BY <1>0
  <2> HIDE DEF m, t
  <2>3. /\ SubSeq(st, 1, m) \in Seq(Frames) /\ Len(SubSeq(st, 1, m)) = m
        /\ \A n \in 1 .. m : SubSeq(st, 1, m)[n] = st[n]
    BY <1>0, <2>2
  <2>4. t = SubSeq(st, 1, m)
    BY <2>1 DEF m
  <2> QED BY <2>3, <2>4 DEF m
<1> HIDE DEF t
<1>2. \A n \in 1 .. Len(t) : n \in 1 .. Len(st) /\ n < Len(st) /\ t[n] = st[n]
  BY <1>0, <1>1
<1>3. \A n \in 1 .. Len(t) : t[n].at = "body" /\ FrameOK(t[n], ls, ms, u)
  BY <1>2 DEF StackOK
<1>4. StackOK(t, ls, ms, u)
  BY <1>1, <1>3 DEF StackOK
<1>5. Len(st) = 1 => t = <<>>
  BY <1>1
<1>6. Len(st) # 1 => t # <<>> /\ Len(t) \in 1 .. Len(t)
  BY <1>0, <1>1
<1> QED BY <1>3, <1>4, <1>5, <1>6 DEF t

(* Lists that change under the calls in progress: without clean-ups, loops    *)
(* only see entries added at the end.                                         *)
LEMMA StackStays ==
  ASSUME NEW st, NEW ls, NEW ms, NEW l2, NEW m2, NEW u, StackOK(st, ls, ms, u),
         ASSUME NEW n \in 1 .. Len(st), Clean(u), NEW f, f = st[n]
         PROVE  /\ f.at \in {"loop", "body"} =>
                     /\ Len(ls[f.reason]) \in Nat /\ Len(l2[f.reason]) \in Nat
                     /\ DOMAIN ls[f.reason] = 1 .. Len(ls[f.reason])
                     /\ DOMAIN l2[f.reason] = 1 .. Len(l2[f.reason])
                     /\ Len(ls[f.reason]) <= Len(l2[f.reason])
                     /\ \A k \in 1 .. Len(ls[f.reason]) : l2[f.reason][k] = ls[f.reason][k]
                /\ f.at = "after" => m2 \in SUBSET ms
  PROVE  StackOK(st, l2, m2, u)
<1>1. ASSUME NEW n \in 1 .. Len(st) PROVE FrameOK(st[n], l2, m2, u)
  <2> DEFINE f == st[n]
             L == ls[f.reason]
             M == l2[f.reason]
  <2>1. FrameOK(f, ls, ms, u)
    BY DEF StackOK
  <2>2. Clean(u) =>
          /\ f.at \in {"loop", "body"} =>
               /\ Len(L) \in Nat /\ Len(M) \in Nat /\ DOMAIN L = 1 .. Len(L) /\ DOMAIN M = 1 .. Len(M)
               /\ Len(L) <= Len(M) /\ \A k \in 1 .. Len(L) : M[k] = L[k]
          /\ f.at = "after" => m2 \in SUBSET ms
    OBVIOUS
  <2>0. st[n] \in Frames
    BY DEF StackOK
  <2>3. Len(f.seen) \in Nat
    BY <2>0 DEF Frames
  <2> HIDE DEF f, L, M
  <2>4. ASSUME Clean(u), LoopOK(f, L), f.at \in {"loop", "body"} PROVE LoopOK(f, M)
    <3>1. /\ Len(L) \in Nat /\ Len(M) \in Nat /\ DOMAIN L = 1 .. Len(L) /\ DOMAIN M = 1 .. Len(M)
          /\ Len(L) <= Len(M) /\ \A k \in 1 .. Len(L) : M[k] = L[k]
      BY <2>2, <2>4
    <3>2. Len(f.seen) <= Len(M)
      BY <2>3, <2>4, <3>1 DEF LoopOK
    <3>3. \A j \in 1 .. Len(f.seen) : f.seen[j] = M[j].ad
      BY <2>3, <2>4, <3>1 DEF LoopOK
    <3>4. \A a \in f.due : \E k \in DOMAIN M : M[k].ad = a
      BY <2>4, <3>1 DEF LoopOK
    <3> QED BY <2>4, <3>2, <3>3, <3>4 DEF LoopOK
  <2>5. ASSUME Clean(u), LoopOK(f, L) PROVE LoopOK(f, M)
    BY <2>4, <2>5 DEF LoopOK
  <2>6. ASSUME Clean(u), LoopDone(f, ms) PROVE LoopDone(f, m2)
    BY <2>2, <2>6 DEF LoopDone
  <2> QED BY <2>1, <2>5, <2>6 DEF FrameOK, f, L, M
<1> QED BY <1>1 DEF StackOK
-----------------------------------------------------------------------------
(* What the invariant says of the innermost call. *)
LEMMA TopFacts ==
  ASSUME IInv, stack # <<>>
  PROVE  /\ Top \in Frames /\ FrameOK(Top, lists, members, use) /\ Top.reason \in ListNames
         /\ Len(stack) \in Nat \ {0}
         /\ lists[Top.reason] \in Seq(Entries) /\ Len(lists[Top.reason]) \in Nat
         /\ DOMAIN lists[Top.reason] = 1 .. Len(lists[Top.reason])
         /\ Top.at = "pass" /\ Clean(use) => Len(stack) = 1
<1>1. stack \in Seq(Frames) /\ Len(stack) \in Nat \ {0} /\ Len(stack) \in 1 .. Len(stack)
  BY DEF IInv, StackOK
<1>2. Top \in Frames /\ FrameOK(Top, lists, members, use)
  BY <1>1 DEF IInv, StackOK, Top
<1>3. Top.reason \in ListNames
  BY <1>2 DEF Frames
<1>4. lists[Top.reason] \in Seq(Entries)
  BY <1>3 DEF IInv, ListsOK
<1>5. Top.at = "pass" /\ Clean(use) => Len(stack) = 1
  BY <1>1 DEF IInv, StackOK, Top
<1> QED BY <1>1, <1>2, <1>3, <1>4, <1>5

(* Where the user of the parameter may be. *)
LEMMA UserAt ==
  ASSUME IInv, NEW op, UserRuns(op)
  PROVE  /\ alive
         /\ stack = <<>> \/ stack[Len(stack)].at = "body"
         /\ Clean(use) /\ op \in {"unregister", "unregisterAll"} => stack = <<>>
<1>1. stack # <<>> => Top.at = "body" /\ op \in use.body[Top.ad]
  BY DEF UserRuns
<1>2. stack # <<>> => Top.ad \in use.adapters
  BY <1>1, TopFacts DEF FrameOK
<1>3. Clean(use) /\ stack # <<>> => op \notin {"unregister", "unregisterAll"}
  <2> SUFFICES ASSUME Clean(use), stack # <<>> PROVE op \notin {"unregister", "unregisterAll"}
    OBVIOUS
  <2>1. use.body[Top.ad] \cap {"unregister", "unregisterAll"} = {}
    BY <1>2 DEF Clean
  <2> QED BY <1>1, <2>1
<1> QED BY <1>1, <1>3 DEF UserRuns, Top

(* Steps that begin a call, ... *)
LEMMA PushStep ==
  ASSUME IInv, NEW op, UserRuns(op), NEW f \in Frames, FrameOK(f, lists, members, use), Push(f),
         f.at = "pass" => op = "unregisterAll",
         UNCHANGED <<use, lists, making, enqueued, alive, members, fresh>>
  PROVE  IInv'
<1>1. /\ stack = <<>> \/ stack[Len(stack)].at = "body"
      /\ f.at = "pass" /\ Clean(use) => stack = <<>>
  BY UserAt
<1>2. StackOK(stack, lists, members, use)
  BY DEF IInv
<1>3. /\ StackOK(Append(stack, f), lists, members, use)
      /\ Append(stack, f) # <<>> /\ (Len(Append(stack, f)) = 1 => stack = <<>>)
  BY <1>1, <1>2, PushOK
<1>4. /\ StackOK(stack', lists', members', use')
      /\ stack' # <<>> /\ (Len(stack') = 1 => stack = <<>>)
  BY <1>3 DEF Push
<1>5. QuietOK(stack', making')
  BY <1>4 DEF QuietOK, IInv
<1> QED BY <1>4, <1>5 DEF IInv

(* ... that go on with it ... *)
LEMMA TopStep ==
  ASSUME IInv, stack # <<>>, NEW g \in Frames, FrameOK(g, lists, members, use), g.at # "pass",
         SetTop(g), making' \in BOOLEAN,
         Len(stack) = 1 /\ g.at \notin {"loop", "body"} => ~making',
         UNCHANGED <<use, lists, enqueued, alive, members, fresh>>
  PROVE  IInv'
<1>1. StackOK(stack, lists, members, use)
  BY DEF IInv
<1>2. /\ StackOK(stack', lists, members, use) /\ Len(stack') = Len(stack) /\ stack' # <<>>
      /\ stack'[Len(stack')] = g
  <2>1. stack' = WithTop(stack, g)
    BY DEF SetTop, WithTop
  <2> QED BY <1>1, <2>1, TopOK
<1>3. QuietOK(stack', making')
  BY <1>2 DEF QuietOK
<1> QED BY <1>2, <1>3 DEF IInv

(* ... and that end it. *)
LEMMA PopStep ==
  ASSUME IInv, stack # <<>>, Top.at \notin {"loop", "body"}, Pop,
         UNCHANGED <<use, making>>, alive' \in BOOLEAN,
         StackOK(stack, lists', members', use),
         ListsOK(lists', members', fresh', use, enqueued', alive')
  PROVE  IInv'
<1>1. /\ StackOK(stack', lists', members', use)
      /\ Len(stack) = 1 => stack' = <<>>
      /\ Len(stack) # 1 => stack' # <<>> /\ stack'[Len(stack')].at = "body"
  BY PopOK DEF Pop
<1>2. QuietOK(stack', making')
  <2>1. CASE Len(stack) = 1
    BY <1>1, <2>1 DEF QuietOK, IInv, Top
  <2>2. CASE Len(stack) # 1
    BY <1>1, <2>2 DEF QuietOK
  <2> QED BY <2>1, <2>2
<1> QED BY <1>1, <1>2 DEF IInv

(* A call that returns and changes nothing else. *)
LEMMA PlainPop ==
  ASSUME IInv, stack # <<>>, Top.at \notin {"loop", "body"}, Pop,
         UNCHANGED <<use, lists, making, enqueued, alive, members, fresh>>
  PROVE  IInv'
<1>1. StackOK(stack, lists', members', use) /\ alive' \in BOOLEAN
  BY DEF IInv
<1>2. ListsOK(lists', members', fresh', use, enqueued', alive')
  BY DEF IInv
<1> QED BY <1>1, <1>2, PopStep
-----------------------------------------------------------------------------
(* The calls of the set and get functions, of unregisterParamCallbacks and of *)
(* the destructor.                                                            *)
LEMMA NewFrame ==
  ASSUME NEW op \in Ops, NEW v \in Values \cup {None} \cup Range(Observer),
         NEW p \in Passwords \cup {NoPwd}, NEW r \in ListNames, NEW at \in {"enter", "pass"},
         NEW ls, NEW ms, NEW u
  PROVE  LET f == [Call(op, v, p, r) EXCEPT !.at = at]
         IN f \in Frames /\ FrameOK(f, ls, ms, u) /\ f.at = at
<1> DEFINE c == Call(op, v, p, r)
           f == [c EXCEPT !.at = at]
<1>1. c \in Frames /\ c.seen = <<>> /\ ~c.refused /\ c.ret = 0
  BY DEF Call, Frames, return_nothing
<1> HIDE DEF c
<1>2. f \in Frames
  BY <1>1 DEF Frames
<1>3. f.at \in {"enter", "pass"} /\ f.seen = <<>> /\ ~f.refused /\ f.ret = 0 /\ f.at = at
  BY <1>1 DEF Frames
<1> HIDE DEF f
<1>4. FrameOK(f, ls, ms, u)
  BY <1>3 DEF FrameOK, LoopOK, LoopDone, RefusalOK
<1> QED BY <1>2, <1>3, <1>4 DEF f, c

(* Each of these calls begins with a sound frame. *)
LEMMA PushActions ==
  ASSUME IInv, UNCHANGED use,
         \/ \E op \in Ops, v \in Values : Write(op, v)
         \/ \E v \in Values, p \in Passwords \cup {NoPwd} : WriteWithPwd(v, p)
         \/ \E op \in Ops : Read(op)
         \/ \E o \in Range(Observer) : UnregisterAll(o)
         \/ Destruct
  PROVE  IInv'
<1>0. /\ "reject_write" \in ListNames /\ "pre_read" \in ListNames /\ "destroy_param" \in ListNames
      /\ "setValuePwd" \in Ops /\ "unregisterAll" \in Ops /\ "destruct" \in Ops
  BY Names DEF Ops, Writes, Reads
<1>1. ASSUME NEW op \in Ops, NEW v \in Values \cup {None} \cup Range(Observer),
             NEW p \in Passwords \cup {NoPwd}, NEW r \in ListNames
      PROVE  /\ Call(op, v, p, r) \in Frames /\ FrameOK(Call(op, v, p, r), lists, members, use)
             /\ Call(op, v, p, r).at = "enter"
  <2> DEFINE c == Call(op, v, p, r)
  <2>1. c \in Frames /\ c.seen = <<>> /\ ~c.refused /\ c.ret = 0 /\ c.at = "enter"
    BY DEF Call, Frames, return_nothing
  <2> HIDE DEF c
  <2>2. FrameOK(c, lists, members, use)
    BY <2>1 DEF FrameOK, LoopOK, LoopDone, RefusalOK
  <2> QED BY <2>1, <2>2 DEF c
<1>2. ASSUME NEW op \in Ops, NEW v \in Values, Write(op, v) PROVE IInv'
  BY <1>0, <1>1, <1>2, PushStep DEF Write, callVars, histVars
<1>3. ASSUME NEW v \in Values, NEW p \in Passwords \cup {NoPwd}, WriteWithPwd(v, p) PROVE IInv'
  BY <1>0, <1>1, <1>3, PushStep DEF WriteWithPwd, callVars, histVars
<1>4. ASSUME NEW op \in Ops, Read(op) PROVE IInv'
  BY <1>0, <1>1, <1>4, PushStep DEF Read, callVars, histVars
<1>5. ASSUME NEW o \in Range(Observer), UnregisterAll(o) PROVE IInv'
  <2> DEFINE f == [Call("unregisterAll", o, NoPwd, "pre_read") EXCEPT !.at = "pass"]
  <2>1. f \in Frames /\ FrameOK(f, lists, members, use)
    BY <1>0, NewFrame
  <2>2. Push(f) /\ UserRuns("unregisterAll")
    BY <1>5 DEF UnregisterAll
  <2> HIDE DEF f
  <2> QED BY <1>5, <2>1, <2>2, PushStep DEF UnregisterAll, callVars, histVars
<1>6. ASSUME Destruct PROVE IInv'
  BY <1>0, <1>1, <1>6, PushStep DEF Destruct, callVars, histVars
<1> QED BY <1>2, <1>3, <1>4, <1>5, <1>6
-----------------------------------------------------------------------------
(* make_enabled_callbacks_helper begins. *)
LEMMA EnterHelperStep ==
  ASSUME IInv, UNCHANGED use, EnterHelper
  PROVE  IInv'
<1> DEFINE L == lists[Top.reason]
           g == [Top EXCEPT !.at = "after", !.ret = return_nothing]
           h == [Top EXCEPT !.at = "loop", !.i = 1, !.ret = return_nothing,
                            !.due = Enabled(Top.reason), !.seen = <<>>]
<1>1. stack # <<>> /\ Top.at = "enter"
  BY DEF EnterHelper, CodeRuns
<1>2. /\ Top \in Frames /\ FrameOK(Top, lists, members, use) /\ Top.reason \in ListNames
      /\ L \in Seq(Entries) /\ Len(stack) \in Nat \ {0}
      /\ Len(L) \in Nat /\ DOMAIN L = 1 .. Len(L)
  BY <1>1, TopFacts
<1>3. RefuseCleanly => ~Top.refused
  BY <1>1, <1>2 DEF FrameOK, RefusalOK
<1>4. Len(stack) = 1 => ~making
  BY <1>1 DEF IInv, QuietOK, Top
<1>7. return_nothing = 0 /\ return_nothing \in 0 .. 2
  BY DEF return_nothing
<1>5. CASE L = <<>>
  <2>1. SetTop(g) /\ UNCHANGED making
    BY <1>5 DEF EnterHelper
  <2>2. g \in Frames /\ g.at = "after" /\ g.ret = 0 /\ g.seen = Top.seen /\ g.reason = Top.reason
        /\ g.refused = Top.refused /\ g.due = Top.due
    BY <1>2, <1>7 DEF Frames
  <2> HIDE DEF g
  <2>3. Clean(use) => \A a : <<Top.reason, a>> \notin members
    <3> SUFFICES ASSUME Clean(use), NEW a, <<Top.reason, a>> \in members PROVE FALSE
      OBVIOUS
    <3>1. IsEntry(Live(<<Top.reason, a>>[2]), lists[<<Top.reason, a>>[1]])
      BY DEF IInv, ListsOK
    <3>2. IsEntry(Live(a), L)
      BY <3>1
    <3> QED BY <1>2, <1>5, <3>2 DEF IsEntry
  <2>4. Clean(use) => LoopOK(g, lists[g.reason]) /\ LoopDone(g, members)
    BY <1>2, <2>2, <2>3 DEF FrameOK, LoopOK, LoopDone
  <2>5. RefuseCleanly => RefusalOK(g)
    BY <1>3, <2>2 DEF RefusalOK
  <2>6. FrameOK(g, lists, members, use)
    BY <2>2, <2>4, <2>5 DEF FrameOK
  <2>7. making' \in BOOLEAN /\ (Len(stack) = 1 => ~making')
    BY <1>4, <2>1 DEF IInv
  <2> QED BY <1>1, <2>1, <2>2, <2>6, <2>7, TopStep DEF EnterHelper, histVars
<1>6. CASE L # <<>>
  <2>1. SetTop(h) /\ making' = TRUE
    BY <1>6 DEF EnterHelper
  <2>2. Enabled(Top.reason) \in SUBSET Adapters /\ <<>> \in Seq(Adapters) /\ 1 \in Nat \ {0}
    BY DEF Enabled
  <2>3. /\ h \in Frames /\ h.at = "loop" /\ h.ret = return_nothing /\ h.seen = <<>>
        /\ h.reason = Top.reason /\ h.refused = Top.refused /\ h.due = Enabled(Top.reason)
        /\ h.i = 1
    BY <1>2, <1>7, <2>2 DEF Frames
  <2> HIDE DEF h
  <2>4. \A a \in Enabled(Top.reason) : \E k \in DOMAIN L : L[k].ad = a
    BY DEF Enabled
  <2>5. LoopOK(h, L) /\ LoopDone(h, members)
    BY <1>2, <2>3, <2>4 DEF LoopOK, LoopDone
  <2>6. RefuseCleanly => RefusalOK(h)
    BY <1>3, <1>7, <2>3 DEF RefusalOK
  <2>7. FrameOK(h, lists, members, use)
    BY <2>3, <2>5, <2>6 DEF FrameOK
  <2> QED BY <1>1, <2>1, <2>3, <2>7, TopStep DEF EnterHelper, histVars
<1> QED BY <1>5, <1>6

(* The entry that a loop has come to, and what it has met before. *)
LEMMA EntryFacts ==
  ASSUME IInv, CodeRuns("loop"), Top.i <= Len(lists[Top.reason])
  PROVE  /\ Top.i \in 1 .. Len(lists[Top.reason]) /\ Entry \in Entries
         /\ Entry.ad \in use.adapters /\ Top.reason \in ListsOf(Entry.ad)
         /\ Clean(use) => Entry.on
<1>1. stack # <<>> /\ Top.at = "loop"
  BY DEF CodeRuns
<1>2. /\ Top \in Frames /\ Top.reason \in ListNames /\ lists[Top.reason] \in Seq(Entries)
      /\ DOMAIN lists[Top.reason] = 1 .. Len(lists[Top.reason]) /\ Len(lists[Top.reason]) \in Nat
  BY <1>1, TopFacts
<1>3. Top.i \in Nat \ {0}
  BY <1>2 DEF Frames
<1>4. Top.i \in 1 .. Len(lists[Top.reason])
  BY <1>2, <1>3
<1>5. Entry \in Entries
  BY <1>2, <1>4 DEF Entry
<1>6. Entry.ad \in use.adapters /\ Top.reason \in ListsOf(Entry.ad)
  BY <1>2, <1>4 DEF Entry, IInv, ListsOK, OnceInList
<1>7. Clean(use) => Entry.on
  BY <1>2, <1>4 DEF Entry, IInv, ListsOK
<1> QED BY <1>4, <1>5, <1>6, <1>7

(* A loop that meets the next entry has met the first ones, each once. *)
LEMMA MeetsNext ==
  ASSUME NEW f \in Frames, NEW L \in Seq(Entries), Distinct(L), f.at = "loop", f.i \in 1 .. Len(L),
         LoopOK(f, L), NEW ms, LoopDone(f, ms), NEW g \in Frames,
         g.seen = Append(f.seen, L[f.i].ad), g.due = f.due,
         \/ g.at = "body" /\ g.i = f.i
         \/ g.at = "loop" /\ g.i = f.i + 1
  PROVE  LoopOK(g, L) /\ LoopDone(g, ms)
<1> DEFINE a == L[f.i].ad
           n == Len(f.seen)
<1>0. f.i \in Nat \ {0} /\ f.seen \in Seq(Adapters) /\ n \in Nat /\ a \in Adapters /\ g.i \in Nat
  BY DEF Frames, Entries
<1>1. /\ n = f.i - 1 /\ \A j \in 1 .. n : f.seen[j] = L[j].ad
      /\ \A b \in f.due : \E k \in DOMAIN L : L[k].ad = b
  BY DEF LoopOK
<1>2. /\ Len(g.seen) = n + 1 /\ g.seen[n + 1] = a /\ DOMAIN g.seen = 1 .. n + 1
      /\ \A j \in 1 .. n : g.seen[j] = f.seen[j]
  BY <1>0
<1>3. Len(L) \in Nat /\ DOMAIN L = 1 .. Len(L) /\ n + 1 = f.i /\ n + 1 <= Len(L)
  BY <1>0, <1>1
<1> HIDE DEF n
<1>4. \A j \in 1 .. n + 1 : g.seen[j] = L[j].ad
  <2> SUFFICES ASSUME NEW j \in 1 .. n + 1 PROVE g.seen[j] = L[j].ad
    OBVIOUS
  <2>1. j = n + 1 \/ j \in 1 .. n
    BY <1>0
  <2> QED BY <1>1, <1>2, <1>3, <2>1
<1>5. LoopOK(g, L)
  BY <1>0, <1>1, <1>2, <1>3, <1>4 DEF LoopOK
<1>6. \A j, k \in DOMAIN g.seen : j # k => g.seen[j] # g.seen[k]
  <2> SUFFICES ASSUME NEW j \in 1 .. n + 1, NEW k \in 1 .. n + 1, g.seen[j] = g.seen[k] PROVE j = k
    BY <1>2
  <2>1. j \in DOMAIN L /\ k \in DOMAIN L
    BY <1>0, <1>3
  <2>2. L[j].ad = L[k].ad
    BY <1>4
  <2> QED BY <2>1, <2>2 DEF Distinct
<1> QED BY <1>5, <1>6 DEF LoopDone

(* ParamTypedCallbAdapt::call. *)
LEMMA CallBackStep ==
  ASSUME IInv, UNCHANGED use, CallBack
  PROVE  IInv'
<1> DEFINE L == lists[Top.reason]
           g == [Top EXCEPT !.at = "body", !.ad = Entry.ad, !.seen = Append(@, Entry.ad)]
<1>1. stack # <<>> /\ Top.at = "loop" /\ CodeRuns("loop") /\ Top.i <= Len(L) /\ SetTop(g)
  BY DEF CallBack, CodeRuns
<1>2. /\ Top \in Frames /\ FrameOK(Top, lists, members, use) /\ Top.reason \in ListNames
      /\ L \in Seq(Entries)
  BY <1>1, TopFacts
<1>3. /\ Top.i \in 1 .. Len(L) /\ Entry \in Entries
      /\ Entry.ad \in use.adapters /\ Top.reason \in ListsOf(Entry.ad)
  BY <1>1, EntryFacts
<1>4. Entry.ad \in Adapters /\ Top.seen \in Seq(Adapters)
  BY <1>2, <1>3 DEF Entries, Frames
<1>5. Append(Top.seen, Entry.ad) \in Seq(Adapters)
  BY <1>4
<1>6. /\ g \in Frames /\ g.at = "body" /\ g.ad = Entry.ad /\ g.seen = Append(Top.seen, Entry.ad)
      /\ g.reason = Top.reason /\ g.refused = Top.refused /\ g.due = Top.due /\ g.ret = Top.ret
      /\ g.i = Top.i
  BY <1>2, <1>4, <1>5 DEF Frames
<1> HIDE DEF g
<1>7. Clean(use) => LoopOK(g, L) /\ LoopDone(g, members)
  <2> SUFFICES ASSUME Clean(use) PROVE LoopOK(g, L) /\ LoopDone(g, members)
    OBVIOUS
  <2>1. LoopOK(Top, L) /\ LoopDone(Top, members)
    BY <1>2 DEF FrameOK
  <2>2. Distinct(L)
    BY <1>2 DEF IInv, ListsOK, OnceInList
  <2> QED BY <1>1, <1>2, <1>3, <1>6, <2>1, <2>2, MeetsNext DEF Entry
<1>8. RefuseCleanly => RefusalOK(g)
  BY <1>2, <1>6 DEF FrameOK, RefusalOK
<1>9. FrameOK(g, lists, members, use)
  BY <1>3, <1>6, <1>7, <1>8 DEF FrameOK
<1>10. making' \in BOOLEAN
  BY DEF CallBack, IInv
<1> QED BY <1>1, <1>6, <1>9, <1>10, TopStep DEF CallBack, histVars

(* An entry that the loop does not call. *)
LEMMA PassOverStep ==
  ASSUME IInv, UNCHANGED use, PassOver
  PROVE  IInv'
<1> DEFINE L == lists[Top.reason]
           x == IF Entry.on THEN Append(Top.seen, Entry.ad) ELSE Top.seen
           g == [Top EXCEPT !.i = @ + 1, !.seen = x]
<1>1. stack # <<>> /\ Top.at = "loop" /\ CodeRuns("loop") /\ Top.i <= Len(L)
  BY DEF PassOver, CodeRuns
<1>2. /\ Top \in Frames /\ FrameOK(Top, lists, members, use) /\ Top.reason \in ListNames
      /\ L \in Seq(Entries)
  BY <1>1, TopFacts
<1>3. Top.i \in 1 .. Len(L) /\ Entry \in Entries /\ (Clean(use) => Entry.on)
  BY <1>1, EntryFacts
<1>4. Entry.ad \in Adapters /\ Top.seen \in Seq(Adapters) /\ Top.i \in Nat \ {0}
  BY <1>2, <1>3 DEF Entries, Frames
<1>5. x \in Seq(Adapters) /\ Top.i + 1 \in Nat \ {0}
  BY <1>4
<1>6. SetTop(g)
  BY DEF PassOver
<1> HIDE DEF x
<1>7. /\ g \in Frames /\ g.at = "loop" /\ g.ad = Top.ad /\ g.seen = x
      /\ g.reason = Top.reason /\ g.refused = Top.refused /\ g.due = Top.due /\ g.ret = Top.ret
      /\ g.i = Top.i + 1
  BY <1>1, <1>2, <1>5 DEF Frames
<1> HIDE DEF g
<1>8. Clean(use) => LoopOK(g, L) /\ LoopDone(g, members)
  <2> SUFFICES ASSUME Clean(use) PROVE LoopOK(g, L) /\ LoopDone(g, members)
    OBVIOUS
  <2>1. LoopOK(Top, L) /\ LoopDone(Top, members)
    BY <1>2 DEF FrameOK
  <2>2. Distinct(L)
    BY <1>2 DEF IInv, ListsOK, OnceInList
  <2>3. x = Append(Top.seen, L[Top.i].ad)
    BY <1>3 DEF x, Entry
  <2> QED BY <1>1, <1>2, <1>3, <1>7, <2>1, <2>2, <2>3, MeetsNext
<1>9. RefuseCleanly => RefusalOK(g)
  BY <1>1, <1>2, <1>7 DEF FrameOK, RefusalOK
<1>10. FrameOK(g, lists, members, use)
  BY <1>7, <1>8, <1>9 DEF FrameOK
<1>11. making' \in BOOLEAN
  BY DEF PassOver, IInv, callVars
<1> QED BY <1>1, <1>6, <1>7, <1>10, <1>11, TopStep DEF PassOver, histVars, callVars

(* A callback returns: the loop goes on behind its entry. *)
LEMMA CallbackReturnsStep ==
  ASSUME IInv, UNCHANGED use, NEW r \in 0 .. 2, CallbackReturns(r)
  PROVE  IInv'
<1> DEFINE L == lists[Top.reason]
           ref == Top.refused \/ (Top.reason = "reject_write" /\ r = 1)
           g == [Top EXCEPT !.at = "loop", !.ad = None, !.i = Top.i + 1, !.ret = Higher(Top.ret, r),
                            !.refused = ref]
<1>1. stack # <<>> /\ Top.at = "body" /\ r \in Results[Top.ad]
  BY DEF CallbackReturns, CodeRuns
<1>2. SetTop(g)
  BY DEF CallbackReturns, return_value_change_rejected
<1>3. Top \in Frames /\ FrameOK(Top, lists, members, use) /\ Top.reason \in ListNames
  BY <1>1, TopFacts
<1>4. /\ Top.i + 1 \in Nat \ {0} /\ Top.i \in Nat /\ Top.ret \in 0 .. 2 /\ Top.refused \in BOOLEAN
      /\ Len(Top.seen) \in Nat
  BY <1>3 DEF Frames
<1>5. Higher(Top.ret, r) \in 0 .. 2 /\ ref \in BOOLEAN
  BY <1>4 DEF Higher
<1> HIDE DEF ref
<1>6. /\ g \in Frames /\ g.at = "loop" /\ g.ad = None /\ g.seen = Top.seen
      /\ g.reason = Top.reason /\ g.refused = ref /\ g.due = Top.due
      /\ g.ret = Higher(Top.ret, r) /\ g.i = Top.i + 1
  BY <1>3, <1>4, <1>5 DEF Frames
<1> HIDE DEF g
<1>7. Clean(use) => LoopOK(g, L) /\ LoopDone(g, members)
  <2> SUFFICES ASSUME Clean(use) PROVE LoopOK(g, L) /\ LoopDone(g, members)
    OBVIOUS
  <2>1. LoopOK(Top, L) /\ LoopDone(Top, members)
    BY <1>3 DEF FrameOK
  <2> QED BY <1>1, <1>4, <1>6, <2>1 DEF LoopOK, LoopDone
<1>8. RefuseCleanly => RefusalOK(g)
  <2> SUFFICES ASSUME RefuseCleanly PROVE RefusalOK(g)
    OBVIOUS
  <2>1. RefusalOK(Top) /\ Top.ad \in use.adapters /\ Top.reason \in ListsOf(Top.ad)
    BY <1>1, <1>3 DEF FrameOK
  <2>2. Top.ad \in Adapters
    BY <2>1, ConstantsAssumption DEF IInv
  <2>3. Top.reason = "reject_write" => r # 2
    BY <1>1, <2>1, <2>2 DEF RefuseCleanly, return_other_error
  <2>4. Top.reason = "reject_write" => Higher(Top.ret, r) # 2
    BY <1>4, <2>1, <2>3 DEF Higher, RefusalOK
  <2>5. ref => Top.reason = "reject_write" /\ Higher(Top.ret, r) = 1
    BY <1>4, <2>1, <2>3 DEF Higher, RefusalOK, ref
  <2> QED BY <1>6, <2>4, <2>5 DEF RefusalOK
<1>9. FrameOK(g, lists, members, use)
  BY <1>6, <1>7, <1>8 DEF FrameOK
<1>10. making' \in BOOLEAN
  BY DEF CallbackReturns, IInv
<1> QED BY <1>1, <1>2, <1>6, <1>9, <1>10, TopStep DEF CallbackReturns, histVars

(* The loop has come to the end of its list: it has met all entries. *)
LEMMA LoopEnds ==
  ASSUME IInv, CodeRuns("loop"), Top.i > Len(lists[Top.reason])
  PROVE  LET g == [Top EXCEPT !.at = "after"]
         IN g \in Frames /\ g.at = "after" /\ FrameOK(g, lists, members, use)
<1> DEFINE L == lists[Top.reason]
           g == [Top EXCEPT !.at = "after"]
<1>1. stack # <<>> /\ Top.at = "loop"
  BY DEF CodeRuns
<1>2. /\ Top \in Frames /\ FrameOK(Top, lists, members, use)
      /\ Len(L) \in Nat /\ DOMAIN L = 1 .. Len(L)
  BY <1>1, TopFacts
<1>3. /\ g \in Frames /\ g.at = "after" /\ g.seen = Top.seen /\ g.reason = Top.reason
      /\ g.refused = Top.refused /\ g.due = Top.due /\ g.ret = Top.ret
  BY <1>2 DEF Frames
<1> HIDE DEF g
<1>4. Top.i \in Nat /\ Len(Top.seen) \in Nat /\ DOMAIN Top.seen = 1 .. Len(Top.seen)
  BY <1>2 DEF Frames
<1>5. Clean(use) => LoopOK(g, L) /\ LoopDone(g, members)
  <2> SUFFICES ASSUME Clean(use) PROVE LoopOK(g, L) /\ LoopDone(g, members)
    OBVIOUS
  <2>1. LoopOK(Top, L) /\ LoopDone(Top, members)
    BY <1>2 DEF FrameOK
  <2>2. Len(Top.seen) = Top.i - 1 /\ Len(Top.seen) <= Len(L)
    BY <1>1, <2>1 DEF LoopOK
  <2>3. Len(Top.seen) = Len(L)
    BY <1>2, <1>4, <2>2
  <2>4. \A a \in Top.due : \E k \in DOMAIN Top.seen : Top.seen[k] = a
    BY <1>1, <1>2, <1>4, <2>1, <2>3 DEF LoopOK
  <2> QED BY <1>3, <2>1, <2>4 DEF LoopOK, LoopDone
<1>6. RefuseCleanly => RefusalOK(g)
  BY <1>1, <1>2, <1>3 DEF FrameOK, RefusalOK
<1>7. FrameOK(g, lists, members, use)
  BY <1>3, <1>5, <1>6 DEF FrameOK
<1> QED BY <1>3, <1>7 DEF g

(* make_enabled_callbacks_helper ends, and may clean up the lists. *)
LEMMA LeaveHelperStep ==
  ASSUME IInv, UNCHANGED use, LeaveHelper
  PROVE  IInv'
<1> DEFINE g == [Top EXCEPT !.at = "after"]
<1>1. stack # <<>> /\ CodeRuns("loop") /\ Top.i > Len(lists[Top.reason])
  BY DEF LeaveHelper, CodeRuns
<1>2. g \in Frames /\ g.at = "after" /\ FrameOK(g, lists, members, use)
  BY <1>1, LoopEnds
<1>3. SetTop(g) /\ making' = FALSE /\ UNCHANGED <<alive, members, fresh>>
  BY DEF LeaveHelper, histVars
<1> HIDE DEF g
<1>4. CASE enqueued = 0
  <2>1. UNCHANGED <<lists, enqueued>>
    BY <1>4 DEF LeaveHelper
  <2> QED BY <1>1, <1>2, <1>3, <2>1, TopStep
<1>5. CASE enqueued # 0
  <2>1. lists' = CleanAll.lists
    BY <1>5 DEF LeaveHelper
  <2>2. ~Clean(use)
    BY <1>5 DEF IInv, ListsOK
  <2>3. lists \in [ListNames -> Seq(Entries)] /\ \A l \in ListNames : Distinct(lists[l])
    BY DEF IInv, ListsOK, OnceInList
  <2>4. /\ CleanAll.lists \in [ListNames -> Seq(Entries)]
        /\ \A l \in ListNames : Thinned(lists[l], CleanAll.lists[l])
    BY <2>3, CleanAllThins
  <2>5. ASSUME NEW l \in ListNames
        PROVE  /\ Distinct(lists'[l])
               /\ \A k \in DOMAIN lists'[l] : IsEntry(lists'[l][k], lists[l])
               /\ \A e : IsEntry(e, lists'[l]) => IsEntry(e, lists[l])
    BY <2>1, <2>4 DEF Thinned, IsEntry
  <2>6. OnceInList(lists', fresh, use)
    <3> SUFFICES ASSUME NEW l \in ListNames, NEW k \in DOMAIN lists'[l]
                 PROVE  /\ lists'[l][k].ad \in use.adapters /\ lists'[l][k].ad \notin fresh
                        /\ l \in ListsOf(lists'[l][k].ad)
      BY <2>5 DEF OnceInList
    <3>1. PICK j \in DOMAIN lists[l] : lists[l][j] = lists'[l][k]
      BY <2>5 DEF IsEntry
    <3> QED BY <3>1 DEF IInv, ListsOK, OnceInList
  <2>7. ListsOK(lists', members', fresh', use', enqueued', alive')
    BY <1>3, <2>1, <2>2, <2>4, <2>5, <2>6 DEF IInv, ListsOK
  <2>8. StackOK(stack, lists, members, use)
    BY DEF IInv
  <2>9. /\ StackOK(WithTop(stack, g), lists, members, use)
        /\ Len(WithTop(stack, g)) = Len(stack) /\ WithTop(stack, g) # <<>>
        /\ WithTop(stack, g)[Len(WithTop(stack, g))] = g
    BY <1>1, <1>2, <2>8, TopOK
  <2>10. stack' = WithTop(stack, g)
    BY <1>3 DEF SetTop, WithTop
  <2>11. StackOK(WithTop(stack, g), lists', members, use)
    BY <2>2, <2>9, StackStays
  <2>12. QuietOK(stack', making')
    BY <1>3, <2>9, <2>10 DEF QuietOK
  <2> QED BY <1>3, <2>7, <2>10, <2>11, <2>12 DEF IInv
<1> QED BY <1>4, <1>5
-----------------------------------------------------------------------------
(* A call that goes on with another list. *)
LEMMA GoesOnStep ==
  ASSUME IInv, UNCHANGED use, CodeRuns("after"), NEW r \in ListNames, r # "reject_write",
         GoesOnTo(r), RefuseCleanly => ~Top.refused,
         UNCHANGED <<lists, making, enqueued, alive, members, fresh>>
  PROVE  IInv'
<1> DEFINE g == [Top EXCEPT !.at = "enter", !.reason = r]
<1>1. stack # <<>> /\ Top.at = "after"
  BY DEF CodeRuns
<1>2. Top \in Frames /\ FrameOK(Top, lists, members, use)
  BY <1>1, TopFacts
<1>3. SetTop(g)
  BY DEF GoesOnTo
<1>4. /\ g \in Frames /\ g.at = "enter" /\ g.reason = r /\ g.seen = Top.seen
      /\ g.refused = Top.refused
  BY <1>2 DEF Frames
<1> HIDE DEF g
<1>5. Clean(use) => LoopOK(g, lists[g.reason]) /\ LoopDone(g, members)
  BY <1>2, <1>4 DEF FrameOK, LoopOK, LoopDone
<1>6. RefuseCleanly => RefusalOK(g)
  BY <1>4 DEF RefusalOK
<1>7. FrameOK(g, lists, members, use)
  BY <1>4, <1>5, <1>6 DEF FrameOK
<1>8. making' \in BOOLEAN /\ (Len(stack) = 1 => ~making')
  BY <1>1 DEF IInv, QuietOK, Top
<1> QED BY <1>1, <1>3, <1>4, <1>7, <1>8, TopStep

(* What the set and get functions do after a helper. *)
LEMMA AfterSteps ==
  ASSUME IInv, UNCHANGED use, AfterReject \/ AfterPreWrite \/ AfterPostWrite \/ AfterRead
  PROVE  IInv'
<1>1. stack # <<>> /\ CodeRuns("after") /\ Top.at = "after"
  BY DEF AfterReject, AfterPreWrite, AfterPostWrite, AfterRead, CodeRuns
<1>2. /\ UNCHANGED <<lists, making, enqueued, alive, members, fresh>>
  BY DEF AfterReject, AfterPreWrite, AfterPostWrite, AfterRead, callVars, histVars
<1>3. Pop => IInv'
  BY <1>1, <1>2, PlainPop
<1>4. RefuseCleanly => RefusalOK(Top)
  BY <1>1, TopFacts DEF FrameOK
<1>5. "pre_write" \in ListNames /\ "post_write" \in ListNames /\ "post_read" \in ListNames
  BY Names
<1>6. CASE AfterReject
  <2>1. CASE Top.ret = 1
    BY <1>3, <1>6, <2>1 DEF AfterReject, return_value_change_rejected
  <2>2. CASE Top.ret # 1
    <3>1. GoesOnTo("pre_write")
      BY <1>6, <2>2 DEF AfterReject, return_value_change_rejected
    <3>2. RefuseCleanly => ~Top.refused
      BY <1>4, <2>2 DEF RefusalOK
    <3> QED BY <1>1, <1>2, <1>5, <3>1, <3>2, GoesOnStep
  <2> QED BY <2>1, <2>2
<1>7. CASE AfterPreWrite
  <2>1. Pop \/ GoesOnTo("post_write")
    BY <1>7 DEF AfterPreWrite, Commit
  <2>2. RefuseCleanly => ~Top.refused
    BY <1>4, <1>7 DEF RefusalOK, AfterPreWrite
  <2> QED BY <1>1, <1>2, <1>3, <1>5, <2>1, <2>2, GoesOnStep
<1>8. CASE AfterPostWrite
  BY <1>3, <1>8 DEF AfterPostWrite
<1>9. CASE AfterRead
  <2>1. Pop \/ GoesOnTo("post_read")
    BY <1>9 DEF AfterRead
  <2>2. RefuseCleanly => ~Top.refused
    BY <1>4, <1>9 DEF RefusalOK, AfterRead
  <2> QED BY <1>1, <1>2, <1>3, <1>5, <2>1, <2>2, GoesOnStep
<1> QED BY <1>6, <1>7, <1>8, <1>9

(* The parameter is destroyed. *)
LEMMA AfterDestroyStep ==
  ASSUME IInv, UNCHANGED use, AfterDestroy
  PROVE  IInv'
<1>1. stack # <<>> /\ Top.at = "after"
  BY DEF AfterDestroy, CodeRuns
<1>2. Pop /\ UNCHANGED <<lists, making, enqueued, fresh>> /\ alive' = FALSE /\ members' = {}
  BY DEF AfterDestroy, callVars
<1>3. ListsOK(lists', members', fresh', use, enqueued', alive')
  BY <1>2 DEF IInv, ListsOK
<1>4. StackOK(stack, lists, members, use)
  BY DEF IInv
<1>5. StackOK(stack, lists', members', use)
  <2>1. ASSUME NEW n \in 1 .. Len(stack) PROVE FrameOK(stack[n], lists, {}, use)
    BY <1>4 DEF StackOK, FrameOK, LoopDone
  <2> QED BY <1>2, <1>4, <2>1 DEF StackOK
<1> QED BY <1>1, <1>2, <1>3, <1>5, PopStep
-----------------------------------------------------------------------------
(* registerParamCallback: the loops in progress will come to the new entry. *)
LEMMA RegisterStep ==
  ASSUME IInv, UNCHANGED use, NEW a \in Adapters, Register(a)
  PROVE  IInv'
<1>1. /\ a \in fresh /\ fresh' = fresh \ {a} /\ members' = members \cup (ListsOf(a) \X {a})
      /\ UNCHANGED <<stack, making, enqueued, alive>>
      /\ lists' = [l \in ListNames |-> IF l \in ListsOf(a) THEN Append(lists[l], Live(a))
                                       ELSE lists[l]]
  BY DEF Register, callVars, Live
<1>2. alive /\ (stack = <<>> \/ stack[Len(stack)].at = "body")
  BY UserAt DEF Register
<1>3. lists \in [ListNames -> Seq(Entries)] /\ OnceInList(lists, fresh, use) /\ fresh \in SUBSET use.adapters
  BY DEF IInv, ListsOK
<1>4. ListsOf(a) \in SUBSET ListNames
  BY Names, ConstantsAssumption DEF ListsOf
<1>5. Live(a) \in Entries /\ Live(a).ad = a /\ Live(a).on
  BY DEF Entries, Live
<1>6. ASSUME NEW l \in ListNames
      PROVE  /\ lists'[l] \in Seq(Entries) /\ DOMAIN lists'[l] = 1 .. Len(lists'[l])
             /\ Len(lists'[l]) = Len(lists[l]) \/ (Len(lists'[l]) = Len(lists[l]) + 1 /\ l \in ListsOf(a))
             /\ l \in ListsOf(a) => /\ Len(lists'[l]) = Len(lists[l]) + 1
                                    /\ lists'[l][Len(lists[l]) + 1] = Live(a)
             /\ \A k \in 1 .. Len(lists[l]) : lists'[l][k] = lists[l][k]
             /\ Len(lists[l]) \in Nat /\ DOMAIN lists[l] = 1 .. Len(lists[l])
  <2>1. lists[l] \in Seq(Entries) /\ Len(lists[l]) \in Nat /\ DOMAIN lists[l] = 1 .. Len(lists[l])
    BY <1>3
  <2>2. CASE l \in ListsOf(a)
    <3>1. lists'[l] = Append(lists[l], Live(a))
      BY <1>1, <2>2
    <3> QED BY <1>5, <2>1, <2>2, <3>1, AppendProperties
  <2>3. CASE l \notin ListsOf(a)
    <3>1. lists'[l] = lists[l]
      BY <1>1, <2>3
    <3> QED BY <2>1, <2>3, <3>1
  <2> QED BY <2>2, <2>3
<1>7. lists' \in [ListNames -> Seq(Entries)]
  BY <1>1, <1>6
<1>8. ASSUME NEW l \in ListNames, NEW k \in DOMAIN lists'[l]
      PROVE  \/ k \in DOMAIN lists[l] /\ lists'[l][k] = lists[l][k]
             \/ k = Len(lists[l]) + 1 /\ lists'[l][k] = Live(a) /\ l \in ListsOf(a)
  <2>1. k \in 1 .. Len(lists[l]) \/ (k = Len(lists[l]) + 1 /\ l \in ListsOf(a))
    BY <1>6
  <2> QED BY <1>6, <2>1
<1>9. OnceInList(lists', fresh', use)
  <2> SUFFICES ASSUME NEW l \in ListNames
               PROVE  /\ Distinct(lists'[l])
                      /\ \A k \in DOMAIN lists'[l] :
                           /\ lists'[l][k].ad \in use.adapters /\ lists'[l][k].ad \notin fresh'
                           /\ l \in ListsOf(lists'[l][k].ad)
    BY DEF OnceInList
  <2>1. \A k \in DOMAIN lists[l] : lists[l][k].ad \in use.adapters /\ lists[l][k].ad \notin fresh
                                   /\ l \in ListsOf(lists[l][k].ad) /\ lists[l][k].ad # a
    BY <1>1, <1>3 DEF OnceInList
  <2>2. a \in use.adapters /\ a \notin fresh'
    BY <1>1, <1>3
  <2>3. \A k \in DOMAIN lists'[l] :
          /\ lists'[l][k].ad \in use.adapters /\ lists'[l][k].ad \notin fresh'
          /\ l \in ListsOf(lists'[l][k].ad)
    BY <1>1, <1>5, <1>8, <2>1, <2>2
  <2>4. ASSUME NEW j \in DOMAIN lists'[l], NEW k \in DOMAIN lists'[l], lists'[l][j].ad = lists'[l][k].ad
        PROVE  j = k
    <3>1. CASE j \in DOMAIN lists[l] /\ lists'[l][j] = lists[l][j]
      <4>1. lists'[l][j].ad # a
        BY <2>1, <3>1
      <4>2. k \in DOMAIN lists[l] /\ lists'[l][k] = lists[l][k]
        BY <1>5, <1>8, <2>4, <4>1
      <4> QED BY <1>3, <2>4, <3>1, <4>2 DEF OnceInList, Distinct
    <3>2. CASE j = Len(lists[l]) + 1 /\ lists'[l][j] = Live(a)
      <4>1. k = Len(lists[l]) + 1
        BY <1>5, <1>8, <2>1, <2>4, <3>2
      <4> QED BY <3>2, <4>1
    <3> QED BY <1>8, <3>1, <3>2
  <2> QED BY <2>3, <2>4 DEF Distinct
<1>10. ASSUME NEW l \in ListNames, NEW b \in Adapters, IsEntry(Live(b), lists'[l])
       PROVE  <<l, b>> \in members'
  <2>1. PICK k \in DOMAIN lists'[l] : lists'[l][k] = Live(b)
    BY <1>10 DEF IsEntry
  <2>2. CASE k \in DOMAIN lists[l] /\ lists'[l][k] = lists[l][k]
    <3>1. IsEntry(Live(b), lists[l])
      BY <2>1, <2>2 DEF IsEntry
    <3>2. <<l, b>> \in members
      BY <1>2, <3>1 DEF IInv, ListsOK
    <3> QED BY <1>1, <3>2
  <2>3. CASE lists'[l][k] = Live(a) /\ l \in ListsOf(a)
    <3>1. b = a
      BY <2>1, <2>3 DEF Live
    <3> QED BY <1>1, <2>3, <3>1
  <2> QED BY <1>8, <2>2, <2>3
<1>11. ASSUME Clean(use) PROVE /\ enqueued' = 0
                               /\ \A l \in ListNames : \A k \in DOMAIN lists'[l] : lists'[l][k].on
                               /\ \A m \in members' : IsEntry(Live(m[2]), lists'[m[1]])
  <2>1. enqueued' = 0
    BY <1>1, <1>11 DEF IInv, ListsOK
  <2>2. ASSUME NEW l \in ListNames, NEW k \in DOMAIN lists'[l] PROVE lists'[l][k].on
    <3>1. \A j \in DOMAIN lists[l] : lists[l][j].on
      BY <1>11 DEF IInv, ListsOK
    <3> QED BY <1>5, <1>8, <3>1
  <2>3. ASSUME NEW m \in members PROVE IsEntry(Live(m[2]), lists'[m[1]])
    <3>1. IsEntry(Live(m[2]), lists[m[1]]) /\ m[1] \in ListNames
      BY <1>11 DEF IInv, ListsOK
    <3>2. PICK k \in DOMAIN lists[m[1]] : lists[m[1]][k] = Live(m[2])
      BY <3>1 DEF IsEntry
    <3>3. k \in DOMAIN lists'[m[1]] /\ lists'[m[1]][k] = lists[m[1]][k]
      BY <1>6, <3>1, <3>2
    <3> QED BY <3>2, <3>3 DEF IsEntry
  <2>4. ASSUME NEW m \in ListsOf(a) \X {a} PROVE IsEntry(Live(m[2]), lists'[m[1]])
    <3>1. m[1] \in ListsOf(a) /\ m[2] = a /\ m[1] \in ListNames
      BY <1>4
    <3>2. Len(lists[m[1]]) + 1 \in DOMAIN lists'[m[1]] /\ lists'[m[1]][Len(lists[m[1]]) + 1] = Live(a)
      BY <1>6, <3>1
    <3> QED BY <3>1, <3>2 DEF IsEntry
  <2> QED BY <1>1, <2>1, <2>2, <2>3, <2>4
<1>12. members' \in SUBSET (ListNames \X Adapters) /\ fresh' \in SUBSET use.adapters
  <2>1. members \in SUBSET (ListNames \X Adapters)
    BY DEF IInv, ListsOK
  <2>2. ListsOf(a) \X {a} \in SUBSET (ListNames \X Adapters)
    BY <1>4
  <2> QED BY <1>1, <1>3, <2>1, <2>2
<1>13. ListsOK(lists', members', fresh', use, enqueued', alive')
  BY <1>7, <1>9, <1>10, <1>11, <1>12 DEF ListsOK
<1>14. StackOK(stack, lists, members, use)
  BY DEF IInv
<1>15. ASSUME NEW n \in 1 .. Len(stack), NEW f, f = stack[n]
       PROVE  /\ f.at \in {"loop", "body"} =>
                   /\ Len(lists[f.reason]) \in Nat /\ Len(lists'[f.reason]) \in Nat
                   /\ DOMAIN lists[f.reason] = 1 .. Len(lists[f.reason])
                   /\ DOMAIN lists'[f.reason] = 1 .. Len(lists'[f.reason])
                   /\ Len(lists[f.reason]) <= Len(lists'[f.reason])
                   /\ \A k \in 1 .. Len(lists[f.reason]) : lists'[f.reason][k] = lists[f.reason][k]
              /\ f.at = "after" => members' \in SUBSET members
  <2>0. f \in Frames
    BY <1>14, <1>15 DEF StackOK
  <2>1. f.reason \in ListNames
    BY <2>0 DEF Frames
  <2>2. f.at = "body"
    <3>1. stack \in Seq(Frames) /\ Len(stack) \in Nat /\ stack # <<>>
      BY <1>14 DEF StackOK
    <3>2. n < Len(stack) => stack[n].at = "body"
      BY <1>14 DEF StackOK
    <3>3. n = Len(stack) => stack[n].at = "body"
      BY <1>2, <3>1
    <3> QED BY <1>15, <3>1, <3>2, <3>3
  <2>3. Len(lists'[f.reason]) \in Nat
    BY <1>6, <2>1
  <2> QED BY <1>6, <2>1, <2>2, <2>3
<1>16. StackOK(stack, lists', members', use)
  BY <1>14, <1>15, StackStays
<1> QED BY <1>1, <1>13, <1>16 DEF IInv

(* lock and unlock. *)
LEMMA LockSteps ==
  ASSUME IInv, UNCHANGED use, NEW p, Lock(p) \/ Unlock(p)
  PROVE  IInv'
  BY DEF IInv, Lock, Unlock, callVars, histVars
-----------------------------------------------------------------------------
(* conditional_callback_remove on one list, and what it leaves of it. *)
Without(s, i, mk) == IF mk THEN [s EXCEPT ![i].on = FALSE] ELSE RemoveAt(s, i)

Reduced(s, i, mk, t) ==
  /\ t \in Seq(Entries) /\ Distinct(t)
  /\ \A k \in DOMAIN t : \E j \in DOMAIN s : s[j].ad = t[k].ad
  /\ \A a : IsEntry(Live(a), t) => IsEntry(Live(a), s) /\ a # s[i].ad
  /\ ~mk => /\ Len(t) = Len(s) - 1 /\ Len(s) \in Nat
            /\ \A k \in DOMAIN t : IsEntry(t[k], s)
            /\ \A a : IsEntry(Live(a), s) /\ a # s[i].ad => IsEntry(Live(a), t)

(* It reduces a list, ... *)
LEMMA RemovedFromList ==
  ASSUME NEW s \in Seq(Entries), Distinct(s), NEW i \in 1 .. Len(s), NEW mk \in BOOLEAN
  PROVE  Reduced(s, i, mk, Without(s, i, mk))
<1> DEFINE t == Without(s, i, mk)
<1>0. Len(s) \in Nat /\ DOMAIN s = 1 .. Len(s) /\ s[i] \in Entries /\ \A a : Live(a).ad = a
  BY DEF Live
<1> HIDE DEF t
<1>1. CASE mk
  <2> DEFINE e == [s[i] EXCEPT !.on = FALSE]
             w == [s EXCEPT ![i] = e]
  <2>1. t = w
    BY <1>1 DEF Without, t
  <2>2. e \in Entries /\ e.ad = s[i].ad /\ ~e.on
    BY <1>0 DEF Entries
  <2> HIDE DEF e
  <2>3. /\ w \in Seq(Entries) /\ Len(w) = Len(s) /\ DOMAIN w = 1 .. Len(s)
        /\ \A k \in 1 .. Len(s) : w[k] = IF k = i THEN e ELSE s[k]
    BY <1>0, <2>2
  <2> HIDE DEF w
  <2>4. \A k \in 1 .. Len(s) : w[k].ad = s[k].ad
    BY <2>2, <2>3
  <2>5. Distinct(w)
    BY <1>0, <2>3, <2>4 DEF Distinct
  <2>6. ASSUME NEW a, IsEntry(Live(a), w) PROVE IsEntry(Live(a), s) /\ a # s[i].ad
    <3>1. PICK k \in 1 .. Len(s) : w[k] = Live(a)
      BY <2>3, <2>6 DEF IsEntry
    <3>2. k # i
      BY <2>2, <2>3, <3>1 DEF Live
    <3>3. s[k] = Live(a) /\ s[k].ad = a
      BY <1>0, <2>3, <3>1, <3>2
    <3> QED BY <1>0, <3>2, <3>3 DEF IsEntry, Distinct
  <2> QED BY <1>0, <1>1, <2>1, <2>3, <2>4, <2>5, <2>6 DEF Reduced, t
<1>2. CASE ~mk
  <2>1. t = RemoveAt(s, i)
    BY <1>2 DEF Without, t
  <2>2. t \in Seq(Entries) /\ Len(t) = Len(s) - 1
    BY <2>1, Removed
  <2>3. /\ Distinct(t)
        /\ \A e : IsEntry(e, t) => IsEntry(e, s) /\ e.ad # s[i].ad
        /\ \A e : IsEntry(e, s) /\ e.ad # s[i].ad => IsEntry(e, t)
    BY <2>1, RemovedEntries
  <2>4. \A k \in DOMAIN t : IsEntry(t[k], t)
    BY DEF IsEntry
  <2>5. \A k \in DOMAIN t : IsEntry(t[k], s)
    BY <2>3, <2>4
  <2>6. \A k \in DOMAIN t : \E j \in DOMAIN s : s[j].ad = t[k].ad
    BY <2>5 DEF IsEntry
  <2>7. \A a : IsEntry(Live(a), t) => IsEntry(Live(a), s) /\ a # s[i].ad
    BY <1>0, <2>3
  <2>8. \A a : IsEntry(Live(a), s) /\ a # s[i].ad => IsEntry(Live(a), t)
    BY <1>0, <2>3
  <2> QED BY <1>0, <1>2, <2>2, <2>3, <2>5, <2>6, <2>7, <2>8 DEF Reduced, t
<1> QED BY <1>1, <1>2

(* ... and on all lists: the first entry for A of each list is no more called. *)
LEMMA RemovedFromLists ==
  ASSUME IInv, NEW A, ConditionalCallbackRemove(A)
  PROVE  /\ lists' \in [ListNames -> Seq(Entries)]
         /\ OnceInList(lists', fresh, use)
         /\ ~making => enqueued' = enqueued
         /\ \A l \in ListNames :
              /\ FirstOf(l, A) = 0 => lists'[l] = lists[l]
              /\ FirstOf(l, A) # 0 /\ ~making => Len(lists'[l]) < Len(lists[l])
              /\ \A a : IsEntry(Live(a), lists'[l]) =>
                   IsEntry(Live(a), lists[l]) /\ (FirstOf(l, A) # 0 => a # lists[l][FirstOf(l, A)].ad)
              /\ ~making /\ (\A k \in DOMAIN lists[l] : lists[l][k].on) =>
                   \A k \in DOMAIN lists'[l] : lists'[l][k].on
              /\ \A a : ~making /\ IsEntry(Live(a), lists[l])
                        /\ (FirstOf(l, A) # 0 => a # lists[l][FirstOf(l, A)].ad) =>
                          IsEntry(Live(a), lists'[l])
<1>0. /\ lists \in [ListNames -> Seq(Entries)] /\ OnceInList(lists, fresh, use)
      /\ making \in BOOLEAN
  BY DEF IInv, ListsOK
<1> DEFINE N(l) == IF making THEN [lists[l] EXCEPT ![FirstOf(l, A)].on = FALSE]
                   ELSE RemoveAt(lists[l], FirstOf(l, A))
<1>1. lists' = [l \in ListNames |-> IF FirstOf(l, A) = 0 THEN lists[l] ELSE N(l)]
  BY DEF ConditionalCallbackRemove
<1>2. ~making => enqueued' = enqueued
  BY DEF ConditionalCallbackRemove
<1>3. ASSUME NEW l \in ListNames, FirstOf(l, A) # 0
      PROVE  Reduced(lists[l], FirstOf(l, A), making, lists'[l])
  <2>1. lists[l] \in Seq(Entries) /\ Distinct(lists[l])
    BY <1>0 DEF OnceInList
  <2>2. FirstOf(l, A) \in 1 .. Len(lists[l])
    BY <1>3, <2>1, FirstOfFinds
  <2>3. lists'[l] = Without(lists[l], FirstOf(l, A), making)
    BY <1>1, <1>3 DEF Without
  <2> QED BY <1>0, <2>1, <2>2, <2>3, RemovedFromList
<1>4. ASSUME NEW l \in ListNames, FirstOf(l, A) = 0 PROVE lists'[l] = lists[l]
  BY <1>1, <1>4
<1>5. \A l \in ListNames : lists'[l] \in Seq(Entries)
  BY <1>0, <1>3, <1>4 DEF Reduced
<1>6. lists' \in [ListNames -> Seq(Entries)]
  <2> HIDE DEF N
  <2> QED BY <1>1, <1>5
<1>7. OnceInList(lists', fresh, use)
  <2> SUFFICES ASSUME NEW l \in ListNames
               PROVE  /\ Distinct(lists'[l])
                      /\ \A k \in DOMAIN lists'[l] :
                           /\ lists'[l][k].ad \in use.adapters /\ lists'[l][k].ad \notin fresh
                           /\ l \in ListsOf(lists'[l][k].ad)
    BY DEF OnceInList
  <2>1. \A j \in DOMAIN lists[l] : /\ lists[l][j].ad \in use.adapters /\ lists[l][j].ad \notin fresh
                                   /\ l \in ListsOf(lists[l][j].ad)
    BY <1>0 DEF OnceInList
  <2>2. Distinct(lists[l])
    BY <1>0 DEF OnceInList
  <2>3. CASE FirstOf(l, A) = 0
    BY <1>4, <2>1, <2>2, <2>3
  <2>4. CASE FirstOf(l, A) # 0
    <3>1. /\ Distinct(lists'[l])
          /\ \A k \in DOMAIN lists'[l] : \E j \in DOMAIN lists[l] : lists[l][j].ad = lists'[l][k].ad
      BY <1>3, <2>4 DEF Reduced
    <3> QED BY <2>1, <3>1
  <2> QED BY <2>3, <2>4
<1>8. ASSUME NEW l \in ListNames
      PROVE  /\ FirstOf(l, A) = 0 => lists'[l] = lists[l]
             /\ FirstOf(l, A) # 0 /\ ~making => Len(lists'[l]) < Len(lists[l])
             /\ \A a : IsEntry(Live(a), lists'[l]) =>
                  IsEntry(Live(a), lists[l]) /\ (FirstOf(l, A) # 0 => a # lists[l][FirstOf(l, A)].ad)
             /\ ~making /\ (\A k \in DOMAIN lists[l] : lists[l][k].on) =>
                  \A k \in DOMAIN lists'[l] : lists'[l][k].on
             /\ \A a : ~making /\ IsEntry(Live(a), lists[l])
                       /\ (FirstOf(l, A) # 0 => a # lists[l][FirstOf(l, A)].ad) =>
                         IsEntry(Live(a), lists'[l])
  <2>1. CASE FirstOf(l, A) = 0
    BY <1>4, <2>1
  <2>2. CASE FirstOf(l, A) # 0
    <3> HIDE DEF N
    <3>1. /\ \A a : IsEntry(Live(a), lists'[l]) =>
                     IsEntry(Live(a), lists[l]) /\ a # lists[l][FirstOf(l, A)].ad
          /\ ~making => /\ Len(lists'[l]) = Len(lists[l]) - 1 /\ Len(lists[l]) \in Nat
                        /\ \A k \in DOMAIN lists'[l] : IsEntry(lists'[l][k], lists[l])
                        /\ \A a : IsEntry(Live(a), lists[l]) /\ a # lists[l][FirstOf(l, A)].ad =>
                                   IsEntry(Live(a), lists'[l])
      BY <1>3, <2>2 DEF Reduced
    <3>2. ~making => Len(lists'[l]) < Len(lists[l])
      BY <3>1
    <3>3. ~making /\ (\A k \in DOMAIN lists[l] : lists[l][k].on) =>
            \A k \in DOMAIN lists'[l] : lists'[l][k].on
      BY <3>1 DEF IsEntry
    <3> QED BY <2>2, <3>1, <3>2, <3>3
  <2> QED BY <2>1, <2>2
<1> QED BY <1>2, <1>6, <1>7, <1>8

(* Whatever is removed while no callback is being made, or by a user whose    *)
(* callbacks unregister, leaves sound lists.                                  *)
LEMMA RemovalOK ==
  ASSUME IInv, NEW A, ConditionalCallbackRemove(A), Clean(use) => ~making,
         UNCHANGED <<use, fresh, alive>>, members' \in SUBSET members,
         \A l \in ListNames, a \in Adapters :
           /\ <<l, a>> \in members /\ IsEntry(Live(a), lists'[l]) => <<l, a>> \in members'
           /\ <<l, a>> \in members' /\ FirstOf(l, A) # 0 => a # lists[l][FirstOf(l, A)].ad
  PROVE  ListsOK(lists', members', fresh', use, enqueued', alive')
<1>1. /\ lists' \in [ListNames -> Seq(Entries)] /\ OnceInList(lists', fresh, use)
      /\ ~making => enqueued' = enqueued
      /\ \A l \in ListNames :
           /\ \A a : IsEntry(Live(a), lists'[l]) => IsEntry(Live(a), lists[l])
           /\ ~making /\ (\A k \in DOMAIN lists[l] : lists[l][k].on) =>
                \A k \in DOMAIN lists'[l] : lists'[l][k].on
           /\ \A a : ~making /\ IsEntry(Live(a), lists[l])
                     /\ (FirstOf(l, A) # 0 => a # lists[l][FirstOf(l, A)].ad) =>
                       IsEntry(Live(a), lists'[l])
  BY RemovedFromLists
<1>2. members' \in SUBSET (ListNames \X Adapters) /\ fresh' \in SUBSET use.adapters
  BY DEF IInv, ListsOK
<1>3. ASSUME alive', NEW l \in ListNames, NEW a \in Adapters, IsEntry(Live(a), lists'[l])
      PROVE  <<l, a>> \in members'
  <2>1. <<l, a>> \in members
    BY <1>1, <1>3 DEF IInv, ListsOK
  <2> QED BY <1>3, <2>1
<1>4. ASSUME Clean(use)
      PROVE  /\ enqueued' = 0
             /\ \A l \in ListNames : \A k \in DOMAIN lists'[l] : lists'[l][k].on
             /\ \A m \in members' : IsEntry(Live(m[2]), lists'[m[1]])
  <2>0. ~making
    BY <1>4
  <2>1. enqueued' = 0
    BY <1>1, <1>4, <2>0 DEF IInv, ListsOK
  <2>2. ASSUME NEW l \in ListNames PROVE \A k \in DOMAIN lists'[l] : lists'[l][k].on
    <3>1. \A k \in DOMAIN lists[l] : lists[l][k].on
      BY <1>4 DEF IInv, ListsOK
    <3> QED BY <1>1, <2>0, <3>1
  <2>3. ASSUME NEW m \in members' PROVE IsEntry(Live(m[2]), lists'[m[1]])
    <3>1. m[1] \in ListNames /\ m[2] \in Adapters /\ m = <<m[1], m[2]>>
      BY <1>2
    <3>2. IsEntry(Live(m[2]), lists[m[1]])
      BY <1>4 DEF IInv, ListsOK
    <3>3. FirstOf(m[1], A) # 0 => m[2] # lists[m[1]][FirstOf(m[1], A)].ad
      BY <3>1
    <3> QED BY <1>1, <2>0, <3>1, <3>2, <3>3
  <2> QED BY <2>1, <2>2, <2>3
<1> QED BY <1>1, <1>2, <1>3, <1>4 DEF ListsOK

(* An entry that is found is in the list. *)
LEMMA FirstFacts ==
  ASSUME IInv, NEW l \in ListNames, NEW A
  PROVE  /\ FirstOf(l, A) = 0 => \A a \in A : ~IsEntry(Live(a), lists[l])
         /\ FirstOf(l, A) # 0 => lists[l][FirstOf(l, A)].ad \in A
<1>1. lists[l] \in Seq(Entries)
  BY DEF IInv, ListsOK
<1>2. /\ FirstOf(l, A) = 0 => \A k \in DOMAIN lists[l] : lists[l][k].ad \notin A
      /\ FirstOf(l, A) # 0 => lists[l][FirstOf(l, A)].ad \in A
  BY <1>1, FirstOfFinds
<1> QED BY <1>2 DEF IsEntry, Live

(* unregisterParamCallback. *)
LEMMA UnregisterStep ==
  ASSUME IInv, UNCHANGED use, NEW a \in Adapters, Unregister(a)
  PROVE  IInv'
<1>1. /\ ConditionalCallbackRemove({a}) /\ members' = {m \in members : m[2] # a}
      /\ UNCHANGED <<making, alive, stack, fresh>>
  BY DEF Unregister
<1>2. Clean(use) => stack = <<>> /\ ~making
  <2>1. Clean(use) => stack = <<>>
    BY UserAt DEF Unregister
  <2> QED BY <2>1 DEF IInv, QuietOK
<1>3. ASSUME NEW l \in ListNames, NEW b \in Adapters
      PROVE  /\ <<l, b>> \in members /\ IsEntry(Live(b), lists'[l]) => <<l, b>> \in members'
             /\ <<l, b>> \in members' /\ FirstOf(l, {a}) # 0 => b # lists[l][FirstOf(l, {a})].ad
  <2>1. /\ FirstOf(l, {a}) = 0 => ~IsEntry(Live(a), lists[l])
        /\ FirstOf(l, {a}) # 0 => lists[l][FirstOf(l, {a})].ad = a
    BY FirstFacts
  <2>2. IsEntry(Live(b), lists'[l]) =>
          IsEntry(Live(b), lists[l]) /\ (FirstOf(l, {a}) # 0 => b # lists[l][FirstOf(l, {a})].ad)
    BY <1>1, RemovedFromLists
  <2>3. IsEntry(Live(b), lists'[l]) => b # a
    BY <2>1, <2>2
  <2>4. <<l, b>> \in members' <=> <<l, b>> \in members /\ b # a
    BY <1>1
  <2> QED BY <2>1, <2>3, <2>4
<1>4. ListsOK(lists', members', fresh', use, enqueued', alive')
  BY <1>1, <1>2, <1>3, RemovalOK
<1>5. StackOK(stack, lists, members, use)
  BY DEF IInv
<1>6. StackOK(stack, lists', members', use)
  <2>1. ASSUME NEW n \in 1 .. Len(stack), Clean(use) PROVE FALSE
    BY <1>2, <2>1
  <2> QED BY <1>5, <2>1, StackStays
<1> QED BY <1>1, <1>4, <1>6 DEF IInv

(* One pass of unregisterParamCallbacks. *)
LEMMA UnregisterPassStep ==
  ASSUME IInv, UNCHANGED use, UnregisterPass
  PROVE  IInv'
<1> DEFINE A == {a \in Adapters : Observer[a] = Top.arg}
           none == \A l \in ListNames : FirstOf(l, A) = 0
<1>1. /\ ConditionalCallbackRemove(A) /\ stack # <<>> /\ Top.at = "pass"
      /\ UNCHANGED <<making, alive, fresh>>
      /\ none => Pop /\ members' = {m \in members : m[2] \notin A}
      /\ ~none => /\ UNCHANGED stack
                  /\ members' = {m \in members : \/ FirstOf(m[1], A) = 0
                                                 \/ lists[m[1]][FirstOf(m[1], A)].ad # m[2]}
  BY DEF UnregisterPass, CodeRuns
<1> HIDE DEF A
<1>2. Clean(use) => Len(stack) = 1 /\ ~making
  <2>1. Clean(use) => Len(stack) = 1
    BY <1>1, TopFacts
  <2> QED BY <1>1, <2>1 DEF IInv, QuietOK, Top
<1>3. StackOK(stack, lists, members, use)
  BY DEF IInv
<1>4. StackOK(stack, lists', members', use)
  <2>1. ASSUME NEW n \in 1 .. Len(stack), Clean(use), NEW f, f = stack[n] PROVE f.at = "pass"
    BY <1>1, <1>2, <2>1 DEF Top
  <2> QED BY <1>3, <2>1, StackStays
<1>5. ASSUME NEW l \in ListNames, NEW b \in Adapters
      PROVE  IsEntry(Live(b), lists'[l]) =>
               IsEntry(Live(b), lists[l]) /\ (FirstOf(l, A) # 0 => b # lists[l][FirstOf(l, A)].ad)
  BY <1>1, RemovedFromLists
<1>6. members' \in SUBSET members
  BY <1>1
<1>7. CASE none
  <2>1. ASSUME NEW l \in ListNames, NEW b \in Adapters
        PROVE  /\ <<l, b>> \in members /\ IsEntry(Live(b), lists'[l]) => <<l, b>> \in members'
               /\ <<l, b>> \in members' /\ FirstOf(l, A) # 0 => b # lists[l][FirstOf(l, A)].ad
    <3>1. FirstOf(l, A) = 0
      BY <1>7
    <3>2. \A a \in A : ~IsEntry(Live(a), lists[l])
      BY <3>1, FirstFacts
    <3>3. <<l, b>> \in members' <=> <<l, b>> \in members /\ b \notin A
      BY <1>1, <1>7
    <3> QED BY <1>5, <3>1, <3>2, <3>3
  <2>2. ListsOK(lists', members', fresh', use, enqueued', alive')
    BY <1>1, <1>2, <1>6, <2>1, RemovalOK
  <2>3. Pop /\ alive' \in BOOLEAN
    BY <1>1, <1>7 DEF IInv
  <2> QED BY <1>1, <1>4, <2>2, <2>3, PopStep
<1>8. CASE ~none
  <2>1. ASSUME NEW l \in ListNames, NEW b \in Adapters
        PROVE  /\ <<l, b>> \in members /\ IsEntry(Live(b), lists'[l]) => <<l, b>> \in members'
               /\ <<l, b>> \in members' /\ FirstOf(l, A) # 0 => b # lists[l][FirstOf(l, A)].ad
    <3>1. <<l, b>> \in members' <=> /\ <<l, b>> \in members
                                    /\ FirstOf(l, A) = 0 \/ lists[l][FirstOf(l, A)].ad # b
      BY <1>1, <1>8
    <3> QED BY <1>5, <3>1
  <2>2. ListsOK(lists', members', fresh', use, enqueued', alive')
    BY <1>1, <1>2, <1>6, <2>1, RemovalOK
  <2>3. UNCHANGED stack
    BY <1>1, <1>8
  <2> QED BY <1>1, <1>4, <2>2, <2>3 DEF IInv
<1> QED BY <1>7, <1>8
-----------------------------------------------------------------------------
(* The invariant holds of a new parameter ... *)
LEMMA Starts ==
  Init => IInv
<1> SUFFICES ASSUME Init PROVE IInv
  OBVIOUS
<1>1. /\ use \in Uses /\ lists = [l \in ListNames |-> <<>>] /\ making = FALSE /\ enqueued = 0
      /\ alive = TRUE /\ stack = <<>> /\ members = {} /\ fresh = use.adapters
  BY DEF Init
<1>2. \A l \in ListNames : lists[l] = <<>> /\ DOMAIN lists[l] = {}
  BY <1>1
<1>3. lists \in [ListNames -> Seq(Entries)]
  BY <1>1
<1>4. OnceInList(lists, fresh, use)
  BY <1>2 DEF OnceInList, Distinct
<1>5. ListsOK(lists, members, fresh, use, enqueued, alive)
  BY <1>1, <1>2, <1>3, <1>4 DEF ListsOK, IsEntry
<1>6. StackOK(stack, lists, members, use)
  BY <1>1 DEF StackOK
<1>7. QuietOK(stack, making)
  BY <1>1 DEF QuietOK
<1> QED BY <1>1, <1>5, <1>6, <1>7 DEF IInv

(* ... and every step keeps it. *)
LEMMA Step ==
  IInv /\ [Next]_vars => IInv'
<1> SUFFICES ASSUME IInv, [Next]_vars PROVE IInv'
  OBVIOUS
<1>1. CASE UNCHANGED vars
  BY <1>1 DEF IInv, vars
<1>2. CASE CodeStep /\ UNCHANGED use
  <2>1. CASE UnregisterPass
    BY <1>2, <2>1, UnregisterPassStep
  <2>2. CASE EnterHelper
    BY <1>2, <2>2, EnterHelperStep
  <2>3. CASE CallBack
    BY <1>2, <2>3, CallBackStep
  <2>4. CASE PassOver
    BY <1>2, <2>4, PassOverStep
  <2>5. CASE LeaveHelper
    BY <1>2, <2>5, LeaveHelperStep
  <2>6. CASE AfterReject \/ AfterPreWrite \/ AfterPostWrite \/ AfterRead
    BY <1>2, <2>6, AfterSteps
  <2>7. CASE AfterDestroy
    BY <1>2, <2>7, AfterDestroyStep
  <2>8. CASE \E r \in 0 .. 2 : CallbackReturns(r)
    BY <1>2, <2>8, CallbackReturnsStep
  <2> QED BY <1>2, <2>1, <2>2, <2>3, <2>4, <2>5, <2>6, <2>7, <2>8 DEF CodeStep
<1>3. CASE UserStep /\ UNCHANGED use
  <2>1. CASE \/ \E op \in Ops, v \in Values : Write(op, v)
             \/ \E v \in Values, p \in Passwords \cup {NoPwd} : WriteWithPwd(v, p)
             \/ \E op \in Ops : Read(op)
             \/ \E o \in Range(Observer) : UnregisterAll(o)
             \/ Destruct
    BY <1>3, <2>1, PushActions
  <2>2. CASE \E p \in Passwords \cup {NoPwd} : Lock(p) \/ Unlock(p)
    BY <1>3, <2>2, LockSteps
  <2>3. CASE \E a \in Adapters : Register(a) \/ Unregister(a)
    BY <1>3, <2>3, RegisterStep, UnregisterStep
  <2> QED BY <1>3, <2>1, <2>2, <2>3 DEF UserStep
<1> QED BY <1>1, <1>2, <1>3 DEF Next

(* The invariant: the lists hold every adapter at most once, their enabled    *)
(* entries are registered callbacks, and the calls in progress form a stack   *)
(* of loops, each of which has met the entries before its index.              *)
THEOREM Invariance ==
  Spec => []IInv
<1>1. Init => IInv
  BY Starts
<1>2. IInv /\ [Next]_vars => IInv'
  BY Step
<1> QED BY <1>1, <1>2, PTL DEF Spec
-----------------------------------------------------------------------------
(* The enabled adapters are those with an enabled entry. *)
LEMMA EnabledIsEntry ==
  ASSUME NEW l, NEW a
  PROVE  a \in Enabled(l) <=> a \in Adapters /\ IsEntry(Live(a), lists[l])
  BY DEF Enabled, IsEntry, Live

(* The properties follow from the invariant: no callback is lost, ... *)
LEMMA KeptByInv ==
  IInv => CallbacksKept
<1> SUFFICES ASSUME IInv, NoCleanup, NEW m \in members PROVE m[2] \in Enabled(m[1])
  BY DEF CallbacksKept, NoCallbackLost
<1>1. Clean(use)
  BY DEF NoCleanup, Clean
<1>2. IsEntry(Live(m[2]), lists[m[1]]) /\ m[2] \in Adapters
  BY <1>1 DEF IInv, ListsOK
<1> QED BY <1>2, EnabledIsEntry

(* ... only registered callbacks are enabled, ... *)
LEMMA RegisteredByInv ==
  IInv => OnlyRegisteredEnabled
<1> SUFFICES ASSUME IInv, alive, NEW l \in ListNames, NEW a \in Enabled(l) PROVE <<l, a>> \in members
  BY DEF OnlyRegisteredEnabled
<1>1. a \in Adapters /\ IsEntry(Live(a), lists[l])
  BY EnabledIsEntry
<1> QED BY <1>1 DEF IInv, ListsOK

(* ... and each is met once. *)
LEMMA OnceByInv ==
  IInv => (NoCleanup => CalledOnce)
<1> SUFFICES ASSUME IInv, NoCleanup, NEW n \in DOMAIN stack
             PROVE  /\ \A j, k \in DOMAIN stack[n].seen : j # k => stack[n].seen[j] # stack[n].seen[k]
                    /\ stack[n].at = "after" => \A a \in stack[n].due :
                         <<stack[n].reason, a>> \in members => a \in Range(stack[n].seen)
  BY DEF CalledOnce
<1>1. Clean(use)
  BY DEF NoCleanup, Clean
<1>2. stack \in Seq(Frames) /\ n \in 1 .. Len(stack)
  BY DEF IInv, StackOK
<1>3. LoopDone(stack[n], members)
  BY <1>1, <1>2 DEF IInv, StackOK, FrameOK
<1> QED BY <1>3 DEF LoopDone, Range

(* When callbacks unregister nothing, no registered callback is ever lost or  *)
(* disabled: by nested calls, by callbacks that register others, or by        *)
(* unregisterParamCallback(s) outside of callbacks.                           *)
THEOREM NoCallbackIsLost ==
  Spec => []CallbacksKept
<1>1. IInv => CallbacksKept
  BY KeptByInv
<1> QED BY <1>1, Invariance, PTL

(* Only registered callbacks can be called: conditional_callback_remove takes *)
(* out or disables, and cleanup_callback_list, whatever entries it erases,    *)
(* enables none again.                                                        *)
THEOREM OnlyRegisteredAreCalled ==
  Spec => []OnlyRegisteredEnabled
<1>1. IInv => OnlyRegisteredEnabled
  BY RegisteredByInv
<1> QED BY <1>1, Invariance, PTL

(* When callbacks unregister nothing, make_enabled_callbacks_helper meets     *)
(* every callback that was enabled at its start and is still registered at    *)
(* its end, and none twice, however calls are nested and however the list     *)
(* grows under its loop.                                                      *)
THEOREM EachIsMetOnce ==
  Spec => [](NoCleanup => CalledOnce)
<1>1. IInv => (NoCleanup => CalledOnce)
  BY OnceByInv
<1> QED BY <1>1, Invariance, PTL

(* Outside of callbacks every pass of unregisterParamCallbacks but the last   *)
(* shortens a list.                                                           *)
THEOREM UnregisterAllEnds ==
  Spec => UnregisterAllAdvances
<1> DEFINE P == Len(stack) = 1 /\ Top.at = "pass" /\ stack' = stack =>
                  \E l \in ListNames : Len(lists'[l]) < Len(lists[l])
<1>1. IInv /\ [Next]_vars => [P]_vars
  <2> SUFFICES ASSUME IInv, Next, Len(stack) = 1, Top.at = "pass", stack' = stack
               PROVE  \E l \in ListNames : Len(lists'[l]) < Len(lists[l])
    OBVIOUS
  <2>1. stack # <<>>
    OBVIOUS
  <2>2. \A op : ~UserRuns(op)
    BY <2>1 DEF UserRuns
  <2>3. ~UserStep
    BY <2>2 DEF UserStep, Write, WriteWithPwd, Read, Lock, Unlock, Register, Unregister,
                UnregisterAll, Destruct
  <2>4. UnregisterPass
    BY <2>3 DEF Next, CodeStep, CodeRuns, EnterHelper, CallBack, PassOver, LeaveHelper, AfterReject,
                AfterPreWrite, AfterPostWrite, AfterRead, AfterDestroy, CallbackReturns
  <2> DEFINE A == {a \in Adapters : Observer[a] = Top.arg}
  <2>5. ConditionalCallbackRemove(A) /\ ((\A l \in ListNames : FirstOf(l, A) = 0) => Pop)
    BY <2>4 DEF UnregisterPass
  <2> HIDE DEF A
  <2>6. ~Pop
    <3>1. StackOK(stack, lists, members, use)
      BY DEF IInv
    <3>2. Front(stack) = <<>>
      BY <2>1, <3>1, PopOK
    <3> QED BY <2>1, <3>2 DEF Pop
  <2>7. PICK l \in ListNames : FirstOf(l, A) # 0
    BY <2>5, <2>6
  <2>8. ~making
    BY DEF IInv, QuietOK, Top
  <2>9. Len(lists'[l]) < Len(lists[l])
    BY <2>5, <2>7, <2>8, RemovedFromLists
  <2> QED BY <2>9
<1>2. Spec => [][P]_vars
  BY <1>1, Invariance, PTL DEF Spec
<1> QED BY <1>2 DEF UnregisterAllAdvances

(* When reject_write callbacks report no other error, a write that one of     *)
(* them refused leaves the value alone, whatever the others return.           *)
THEOREM RefusalsHold ==
  ASSUME RefuseCleanly
  PROVE  Spec => RefusedWriteHasNoEffect
<1> DEFINE P == value' # value => ~Top.refused
<1>1. IInv /\ [Next]_vars => [P]_vars
  <2> SUFFICES ASSUME IInv, Next, value' # value PROVE ~Top.refused
    OBVIOUS
  <2>1. ~UserStep
    BY DEF UserStep, Write, WriteWithPwd, Read, Lock, Unlock, Register, Unregister,
           UnregisterAll, Destruct
  <2>2. AfterPreWrite
    BY <2>1 DEF Next, CodeStep, UnregisterPass, EnterHelper, CallBack, PassOver, LeaveHelper,
                AfterReject, AfterPostWrite, AfterRead, AfterDestroy, CallbackReturns
  <2>3. stack # <<>> /\ Top.reason = "pre_write"
    BY <2>2 DEF AfterPreWrite, CodeRuns
  <2>4. RefusalOK(Top)
    BY <2>3, TopFacts DEF FrameOK
  <2> QED BY <2>3, <2>4 DEF RefusalOK
<1>2. Spec => [][P]_vars
  BY <1>1, Invariance, PTL DEF Spec
<1> QED BY <1>2 DEF RefusedWriteHasNoEffect

(* A way of using the parameter in which callbacks may unregister callbacks, but *)
(* neither write nor read: no loop begins while another one runs.                 *)
Flat(u) == \A a \in u.adapters : u.body[a] \cap (Writes \cup Reads) = {}

(* Then there is one call, and above it at most an unregisterParamCallbacks of  *)
(* its callback, and the flag is on from the start of a loop to its end.        *)
FlatOK ==
  Flat(use) =>
    /\ \A n \in 1 .. Len(stack) : n # 1 => n = 2 /\ stack[n].at = "pass"
    /\ stack # <<>> /\ stack[1].at \in {"loop", "body"} => making

(* A call that makes callbacks is alone, ... *)
LEMMA FlatTop ==
  ASSUME IInv, FlatOK, Flat(use), stack # <<>>
  PROVE  /\ Len(stack) \in {1, 2}
         /\ Top.at # "pass" => Len(stack) = 1 /\ Top = stack[1]
<1>1. Len(stack) \in Nat \ {0} /\ Len(stack) \in 1 .. Len(stack)
  BY DEF IInv, StackOK
<1>2. Len(stack) # 1 => Len(stack) = 2 /\ Top.at = "pass"
  BY <1>1 DEF FlatOK, Top
<1> QED BY <1>1, <1>2 DEF Top

(* ... and its callbacks only begin calls without a loop. *)
LEMMA FlatUser ==
  ASSUME IInv, FlatOK, Flat(use), NEW op, UserRuns(op), stack # <<>>
  PROVE  Len(stack) = 1 /\ op \notin Writes \cup Reads
<1>1. Top.at = "body" /\ op \in use.body[Top.ad]
  BY DEF UserRuns
<1>2. Top.ad \in use.adapters
  BY <1>1, TopFacts DEF FrameOK
<1>3. use.body[Top.ad] \cap (Writes \cup Reads) = {}
  BY <1>2 DEF Flat
<1> QED BY <1>1, <1>3, FlatTop

LEMMA FlatPush ==
  ASSUME IInv, FlatOK, NEW f \in Frames, Push(f), UNCHANGED <<use, making>>,
         f.at \in {"enter", "pass"},
         Flat(use) => stack = <<>> \/ (Len(stack) = 1 /\ f.at = "pass")
  PROVE  FlatOK'
<1> SUFFICES ASSUME Flat(use) PROVE FlatOK'
  BY DEF FlatOK
<1>1. stack \in Seq(Frames) /\ Len(stack) \in Nat /\ stack' = Append(stack, f)
  BY DEF IInv, StackOK, Push
<1>2. Len(stack') = Len(stack) + 1 /\ stack'[Len(stack) + 1] = f
  BY <1>1
<1>3. CASE stack = <<>>
  BY <1>2, <1>3 DEF FlatOK
<1>4. CASE Len(stack) = 1 /\ f.at = "pass"
  <2>1. stack # <<>> /\ stack'[1] = stack[1]
    BY <1>1, <1>4
  <2> QED BY <1>2, <1>4, <2>1 DEF FlatOK
<1> QED BY <1>3, <1>4

LEMMA FlatSetTop ==
  ASSUME IInv, FlatOK, stack # <<>>, Top.at # "pass", NEW g, SetTop(g), UNCHANGED use,
         g.at \in {"loop", "body"} => making'
  PROVE  FlatOK'
<1> SUFFICES ASSUME Flat(use) PROVE FlatOK'
  BY DEF FlatOK
<1>1. Len(stack) = 1
  BY FlatTop
<1>2. stack' = [stack EXCEPT ![1] = g] /\ stack \in Seq(Frames)
  BY <1>1 DEF SetTop, IInv, StackOK
<1>3. Len(stack') = 1 /\ stack'[1] = g
  BY <1>1, <1>2
<1> QED BY <1>3 DEF FlatOK

LEMMA FlatPop ==
  ASSUME IInv, FlatOK, stack # <<>>, Pop, UNCHANGED <<use, making>>
  PROVE  FlatOK'
<1> SUFFICES ASSUME Flat(use) PROVE FlatOK'
  BY DEF FlatOK
<1>1. Len(stack) \in {1, 2} /\ stack \in Seq(Frames)
  BY FlatTop DEF IInv, StackOK
<1>2. stack' = SubSeq(stack, 1, Len(stack) - 1)
  BY DEF Pop, Front
<1>3. CASE Len(stack) = 1
  <2>1. stack' = <<>>
    BY <1>1, <1>2, <1>3
  <2> QED BY <2>1 DEF FlatOK
<1>4. CASE Len(stack) = 2
  <2>1. Len(stack') = 1 /\ stack'[1] = stack[1]
    BY <1>1, <1>2, <1>4
  <2> QED BY <2>1 DEF FlatOK
<1> QED BY <1>1, <1>3, <1>4

(* Every step of the code ... *)
LEMMA FlatCode ==
  ASSUME IInv, FlatOK, CodeStep, UNCHANGED use
  PROVE  FlatOK'
<1>1. CASE UnregisterPass
  <2>1. stack # <<>> /\ UNCHANGED making /\ (Pop \/ UNCHANGED stack)
    BY <1>1 DEF UnregisterPass, CodeRuns
  <2>2. CASE Pop
    BY <2>1, <2>2, FlatPop
  <2>3. CASE UNCHANGED stack
    BY <2>1, <2>3 DEF FlatOK
  <2> QED BY <2>1, <2>2, <2>3
<1>2. ASSUME stack # <<>>, Top \in Frames, EnterHelper PROVE FlatOK'
  <2>1. Top.at = "enter"
    BY <1>2 DEF EnterHelper, CodeRuns
  <2>2. CASE lists[Top.reason] = <<>>
    <3> DEFINE g == [Top EXCEPT !.at = "after", !.ret = return_nothing]
    <3>1. SetTop(g) /\ g.at = "after"
      BY <1>2, <2>2 DEF EnterHelper, Frames
    <3> HIDE DEF g
    <3> QED BY <1>2, <2>1, <3>1, FlatSetTop
  <2>3. CASE lists[Top.reason] # <<>>
    <3>1. making' /\ \E g : SetTop(g)
      BY <1>2, <2>3 DEF EnterHelper
    <3> QED BY <1>2, <2>1, <3>1, FlatSetTop
  <2> QED BY <2>2, <2>3
<1>3. ASSUME stack # <<>>, Top \in Frames, Top.at \in {"loop", "body"}, UNCHANGED making,
             NEW g, SetTop(g)
      PROVE  FlatOK'
  <2>1. Flat(use) => making'
    BY <1>3, FlatTop DEF FlatOK
  <2> QED BY <1>3, <2>1, FlatSetTop DEF FlatOK
<1>4. CASE CallBack \/ PassOver \/ \E r \in 0 .. 2 : CallbackReturns(r)
  <2>1. /\ stack # <<>> /\ Top.at \in {"loop", "body"} /\ UNCHANGED making
        /\ \E g : SetTop(g)
    BY <1>4 DEF CallBack, PassOver, CallbackReturns, CodeRuns, callVars
  <2> QED BY <1>3, <2>1, TopFacts
<1>5. ASSUME stack # <<>>, Top \in Frames, LeaveHelper PROVE FlatOK'
  <2> DEFINE g == [Top EXCEPT !.at = "after"]
  <2>1. SetTop(g) /\ g.at = "after" /\ Top.at = "loop"
    BY <1>5 DEF LeaveHelper, CodeRuns, Frames
  <2> HIDE DEF g
  <2> QED BY <1>5, <2>1, FlatSetTop
<1>6. CASE AfterReject \/ AfterPreWrite \/ AfterPostWrite \/ AfterRead \/ AfterDestroy
  <2>1. stack # <<>> /\ Top.at = "after" /\ UNCHANGED making
    BY <1>6 DEF AfterReject, AfterPreWrite, AfterPostWrite, AfterRead, AfterDestroy, CodeRuns,
                callVars
  <2>2. Pop \/ \E r : GoesOnTo(r)
    BY <1>6 DEF AfterReject, AfterPreWrite, AfterPostWrite, AfterRead, AfterDestroy, Commit
  <2>3. CASE Pop
    BY <2>1, <2>3, FlatPop
  <2>4. ASSUME NEW r, GoesOnTo(r) PROVE FlatOK'
    <3> DEFINE g == [Top EXCEPT !.at = "enter", !.reason = r]
    <3>1. SetTop(g) /\ g.at = "enter"
      BY <2>1, <2>4, TopFacts DEF GoesOnTo, Frames
    <3> HIDE DEF g
    <3> QED BY <2>1, <3>1, FlatSetTop
  <2> QED BY <2>2, <2>3, <2>4
<1>7. EnterHelper \/ LeaveHelper => stack # <<>>
  BY DEF EnterHelper, LeaveHelper, CodeRuns
<1> QED BY <1>1, <1>2, <1>4, <1>5, <1>6, <1>7, TopFacts DEF CodeStep

(* ... and of the user keeps it. *)
LEMMA FlatUserStep ==
  ASSUME IInv, FlatOK, UserStep, UNCHANGED use
  PROVE  FlatOK'
<1>0. /\ "reject_write" \in ListNames /\ "pre_read" \in ListNames /\ "destroy_param" \in ListNames
      /\ Reads \subseteq Ops /\ "setValuePwd" \in Ops \cap Writes /\ "unregisterAll" \in Ops
      /\ "destruct" \in Ops
  BY Names DEF Ops, Writes, Reads
<1>1. ASSUME NEW op \in Ops, NEW v \in Values \cup {None} \cup Range(Observer),
             NEW p \in Passwords \cup {NoPwd}, NEW r \in ListNames, NEW f,
             f = Call(op, v, p, r), Push(f), UNCHANGED making,
             stack = <<>> \/ (UserRuns(op) /\ op \in Writes \cup Reads)
      PROVE  FlatOK'
  <2>1. f \in Frames /\ f.at = "enter"
    BY <1>1 DEF Call, Frames, return_nothing
  <2>2. Flat(use) => stack = <<>>
    BY <1>1, FlatUser
  <2> QED BY <1>1, <2>1, <2>2, FlatPush
<1>2. CASE \E op \in Ops, v \in Values : Write(op, v)
  <2>1. PICK op \in Ops, v \in Values : Write(op, v)
    BY <1>2
  <2>2. /\ Push(Call(op, v, NoPwd, "reject_write")) /\ UNCHANGED making
        /\ UserRuns(op) /\ op \in Writes
    BY <2>1 DEF Write, callVars, Writes
  <2> QED BY <1>0, <1>1, <2>2
<1>3. CASE \E v \in Values, p \in Passwords \cup {NoPwd} : WriteWithPwd(v, p)
  <2>1. PICK v \in Values, p \in Passwords \cup {NoPwd} : WriteWithPwd(v, p)
    BY <1>3
  <2>2. /\ Push(Call("setValuePwd", v, p, "reject_write")) /\ UNCHANGED making
        /\ UserRuns("setValuePwd")
    BY <2>1 DEF WriteWithPwd, callVars
  <2> QED BY <1>0, <1>1, <2>2
<1>4. CASE \E op \in Ops : Read(op)
  <2>1. PICK op \in Ops : Read(op)
    BY <1>4
  <2>2. /\ Push(Call(op, None, NoPwd, "pre_read")) /\ UNCHANGED making
        /\ UserRuns(op) /\ op \in Reads
    BY <2>1 DEF Read, callVars
  <2> QED BY <1>0, <1>1, <2>2
<1>5. CASE \E o \in Range(Observer) : UnregisterAll(o)
  <2>1. PICK o \in Range(Observer) : UnregisterAll(o)
    BY <1>5
  <2> DEFINE c == Call("unregisterAll", o, NoPwd, "pre_read")
             f == [c EXCEPT !.at = "pass"]
  <2>2. c \in Frames
    BY <1>0 DEF Call, Frames, return_nothing
  <2>3. Push(f) /\ UserRuns("unregisterAll") /\ UNCHANGED making
    BY <2>1 DEF UnregisterAll, callVars
  <2> HIDE DEF c
  <2>4. f \in Frames /\ f.at = "pass"
    BY <2>2 DEF Frames
  <2> HIDE DEF f
  <2>5. Flat(use) => stack = <<>> \/ Len(stack) = 1
    BY <2>3, FlatUser
  <2> QED BY <2>3, <2>4, <2>5, FlatPush
<1>6. CASE Destruct
  <2>1. /\ Push(Call("destruct", None, NoPwd, "destroy_param")) /\ UNCHANGED making
        /\ stack = <<>>
    BY <1>6 DEF Destruct, callVars
  <2> QED BY <1>0, <1>1, <2>1
<1>7. CASE \/ \E p \in Passwords \cup {NoPwd} : Lock(p) \/ Unlock(p)
           \/ \E a \in Adapters : Register(a) \/ Unregister(a)
  <2>1. UNCHANGED <<stack, making>>
    BY <1>7 DEF Lock, Unlock, Register, Unregister, callVars
  <2> QED BY <2>1 DEF FlatOK
<1> QED BY <1>2, <1>3, <1>4, <1>5, <1>6, <1>7 DEF UserStep

LEMMA FlatInvariance ==
  Spec => []FlatOK
<1>1. Init => FlatOK
  BY DEF Init, FlatOK
<1>2. IInv /\ FlatOK /\ [Next]_vars => FlatOK'
  <2> SUFFICES ASSUME IInv, FlatOK, [Next]_vars PROVE FlatOK'
    OBVIOUS
  <2>1. CASE UNCHANGED vars
    BY <2>1 DEF FlatOK, vars
  <2>2. CASE Next
    BY <2>2, FlatCode, FlatUserStep DEF Next
  <2> QED BY <2>1, <2>2
<1> QED BY <1>1, <1>2, Invariance, PTL DEF Spec

(* What is unregistered while the flag is on stays in its list. *)
LEMMA DisabledOnly ==
  ASSUME IInv, making, NEW A, ConditionalCallbackRemove(A), NEW l \in ListNames
  PROVE  Len(lists'[l]) = Len(lists[l])
<1>1. lists[l] \in Seq(Entries)
  BY DEF IInv, ListsOK
<1>2. lists'[l] = IF FirstOf(l, A) = 0 THEN lists[l]
                  ELSE [lists[l] EXCEPT ![FirstOf(l, A)].on = FALSE]
  BY DEF ConditionalCallbackRemove
<1>3. CASE FirstOf(l, A) = 0
  BY <1>2, <1>3
<1>4. CASE FirstOf(l, A) # 0
  <2>1. FirstOf(l, A) \in 1 .. Len(lists[l])
    BY <1>1, <1>4, FirstOfFinds
  <2> DEFINE e == [lists[l][FirstOf(l, A)] EXCEPT !.on = FALSE]
  <2>2. lists'[l] = [lists[l] EXCEPT ![FirstOf(l, A)] = e]
    BY <1>2, <1>4
  <2> HIDE DEF e
  <2> QED BY <1>1, <2>1, <2>2
<1> QED BY <1>3, <1>4

(* Without unregistering in callbacks only registering changes a list under a *)
(* loop.                                                                      *)
LEMMA CleanKeeps ==
  ASSUME IInv, Clean(use), Next, NEW n \in DOMAIN stack, stack[n].at = "body"
  PROVE  UNCHANGED lists \/ \E a \in Adapters : Register(a)
<1>1. enqueued = 0
  BY DEF IInv, ListsOK
<1>2. stack \in Seq(Frames) /\ n \in 1 .. Len(stack) /\ stack # <<>>
  BY DEF IInv, StackOK
<1>3. \A a : ~Unregister(a)
  BY <1>2, UserAt DEF Unregister
<1>4. ~UnregisterPass
  <2> SUFFICES ASSUME UnregisterPass PROVE FALSE
    OBVIOUS
  <2>1. Top.at = "pass"
    BY DEF UnregisterPass, CodeRuns
  <2>2. Len(stack) = 1
    BY <1>2, <2>1, TopFacts
  <2> QED BY <1>2, <2>1, <2>2 DEF Top
<1>5. LeaveHelper => UNCHANGED lists
  BY <1>1 DEF LeaveHelper
<1>6. CASE CodeStep
  BY <1>4, <1>5, <1>6 DEF CodeStep, EnterHelper, CallBack, PassOver, AfterReject, AfterPreWrite,
                AfterPostWrite, AfterRead, AfterDestroy, CallbackReturns
<1>7. CASE UserStep
  BY <1>3, <1>7 DEF UserStep, Write, WriteWithPwd, Read, Lock, Unlock, UnregisterAll, Destruct
<1> QED BY <1>6, <1>7 DEF Next

(* Without nested loops the clean-up waits for the end of the only loop, and    *)
(* what a callback unregisters is only disabled.                                *)
LEMMA FlatKeeps ==
  ASSUME IInv, FlatOK, Flat(use), Next, NEW n \in DOMAIN stack, stack[n].at = "body"
  PROVE  \/ UNCHANGED lists
         \/ \E a \in Adapters : Register(a)
         \/ making /\ \E A : ConditionalCallbackRemove(A)
<1>1. stack \in Seq(Frames) /\ n \in 1 .. Len(stack) /\ stack # <<>>
  BY DEF IInv, StackOK
<1>2. n = 1
  BY <1>1 DEF FlatOK
<1>3. making
  BY <1>1, <1>2 DEF FlatOK
<1>4. ~LeaveHelper
  <2> SUFFICES ASSUME LeaveHelper PROVE FALSE
    OBVIOUS
  <2>1. Top.at = "loop"
    BY DEF LeaveHelper, CodeRuns
  <2> QED BY <1>1, <1>2, <2>1, FlatTop
<1>5. UnregisterPass \/ (\E a \in Adapters : Unregister(a)) => \E A : ConditionalCallbackRemove(A)
  BY DEF UnregisterPass, Unregister
<1>6. CASE CodeStep
  BY <1>3, <1>4, <1>5, <1>6 DEF CodeStep, EnterHelper, CallBack, PassOver, AfterReject,
                AfterPreWrite, AfterPostWrite, AfterRead, AfterDestroy, CallbackReturns
<1>7. CASE UserStep
  BY <1>3, <1>5, <1>7 DEF UserStep, Write, WriteWithPwd, Read, Lock, Unlock, UnregisterAll, Destruct
<1> QED BY <1>6, <1>7 DEF Next

(* No entry leaves a list while one of its callbacks runs, in every use in which *)
(* callbacks unregister nothing, whatever else they do, or unregister whatever   *)
(* they like but neither write nor read the parameter: then entries are disabled *)
(* until the loop is over (conditional_callback_remove, cleanup_callback_list).  *)
THEOREM NothingRemovedDuringCalls ==
  ASSUME \A u \in Uses : Clean(u) \/ Flat(u)
  PROVE  Spec => NoRemovalDuringCalls
<1> DEFINE P == \A n \in DOMAIN stack :
                  stack[n].at = "body" => Len(lists'[stack[n].reason]) >= Len(lists[stack[n].reason])
<1>1. IInv /\ FlatOK /\ [Next]_vars => [P]_vars
  <2> SUFFICES ASSUME IInv, FlatOK, Next, NEW n \in DOMAIN stack, stack[n].at = "body"
               PROVE  Len(lists'[stack[n].reason]) >= Len(lists[stack[n].reason])
    OBVIOUS
  <2> DEFINE r == stack[n].reason
  <2>1. stack[n] \in Frames
    BY DEF IInv, StackOK
  <2>2. r \in ListNames /\ lists[r] \in Seq(Entries) /\ Len(lists[r]) \in Nat
    BY <2>1 DEF Frames, IInv, ListsOK
  <2> HIDE DEF r
  <2>3. Clean(use) \/ Flat(use)
    BY DEF IInv
  <2>4. \/ UNCHANGED lists
        \/ \E a \in Adapters : Register(a)
        \/ making /\ \E A : ConditionalCallbackRemove(A)
    BY <2>3, CleanKeeps, FlatKeeps
  <2>5. CASE UNCHANGED lists
    BY <2>2, <2>5 DEF r
  <2>6. ASSUME NEW a \in Adapters, Register(a) PROVE Len(lists'[r]) >= Len(lists[r])
    <3>1. lists'[r] = IF r \in ListsOf(a) THEN Append(lists[r], Live(a)) ELSE lists[r]
      BY <2>2, <2>6 DEF Register, Live
    <3>2. Live(a) \in Entries
      BY DEF Live, Entries
    <3>3. Len(Append(lists[r], Live(a))) = Len(lists[r]) + 1
      BY <2>2, <3>2
    <3> QED BY <2>2, <3>1, <3>3
  <2>7. ASSUME making, NEW A, ConditionalCallbackRemove(A) PROVE Len(lists'[r]) >= Len(lists[r])
    <3>1. Len(lists'[r]) = Len(lists[r])
      BY <2>2, <2>7, DisabledOnly
    <3> QED BY <2>2, <3>1
  <2> QED BY <2>4, <2>5, <2>6, <2>7 DEF r
<1>2. Spec => [][P]_vars
  BY <1>1, Invariance, FlatInvariance, PTL DEF Spec
<1> QED BY <1>2 DEF NoRemovalDuringCalls
-----------------------------------------------------------------------------
ReadLists == {"pre_read", "post_read"}
Writer(u, a) == u.body[a] \cap Writes # {}
UsesPwd(u) == "setValuePwd" \in u.top \/ \E a \in u.adapters : "setValuePwd" \in u.body[a]

(* At most one callback writes, and it is not called for reads. *)
OneWriter(u) ==
  /\ \A a, b \in u.adapters : Writer(u, a) /\ Writer(u, b) => a = b
  /\ \A a \in u.adapters : Writer(u, a) => ListsOf(a) \cap ReadLists = {}

(* Where setValue is called with a password, callbacks do not write, and only  *)
(* those that run after the write lock.                                        *)
LocksLate(u) ==
  UsesPwd(u) => \A a \in u.adapters :
    ~Writer(u, a) /\ ("lock" \in u.body[a] => ListsOf(a) \subseteq {"post_write", "destroy_param"})

(* A call makes the callbacks of its kind, ... *)
KindOK(f) ==
  \/ f.op \in Writes /\ f.reason \in {"reject_write", "pre_write", "post_write"}
  \/ f.op \in Reads \cup {"unregisterAll"} /\ f.reason \in ReadLists
  \/ f.op = "destruct" /\ f.reason = "destroy_param"

(* ... the callbacks that run are those of the calls in progress, each once,   *)
(* and a call that writes comes from a callback that may write.                *)
InBody(st) == {n \in DOMAIN st : st[n].at = "body"}
CallsOK(st, cg, u) ==
  /\ cg = {st[n].ad : n \in InBody(st)}
  /\ \A n, m \in InBody(st) : n # m => st[n].ad # st[m].ad
  /\ \A n \in DOMAIN st : KindOK(st[n]) /\ (st[n].op = "setValuePwd" => UsesPwd(u))
  /\ \A n \in DOMAIN st : n > 1 => st[n].op # "destruct" /\ (st[n].op \in Writes => Writer(u, st[n - 1].ad))
-----------------------------------------------------------------------------
(* A call that begins keeps the calls in order, ... *)
LEMMA PushCalls ==
  ASSUME NEW st \in Seq(Frames), NEW cg, NEW u, CallsOK(st, cg, u),
         NEW f \in Frames, f.at # "body", KindOK(f), f.op = "setValuePwd" => UsesPwd(u),
         st # <<>> => f.op # "destruct" /\ (f.op \in Writes => Writer(u, st[Len(st)].ad))
  PROVE  CallsOK(Append(st, f), cg, u)
<1> DEFINE t == Append(st, f)
<1>0. Len(st) \in Nat /\ DOMAIN st = 1 .. Len(st) /\ (Len(st) # 0 => st # <<>>)
  OBVIOUS
<1>1. /\ DOMAIN t = 1 .. Len(st) + 1 /\ t[Len(st) + 1] = f
      /\ \A n \in 1 .. Len(st) : t[n] = st[n]
  OBVIOUS
<1> HIDE DEF t
<1>2. \A n \in DOMAIN t : n = Len(st) + 1 \/ n \in DOMAIN st
  BY <1>0, <1>1
<1>3. InBody(t) = InBody(st)
  BY <1>0, <1>1, <1>2 DEF InBody
<1>4. \A n \in InBody(st) : t[n] = st[n]
  BY <1>0, <1>1 DEF InBody
<1>5. cg = {t[n].ad : n \in InBody(t)} /\ \A n, m \in InBody(t) : n # m => t[n].ad # t[m].ad
  BY <1>3, <1>4 DEF CallsOK
<1>6. \A n \in DOMAIN t : KindOK(t[n]) /\ (t[n].op = "setValuePwd" => UsesPwd(u))
  BY <1>0, <1>1, <1>2 DEF CallsOK
<1>7. ASSUME NEW n \in DOMAIN t, n > 1
      PROVE  t[n].op # "destruct" /\ (t[n].op \in Writes => Writer(u, t[n - 1].ad))
  <2>1. n - 1 \in 1 .. Len(st) /\ t[n - 1] = st[n - 1]
    BY <1>0, <1>1, <1>7
  <2>2. CASE n = Len(st) + 1
    <3>1. n - 1 = Len(st) /\ t[n] = f /\ st # <<>>
      BY <1>0, <1>1, <1>7, <2>2
    <3> QED BY <2>1, <3>1
  <2>3. CASE n \in DOMAIN st
    BY <1>0, <1>1, <1>7, <2>1, <2>3 DEF CallsOK
  <2> QED BY <1>2, <2>2, <2>3
<1> QED BY <1>5, <1>6, <1>7 DEF CallsOK, t

(* ... so does one that returns, ... *)
LEMMA PopCalls ==
  ASSUME NEW st \in Seq(Frames), NEW cg, NEW u, CallsOK(st, cg, u), st # <<>>, st[Len(st)].at # "body"
  PROVE  CallsOK(Front(st), cg, u)
<1> DEFINE t == Front(st)
           m == Len(st) - 1
<1>0. Len(st) \in Nat \ {0} /\ DOMAIN st = 1 .. Len(st) /\ m \in Nat /\ m <= Len(st)
  OBVIOUS
<1>1. DOMAIN t = 1 .. m /\ \A n \in 1 .. m : t[n] = st[n]
  <2>1. t = SubSeq(st, 1, m)
    BY DEF Front
  <2> HIDE DEF t, m
  <2> QED BY <1>0, <2>1
<1> HIDE DEF t
<1>2. InBody(t) = InBody(st)
  BY <1>0, <1>1 DEF InBody
<1>3. \A n \in InBody(st) : t[n] = st[n]
  BY <1>1, <1>2 DEF InBody
<1>4. cg = {t[n].ad : n \in InBody(t)} /\ \A n, k \in InBody(t) : n # k => t[n].ad # t[k].ad
  BY <1>2, <1>3 DEF CallsOK
<1>5. \A n \in DOMAIN t : n \in DOMAIN st /\ t[n] = st[n] /\ (n > 1 => t[n - 1] = st[n - 1])
  BY <1>0, <1>1
<1> QED BY <1>4, <1>5 DEF CallsOK, t

(* ... and one that goes on, begins a callback or comes back from it. *)
LEMMA TopCalls ==
  ASSUME NEW st \in Seq(Frames), NEW cg, NEW c2, NEW u, CallsOK(st, cg, u), st # <<>>,
         NEW g \in Frames, KindOK(g), NEW f, f = st[Len(st)], g.op = f.op,
         \/ f.at # "body" /\ g.at # "body" /\ c2 = cg
         \/ f.at # "body" /\ g.at = "body" /\ g.ad \notin cg /\ c2 = cg \cup {g.ad}
         \/ f.at = "body" /\ g.at # "body" /\ c2 = cg \ {f.ad}
  PROVE  CallsOK(WithTop(st, g), c2, u)
<1> DEFINE t == [st EXCEPT ![Len(st)] = g]
           l == Len(st)
<1>0. l \in Nat \ {0} /\ DOMAIN st = 1 .. l /\ l \in DOMAIN st
  OBVIOUS
<1>1. /\ DOMAIN t = DOMAIN st /\ t[l] = g /\ \A n \in DOMAIN st : n # l => t[n] = st[n]
  BY <1>0
<1>2. WithTop(st, g) = t
  BY DEF WithTop
<1>3. f = st[l]
  OBVIOUS
<1> HIDE DEF t, l
<1>4. \A n \in DOMAIN t : KindOK(t[n]) /\ (t[n].op = "setValuePwd" => UsesPwd(u))
  BY <1>0, <1>1, <1>3 DEF CallsOK
<1>5. ASSUME NEW n \in DOMAIN t, n > 1
      PROVE  t[n].op # "destruct" /\ (t[n].op \in Writes => Writer(u, t[n - 1].ad))
  <2>1. n \in 1 .. l /\ n - 1 \in DOMAIN st /\ n - 1 # l
    BY <1>0, <1>1, <1>5
  <2>2. t[n - 1] = st[n - 1] /\ t[n].op = st[n].op
    BY <1>1, <1>3, <2>1
  <2> QED BY <1>1, <1>5, <2>2 DEF CallsOK
<1>6. \A n : n # l => (n \in InBody(t) <=> n \in InBody(st)) /\ (n \in InBody(st) => t[n] = st[n])
  BY <1>1 DEF InBody
<1>7. (l \in InBody(st) <=> f.at = "body") /\ (l \in InBody(t) <=> g.at = "body")
  BY <1>0, <1>1, <1>3 DEF InBody
<1>8. /\ cg = {st[n].ad : n \in InBody(st)}
      /\ \A n, m \in InBody(st) : n # m => st[n].ad # st[m].ad
  BY DEF CallsOK
<1>9. /\ \A a : a \in c2 <=> \E n \in InBody(t) : t[n].ad = a
      /\ \A n, m \in InBody(t) : n # m => t[n].ad # t[m].ad
  <2>1. CASE f.at # "body" /\ g.at # "body" /\ c2 = cg
    BY <1>6, <1>7, <1>8, <2>1
  <2>2. CASE f.at # "body" /\ g.at = "body" /\ g.ad \notin cg /\ c2 = cg \cup {g.ad}
    <3>1. \A n \in InBody(t) : n = l \/ (n # l /\ n \in InBody(st) /\ t[n] = st[n] /\ st[n].ad \in cg)
      BY <1>6, <1>8
    <3>2. \A n \in InBody(st) : n # l /\ n \in InBody(t) /\ t[n] = st[n]
      BY <1>6, <1>7, <2>2
    <3> QED BY <1>1, <1>7, <1>8, <2>2, <3>1, <3>2
  <2>3. CASE f.at = "body" /\ g.at # "body" /\ c2 = cg \ {f.ad}
    <3>1. \A n \in InBody(t) : n # l /\ n \in InBody(st) /\ t[n] = st[n] /\ st[n].ad # f.ad
      BY <1>3, <1>6, <1>7, <1>8, <2>3
    <3>2. \A n \in InBody(st) : n = l \/ (n \in InBody(t) /\ t[n] = st[n])
      BY <1>6
    <3> QED BY <1>3, <1>8, <2>3, <3>1, <3>2
  <2> QED BY <2>1, <2>2, <2>3
<1>10. c2 = {t[n].ad : n \in InBody(t)}
  BY <1>9
<1> QED BY <1>2, <1>4, <1>5, <1>9, <1>10 DEF CallsOK

CallsInv == CallsOK(stack, calling, use)

(* The functions that a user calls. *)
LEMMA PushCallsStep ==
  ASSUME IInv, CallsInv, UNCHANGED <<use, calling>>, NEW op \in Ops, UserRuns(op),
         NEW f \in Frames, f.at # "body", f.op = op, Push(f),
         \/ op \in Writes /\ f.reason = "reject_write"
         \/ op \in Reads \cup {"unregisterAll"} /\ f.reason = "pre_read"
         \/ op = "destruct" /\ f.reason = "destroy_param" /\ stack = <<>>
  PROVE  CallsInv'
<1>1. KindOK(f)
  BY DEF KindOK, ReadLists
<1>2. stack \in Seq(Frames)
  BY DEF IInv, StackOK
<1>3. stack # <<>> => Top.at = "body" /\ op \in use.body[Top.ad] /\ Top.ad \in use.adapters
  <2>1. stack # <<>> => Top.at = "body" /\ op \in use.body[Top.ad]
    BY DEF UserRuns
  <2> QED BY <2>1, TopFacts DEF FrameOK
<1>4. f.op = "setValuePwd" => UsesPwd(use)
  BY <1>3 DEF UserRuns, UsesPwd
<1>5. stack # <<>> => f.op # "destruct" /\ (f.op \in Writes => Writer(use, stack[Len(stack)].ad))
  BY <1>3 DEF Writes, Reads, Writer, Top
<1>6. CallsOK(Append(stack, f), calling, use)
  BY <1>1, <1>2, <1>4, <1>5, PushCalls DEF CallsInv
<1> QED BY <1>6 DEF CallsInv, Push

(* The frame of a call that begins. *)
LEMMA BeginsCall ==
  ASSUME NEW op \in Ops, NEW v \in Values \cup {None} \cup Range(Observer),
         NEW p \in Passwords \cup {NoPwd}, NEW r \in ListNames
  PROVE  /\ Call(op, v, p, r) \in Frames /\ Call(op, v, p, r).at = "enter"
         /\ Call(op, v, p, r).op = op /\ Call(op, v, p, r).reason = r /\ Call(op, v, p, r).pwd = p
  BY DEF Call, Frames, return_nothing

(* The code of the innermost call goes on. *)
LEMMA TopCallsStep ==
  ASSUME IInv, CallsInv, UNCHANGED use, stack # <<>>, NEW g \in Frames, SetTop(g), KindOK(g), g.op = Top.op,
         \/ Top.at # "body" /\ g.at # "body" /\ calling' = calling
         \/ Top.at # "body" /\ g.at = "body" /\ g.ad \notin calling /\ calling' = calling \cup {g.ad}
         \/ Top.at = "body" /\ g.at # "body" /\ calling' = calling \ {Top.ad}
  PROVE  CallsInv'
<1>1. stack \in Seq(Frames)
  BY DEF IInv, StackOK
<1>2. CallsOK(WithTop(stack, g), calling', use)
  BY <1>1, TopCalls DEF CallsInv, Top
<1> QED BY <1>2 DEF CallsInv, SetTop, WithTop

(* The innermost call returns. *)
LEMMA PopCallsStep ==
  ASSUME IInv, CallsInv, UNCHANGED <<use, calling>>, stack # <<>>, Top.at # "body", Pop
  PROVE  CallsInv'
<1>1. stack \in Seq(Frames)
  BY DEF IInv, StackOK
<1>2. CallsOK(Front(stack), calling, use)
  BY <1>1, PopCalls DEF CallsInv, Top
<1> QED BY <1>2 DEF CallsInv, Pop

(* The innermost call is of one of the kinds. *)
LEMMA TopKind ==
  ASSUME IInv, CallsInv, stack # <<>>
  PROVE  Top \in Frames /\ KindOK(Top)
<1>1. stack \in Seq(Frames)
  BY DEF IInv, StackOK
<1>2. Len(stack) \in DOMAIN stack
  BY <1>1
<1> QED BY <1>2, TopFacts DEF CallsInv, CallsOK, Top

(* The code between the callbacks keeps the calls in order. *)
LEMMA CodeCalls ==
  ASSUME IInv, CallsInv, UNCHANGED use, CodeStep
  PROVE  CallsInv'
<1> DEFINE L == lists[Top.reason]
<1>0. /\ return_nothing \in 0 .. 2 /\ "pre_write" \in ListNames /\ "post_write" \in ListNames
      /\ "post_read" \in ListNames
  BY Names DEF return_nothing
<1>1. CASE UnregisterPass
  <2>1. stack # <<>> /\ Top.at = "pass" /\ UNCHANGED calling /\ (Pop \/ UNCHANGED stack)
    BY <1>1 DEF UnregisterPass, CodeRuns
  <2>2. Top.at # "body"
    BY <2>1
  <2>3. UNCHANGED stack => CallsInv'
    BY <2>1 DEF CallsInv
  <2> QED BY <2>1, <2>2, <2>3, PopCallsStep
<1>2. CASE EnterHelper
  <2> DEFINE g == [Top EXCEPT !.at = "after", !.ret = return_nothing]
             h == [Top EXCEPT !.at = "loop", !.i = 1, !.ret = return_nothing,
                              !.due = Enabled(Top.reason), !.seen = <<>>]
  <2>1. stack # <<>> /\ Top.at = "enter" /\ UNCHANGED calling /\ (SetTop(g) \/ SetTop(h))
    BY <1>2 DEF EnterHelper, CodeRuns
  <2>2. Top \in Frames /\ KindOK(Top) /\ Top.at # "body"
    BY <2>1, TopKind
  <2>3. Enabled(Top.reason) \in SUBSET Adapters /\ <<>> \in Seq(Adapters) /\ 1 \in Nat \ {0}
    BY DEF Enabled
  <2>4. /\ g \in Frames /\ g.op = Top.op /\ g.reason = Top.reason /\ g.at # "body"
        /\ h \in Frames /\ h.op = Top.op /\ h.reason = Top.reason /\ h.at # "body"
    BY <1>0, <2>2, <2>3 DEF Frames
  <2> HIDE DEF g, h
  <2>5. KindOK(g) /\ KindOK(h)
    BY <2>2, <2>4 DEF KindOK
  <2> QED BY <2>1, <2>2, <2>4, <2>5, TopCallsStep
<1>3. CASE CallBack
  <2> DEFINE g == [Top EXCEPT !.at = "body", !.ad = Entry.ad, !.seen = Append(@, Entry.ad)]
  <2>1. stack # <<>> /\ Top.at = "loop" /\ CodeRuns("loop") /\ Top.i <= Len(L) /\ SetTop(g)
        /\ Entry.ad \notin calling /\ calling' = calling \cup {Entry.ad}
    BY <1>3 DEF CallBack, CodeRuns
  <2>2. Top \in Frames /\ KindOK(Top) /\ Top.at # "body"
    BY <2>1, TopKind
  <2>3. Entry.ad \in Adapters /\ Top.seen \in Seq(Adapters)
    BY <2>1, <2>2, EntryFacts DEF Entries, Frames
  <2>4. Append(Top.seen, Entry.ad) \in Seq(Adapters)
    BY <2>3
  <2>5. g \in Frames /\ g.op = Top.op /\ g.reason = Top.reason /\ g.at = "body" /\ g.ad = Entry.ad
    BY <2>2, <2>3, <2>4 DEF Frames
  <2> HIDE DEF g
  <2>6. KindOK(g)
    BY <2>2, <2>5 DEF KindOK
  <2> QED BY <2>1, <2>2, <2>5, <2>6, TopCallsStep
<1>4. CASE PassOver
  <2> DEFINE x == IF Entry.on THEN Append(Top.seen, Entry.ad) ELSE Top.seen
             g == [Top EXCEPT !.i = @ + 1, !.seen = x]
  <2>1. stack # <<>> /\ Top.at = "loop" /\ CodeRuns("loop") /\ Top.i <= Len(L) /\ SetTop(g)
        /\ UNCHANGED calling
    BY <1>4 DEF PassOver, CodeRuns, callVars
  <2>2. Top \in Frames /\ KindOK(Top) /\ Top.at # "body"
    BY <2>1, TopKind
  <2>3. Entry.ad \in Adapters /\ Top.seen \in Seq(Adapters) /\ Top.i \in Nat \ {0}
    BY <2>1, <2>2, EntryFacts DEF Entries, Frames
  <2>4. x \in Seq(Adapters) /\ Top.i + 1 \in Nat \ {0}
    BY <2>3
  <2> HIDE DEF x
  <2>5. g \in Frames /\ g.op = Top.op /\ g.reason = Top.reason /\ g.at # "body"
    BY <2>1, <2>2, <2>4 DEF Frames
  <2> HIDE DEF g
  <2>6. KindOK(g)
    BY <2>2, <2>5 DEF KindOK
  <2> QED BY <2>1, <2>2, <2>5, <2>6, TopCallsStep
<1>5. CASE LeaveHelper
  <2> DEFINE g == [Top EXCEPT !.at = "after"]
  <2>1. stack # <<>> /\ Top.at = "loop" /\ SetTop(g) /\ UNCHANGED calling
    BY <1>5 DEF LeaveHelper, CodeRuns
  <2>2. Top \in Frames /\ KindOK(Top) /\ Top.at # "body"
    BY <2>1, TopKind
  <2>3. g \in Frames /\ g.op = Top.op /\ g.reason = Top.reason /\ g.at # "body"
    BY <2>2 DEF Frames
  <2> HIDE DEF g
  <2>4. KindOK(g)
    BY <2>2, <2>3 DEF KindOK
  <2> QED BY <2>1, <2>2, <2>3, <2>4, TopCallsStep
<1>6. CASE AfterReject \/ AfterPreWrite \/ AfterPostWrite \/ AfterRead \/ AfterDestroy
  <2>1. stack # <<>> /\ Top.at = "after" /\ UNCHANGED calling
    BY <1>6 DEF AfterReject, AfterPreWrite, AfterPostWrite, AfterRead, AfterDestroy, CodeRuns, callVars
  <2>2. Top \in Frames /\ KindOK(Top) /\ Top.at # "body"
    BY <2>1, TopKind
  <2>3. \/ Pop
        \/ Top.reason = "reject_write" /\ GoesOnTo("pre_write")
        \/ Top.reason = "pre_write" /\ GoesOnTo("post_write")
        \/ Top.reason \in ReadLists /\ GoesOnTo("post_read")
    BY <1>6 DEF AfterReject, AfterPreWrite, AfterPostWrite, AfterRead, AfterDestroy, Commit, ReadLists
  <2>4. Pop => CallsInv'
    BY <2>1, <2>2, PopCallsStep
  <2>5. ASSUME NEW r \in ListNames, GoesOnTo(r),
               \/ Top.reason \in {"reject_write", "pre_write"} /\ r \in {"pre_write", "post_write"}
               \/ Top.reason \in ReadLists /\ r = "post_read"
        PROVE  CallsInv'
    <3> DEFINE g == [Top EXCEPT !.at = "enter", !.reason = r]
    <3>1. SetTop(g)
      BY <2>5 DEF GoesOnTo
    <3>2. g \in Frames /\ g.op = Top.op /\ g.reason = r /\ g.at # "body"
      BY <2>2 DEF Frames
    <3> HIDE DEF g
    <3>3. KindOK(g)
      BY <2>2, <2>5, <3>2 DEF KindOK, ReadLists
    <3> QED BY <2>1, <2>2, <3>1, <3>2, <3>3, TopCallsStep
  <2> QED BY <1>0, <2>3, <2>4, <2>5
<1>7. ASSUME NEW r \in 0 .. 2, CallbackReturns(r) PROVE CallsInv'
  <2> DEFINE ref == Top.refused \/ (Top.reason = "reject_write" /\ r = 1)
             g == [Top EXCEPT !.at = "loop", !.ad = None, !.i = Top.i + 1, !.ret = Higher(Top.ret, r),
                              !.refused = ref]
  <2>1. stack # <<>> /\ Top.at = "body" /\ calling' = calling \ {Top.ad}
    BY <1>7 DEF CallbackReturns, CodeRuns
  <2>2. SetTop(g)
    BY <1>7 DEF CallbackReturns, return_value_change_rejected
  <2>3. Top \in Frames /\ KindOK(Top)
    BY <2>1, TopKind
  <2>4. Top.i + 1 \in Nat \ {0} /\ Top.ret \in 0 .. 2 /\ Top.refused \in BOOLEAN
    BY <2>3 DEF Frames
  <2>5. Higher(Top.ret, r) \in 0 .. 2 /\ ref \in BOOLEAN
    BY <2>4 DEF Higher
  <2> HIDE DEF ref
  <2>6. g \in Frames /\ g.op = Top.op /\ g.reason = Top.reason /\ g.at # "body"
    BY <2>3, <2>4, <2>5 DEF Frames
  <2> HIDE DEF g
  <2>7. KindOK(g)
    BY <2>3, <2>6 DEF KindOK
  <2> QED BY <2>1, <2>2, <2>6, <2>7, TopCallsStep
<1> QED BY <1>1, <1>2, <1>3, <1>4, <1>5, <1>6, <1>7 DEF CodeStep

(* So does what users do. *)
LEMMA UserCalls ==
  ASSUME IInv, CallsInv, UNCHANGED use, UserStep
  PROVE  CallsInv'
<1>0. /\ "reject_write" \in ListNames /\ "pre_read" \in ListNames /\ "destroy_param" \in ListNames
      /\ "setValuePwd" \in Ops /\ "unregisterAll" \in Ops /\ "destruct" \in Ops
      /\ {"setValue", "setString", "setValuePwd"} = Writes
  BY Names DEF Ops, Writes, Reads
<1>2. ASSUME NEW op \in Ops, NEW v \in Values, Write(op, v) PROVE CallsInv'
  <2> DEFINE f == Call(op, v, NoPwd, "reject_write")
  <2>1. f \in Frames /\ f.at = "enter" /\ f.op = op /\ f.reason = "reject_write"
    BY <1>0, BeginsCall
  <2>2. Push(f) /\ UserRuns(op) /\ UNCHANGED calling /\ op \in Writes
    BY <1>0, <1>2 DEF Write, callVars
  <2> HIDE DEF f
  <2> QED BY <2>1, <2>2, PushCallsStep
<1>3. ASSUME NEW v \in Values, NEW p \in Passwords \cup {NoPwd}, WriteWithPwd(v, p) PROVE CallsInv'
  <2> DEFINE f == Call("setValuePwd", v, p, "reject_write")
  <2>1. f \in Frames /\ f.at = "enter" /\ f.op = "setValuePwd" /\ f.reason = "reject_write"
    BY <1>0, BeginsCall
  <2>2. Push(f) /\ UserRuns("setValuePwd") /\ UNCHANGED calling /\ "setValuePwd" \in Writes
    BY <1>0, <1>3 DEF WriteWithPwd, callVars
  <2> HIDE DEF f
  <2> QED BY <1>0, <2>1, <2>2, PushCallsStep
<1>4. ASSUME NEW op \in Ops, Read(op) PROVE CallsInv'
  <2> DEFINE f == Call(op, None, NoPwd, "pre_read")
  <2>1. f \in Frames /\ f.at = "enter" /\ f.op = op /\ f.reason = "pre_read"
    BY <1>0, BeginsCall
  <2>2. Push(f) /\ UserRuns(op) /\ UNCHANGED calling /\ op \in Reads
    BY <1>4 DEF Read, callVars
  <2> HIDE DEF f
  <2> QED BY <2>1, <2>2, PushCallsStep
<1>5. ASSUME NEW o \in Range(Observer), UnregisterAll(o) PROVE CallsInv'
  <2> DEFINE c == Call("unregisterAll", o, NoPwd, "pre_read")
             f == [c EXCEPT !.at = "pass"]
  <2>0. c \in Frames /\ c.op = "unregisterAll" /\ c.reason = "pre_read"
    BY <1>0, BeginsCall
  <2>1. f \in Frames /\ f.at = "pass" /\ f.op = "unregisterAll" /\ f.reason = "pre_read"
    <3> HIDE DEF c
    <3> QED BY <2>0 DEF Frames
  <2>2. Push(f) /\ UserRuns("unregisterAll") /\ UNCHANGED calling
    BY <1>5 DEF UnregisterAll, callVars
  <2> HIDE DEF f
  <2> QED BY <1>0, <2>1, <2>2, PushCallsStep
<1>6. CASE Destruct
  <2> DEFINE f == Call("destruct", None, NoPwd, "destroy_param")
  <2>1. f \in Frames /\ f.at = "enter" /\ f.op = "destruct" /\ f.reason = "destroy_param"
    BY <1>0, BeginsCall
  <2>2. Push(f) /\ UserRuns("destruct") /\ UNCHANGED calling /\ stack = <<>>
    BY <1>6 DEF Destruct, callVars
  <2> HIDE DEF f
  <2> QED BY <1>0, <2>1, <2>2, PushCallsStep
<1>7. ASSUME NEW p, Lock(p) \/ Unlock(p) PROVE CallsInv'
  BY <1>7 DEF Lock, Unlock, CallsInv, callVars
<1>8. ASSUME NEW a \in Adapters, Register(a) \/ Unregister(a) PROVE CallsInv'
  BY <1>8 DEF Register, Unregister, CallsInv, callVars
<1> QED BY <1>2, <1>3, <1>4, <1>5, <1>6, <1>7, <1>8 DEF UserStep

(* The calls in progress stay in order. *)
LEMMA CallsKeep ==
  IInv /\ CallsInv /\ [Next]_vars => CallsInv'
<1>1. ASSUME CallsInv, UNCHANGED vars PROVE CallsInv'
  BY <1>1 DEF CallsInv, vars
<1> QED BY <1>1, CodeCalls, UserCalls DEF Next

-----------------------------------------------------------------------------
(* A call that calls the callback of a back, in the rest of its loop over the *)
(* post_write list s.                                                         *)
Ahead(f, a, s) ==
  \/ f.at = "enter"
  \/ f.at = "loop" /\ \E k \in DOMAIN s : s[k].ad = a /\ k >= f.i
  \/ f.at = "body" /\ \E k \in DOMAIN s : s[k].ad = a /\ k > f.i
WillTell(st, s, a, n) ==
  st[n].reason = "post_write" /\ Ahead(st[n], a, s) /\ \A m \in 1 .. n - 1 : st[m].ad # a

(* An observer that does not know the value will be called back. *)
ToldOK(st, s, ms, kn, v) ==
  \A a \in Adapters : <<"post_write", a>> \in ms /\ kn[a] # v =>
    \E n \in DOMAIN st : WillTell(st, s, a, n)
ToldInv ==
  /\ DOMAIN known = use.adapters
  /\ Clean(use) /\ OneWriter(use) => ToldOK(stack, lists["post_write"], members, known, value)
-----------------------------------------------------------------------------
(* A step that leaves an observer without the value leaves the call that will *)
(* tell it.                                                                   *)
LEMMA ToldStep ==
  ASSUME ToldInv, UNCHANGED <<use, value>>, DOMAIN known' = DOMAIN known,
         ASSUME NEW a \in Adapters, Clean(use), OneWriter(use),
                <<"post_write", a>> \in members', known'[a] # value
         PROVE  /\ <<"post_write", a>> \in members /\ known[a] # value
                /\ \A n \in DOMAIN stack : WillTell(stack, lists["post_write"], a, n) =>
                     \E m \in DOMAIN stack' : WillTell(stack', lists'["post_write"], a, m)
  PROVE  ToldInv'
<1> SUFFICES ASSUME Clean(use), OneWriter(use), NEW a \in Adapters,
                    <<"post_write", a>> \in members', known'[a] # value
             PROVE  \E m \in DOMAIN stack' : WillTell(stack', lists'["post_write"], a, m)
  BY DEF ToldInv, ToldOK
<1>1. /\ <<"post_write", a>> \in members /\ known[a] # value
      /\ \A n \in DOMAIN stack : WillTell(stack, lists["post_write"], a, n) =>
           \E m \in DOMAIN stack' : WillTell(stack', lists'["post_write"], a, m)
  OBVIOUS
<1>2. PICK n \in DOMAIN stack : WillTell(stack, lists["post_write"], a, n)
  BY <1>1 DEF ToldInv, ToldOK
<1> QED BY <1>1, <1>2

(* Another call begins. *)
LEMMA PushTold ==
  ASSUME IInv, ToldInv, UNCHANGED <<use, value, lists, members, known>>, NEW f, Push(f)
  PROVE  ToldInv'
<1>1. stack \in Seq(Frames) /\ Len(stack) \in Nat
  BY DEF IInv, StackOK
<1>2. /\ DOMAIN stack' = 1 .. Len(stack) + 1 /\ DOMAIN stack = 1 .. Len(stack)
      /\ \A n \in 1 .. Len(stack) : stack'[n] = stack[n]
  BY <1>1 DEF Push
<1>3. ASSUME NEW a, NEW s, NEW n \in DOMAIN stack, WillTell(stack, s, a, n)
      PROVE  n \in DOMAIN stack' /\ WillTell(stack', s, a, n)
  <2>1. n \in 1 .. Len(stack) /\ \A m \in 1 .. n - 1 : m \in 1 .. Len(stack)
    BY <1>1, <1>2
  <2> QED BY <1>1, <1>2, <1>3, <2>1 DEF WillTell
<1> QED BY <1>3, ToldStep

(* The innermost call returns: it had told all. *)
LEMMA PopTold ==
  ASSUME IInv, ToldInv, UNCHANGED <<use, value, lists, members, known>>, stack # <<>>,
         Top.at \in {"after", "pass"}, Pop
  PROVE  ToldInv'
<1> DEFINE l == Len(stack) - 1
<1>1. stack \in Seq(Frames) /\ Len(stack) \in Nat \ {0}
  BY DEF IInv, StackOK
<1>2. /\ DOMAIN stack' = 1 .. l /\ DOMAIN stack = 1 .. Len(stack)
      /\ \A n \in 1 .. l : stack'[n] = stack[n]
  <2>1. stack' = SubSeq(stack, 1, l) /\ l \in Nat /\ l <= Len(stack)
    BY <1>1 DEF Pop, Front
  <2> HIDE DEF l
  <2> QED BY <1>1, <2>1
<1>3. ASSUME NEW a, NEW s, NEW n \in DOMAIN stack, WillTell(stack, s, a, n)
      PROVE  n \in DOMAIN stack' /\ WillTell(stack', s, a, n)
  <2>1. n # Len(stack)
    BY <1>3 DEF WillTell, Ahead, Top
  <2>2. n \in 1 .. l /\ \A m \in 1 .. n - 1 : m \in 1 .. l
    BY <1>1, <1>2, <2>1
  <2> QED BY <1>2, <1>3, <2>2 DEF WillTell
<1> QED BY <1>3, ToldStep

(* The innermost call goes on: it will tell those that it told not yet. *)
LEMMA TopTold ==
  ASSUME IInv, ToldInv, UNCHANGED <<use, value, lists, members>>, DOMAIN known' = DOMAIN known,
         stack # <<>>, NEW g \in Frames, SetTop(g),
         ASSUME NEW a \in Adapters, Clean(use), OneWriter(use),
                <<"post_write", a>> \in members, known'[a] # value
         PROVE  /\ known[a] # value
                /\ /\ Top.reason = "post_write" /\ Ahead(Top, a, lists["post_write"])
                   /\ \A m \in 1 .. Len(stack) - 1 : stack[m].ad # a
                   => g.reason = "post_write" /\ Ahead(g, a, lists["post_write"])
  PROVE  ToldInv'
<1> DEFINE l == Len(stack)
           s == lists["post_write"]
           f == Top
<1>1. stack \in Seq(Frames) /\ l \in Nat \ {0} /\ DOMAIN stack = 1 .. l /\ f = stack[l]
  BY DEF IInv, StackOK, Top
<1>2. /\ DOMAIN stack' = DOMAIN stack /\ stack'[l] = g
      /\ \A n \in 1 .. l : n # l => stack'[n] = stack[n]
  <2>1. stack' = [stack EXCEPT ![l] = g]
    BY DEF SetTop
  <2> HIDE DEF l, f
  <2> QED BY <1>1, <2>1
<1>3. ASSUME NEW a \in Adapters, Clean(use), OneWriter(use),
             <<"post_write", a>> \in members, known'[a] # value
      PROVE  /\ known[a] # value
             /\ /\ f.reason = "post_write" /\ Ahead(f, a, s)
                /\ \A m \in 1 .. l - 1 : stack[m].ad # a
                => g.reason = "post_write" /\ Ahead(g, a, s)
  BY <1>3
<1> HIDE DEF l, s, f
<1>4. ASSUME NEW a \in Adapters, Clean(use), OneWriter(use),
             <<"post_write", a>> \in members, known'[a] # value, NEW n \in DOMAIN stack,
             WillTell(stack, s, a, n)
      PROVE  n \in DOMAIN stack' /\ WillTell(stack', s, a, n)
  <2>1. n \in 1 .. l /\ \A m \in 1 .. n - 1 : m \in 1 .. l /\ m # l
    BY <1>1
  <2>2. stack[n].reason = "post_write" /\ Ahead(stack[n], a, s) /\ \A m \in 1 .. n - 1 : stack[m].ad # a
    BY <1>4 DEF WillTell
  <2>3. \A m \in 1 .. n - 1 : stack'[m].ad # a
    BY <1>2, <2>1, <2>2
  <2>4. stack'[n].reason = "post_write" /\ Ahead(stack'[n], a, s)
    <3>1. CASE n # l
      BY <1>2, <2>1, <2>2, <3>1
    <3>2. CASE n = l
      <4>1. g.reason = "post_write" /\ Ahead(g, a, s)
        BY <1>1, <1>3, <1>4, <2>2, <3>2
      <4> QED BY <1>2, <3>2, <4>1
    <3> QED BY <3>1, <3>2
  <2> QED BY <1>2, <2>3, <2>4 DEF WillTell
<1>5. s = lists["post_write"] /\ s = lists'["post_write"]
  BY DEF s
<1>6. ASSUME NEW a \in Adapters, Clean(use), OneWriter(use),
             <<"post_write", a>> \in members', known'[a] # value
      PROVE  /\ <<"post_write", a>> \in members /\ known[a] # value
             /\ \A n \in DOMAIN stack : WillTell(stack, lists["post_write"], a, n) =>
                  \E m \in DOMAIN stack' : WillTell(stack', lists'["post_write"], a, m)
  BY <1>3, <1>4, <1>5, <1>6
<1> QED BY <1>6, ToldStep

(* When no call is about to tell anyone, everyone knows the value, and still  *)
(* does when fewer are to be told.                                            *)
LEMMA FewerTold ==
  ASSUME ToldInv, UNCHANGED <<use, value, known>>,
         Clean(use) => /\ members' \in SUBSET members
                       /\ \A n \in DOMAIN stack : ~(stack[n].at \in {"enter", "loop", "body"})
  PROVE  ToldInv'
<1>1. Clean(use) => \A n \in DOMAIN stack : \A a, s : ~WillTell(stack, s, a, n)
  BY DEF WillTell, Ahead
<1> QED BY <1>1, ToldStep

(* A registered post_write callback has its entry. *)
LEMMA HasEntry ==
  ASSUME IInv, Clean(use), NEW a, <<"post_write", a>> \in members
  PROVE  \E k \in DOMAIN lists["post_write"] : lists["post_write"][k].ad = a
<1>1. IsEntry(Live(<<"post_write", a>>[2]), lists[<<"post_write", a>>[1]])
  BY DEF IInv, ListsOK
<1>2. IsEntry(Live(a), lists["post_write"])
  BY <1>1
<1> QED BY <1>2 DEF IsEntry, Live

(* The helper is entered, and will call back all of its list, ... *)
LEMMA EnterTold ==
  ASSUME IInv, ToldInv, UNCHANGED use, EnterHelper
  PROVE  ToldInv'
<1> DEFINE L == lists["post_write"]
           g == [Top EXCEPT !.at = "after", !.ret = return_nothing]
           h == [Top EXCEPT !.at = "loop", !.i = 1, !.ret = return_nothing,
                            !.due = Enabled(Top.reason), !.seen = <<>>]
<1>1. stack # <<>> /\ Top.at = "enter" /\ UNCHANGED <<lists, value, members, known>>
  BY DEF EnterHelper, CodeRuns, histVars
<1>2. Top \in Frames /\ return_nothing \in 0 .. 2
  BY <1>1, TopFacts DEF return_nothing
<1>3. CASE lists[Top.reason] = <<>>
  <2>1. SetTop(g)
    BY <1>3 DEF EnterHelper
  <2>2. g \in Frames
    BY <1>2 DEF Frames
  <2>3. ASSUME NEW a \in Adapters, Clean(use), <<"post_write", a>> \in members PROVE Top.reason # "post_write"
    BY <1>3, <2>3, HasEntry
  <2> HIDE DEF g
  <2> QED BY <1>1, <2>1, <2>2, <2>3, TopTold
<1>4. CASE lists[Top.reason] # <<>>
  <2>1. SetTop(h)
    BY <1>4 DEF EnterHelper
  <2>2. Enabled(Top.reason) \in SUBSET Adapters /\ <<>> \in Seq(Adapters) /\ 1 \in Nat \ {0}
    BY DEF Enabled
  <2>3. h \in Frames /\ h.at = "loop" /\ h.i = 1 /\ h.reason = Top.reason
    BY <1>2, <2>2 DEF Frames
  <2> HIDE DEF h
  <2>4. DOMAIN L \in SUBSET (Nat \ {0})
    <3>1. L \in Seq(Entries)
      BY Names DEF IInv, ListsOK
    <3> QED BY <3>1
  <2>5. ASSUME NEW a \in Adapters, Clean(use), <<"post_write", a>> \in members PROVE Ahead(h, a, L)
    <3>1. PICK k \in DOMAIN L : L[k].ad = a
      BY <2>5, HasEntry
    <3>2. k >= h.i
      BY <2>3, <2>4
    <3> HIDE DEF L
    <3> QED BY <2>3, <3>1, <3>2 DEF Ahead
  <2> QED BY <1>1, <2>1, <2>3, <2>5, TopTold
<1> QED BY <1>3, <1>4

(* ... it calls back one, who knows the value now, ... *)
LEMMA CallBackTold ==
  ASSUME IInv, ToldInv, UNCHANGED use, CallBack
  PROVE  ToldInv'
<1> DEFINE L == lists["post_write"]
           e == Entry.ad
           g == [Top EXCEPT !.at = "body", !.ad = e, !.seen = Append(@, e)]
<1>1. stack # <<>> /\ Top.at = "loop" /\ CodeRuns("loop") /\ Top.i <= Len(lists[Top.reason])
      /\ SetTop(g) /\ UNCHANGED <<lists, value, members>> /\ known' = [known EXCEPT ![e] = value]
  BY DEF CallBack, CodeRuns
<1>2. /\ Top \in Frames /\ Top.i \in Nat /\ e \in Adapters /\ e \in use.adapters /\ Top.seen \in Seq(Adapters)
      /\ Top.reason = "post_write" => L[Top.i].ad = e
  BY <1>1, TopFacts, EntryFacts DEF Entries, Frames, Entry
<1>3. Append(Top.seen, e) \in Seq(Adapters)
  BY <1>2
<1>4. g \in Frames /\ g.at = "body" /\ g.i = Top.i /\ g.reason = Top.reason
  BY <1>2, <1>3 DEF Frames
<1> HIDE DEF g, e
<1>5. /\ DOMAIN known' = DOMAIN known /\ known'[e] = value
      /\ \A a : a # e => known'[a] = known[a]
  BY <1>1, <1>2 DEF ToldInv
<1>6. DOMAIN L \in SUBSET Nat
  <2>1. L \in Seq(Entries)
    BY Names DEF IInv, ListsOK
  <2> QED BY <2>1
<1> HIDE DEF L
<1>7. ASSUME NEW a, a # e, Top.reason = "post_write", Ahead(Top, a, L)
      PROVE  Ahead(g, a, L)
  <2>1. PICK k \in DOMAIN L : L[k].ad = a /\ k >= Top.i
    BY <1>1, <1>7 DEF Ahead
  <2>2. k # Top.i
    BY <1>2, <1>7, <2>1
  <2>3. k > g.i
    BY <1>2, <1>4, <1>6, <2>1, <2>2
  <2> QED BY <1>4, <2>1, <2>3 DEF Ahead
<1> QED BY <1>1, <1>4, <1>5, <1>7, TopTold DEF L

(* ... passes over one whose callback runs already, ... *)
LEMMA PassOverTold ==
  ASSUME IInv, CallsInv, ToldInv, UNCHANGED use, PassOver
  PROVE  ToldInv'
<1> DEFINE L == lists["post_write"]
           x == IF Entry.on THEN Append(Top.seen, Entry.ad) ELSE Top.seen
           g == [Top EXCEPT !.i = Top.i + 1, !.seen = x]
<1>1. stack # <<>> /\ Top.at = "loop" /\ CodeRuns("loop") /\ Top.i <= Len(lists[Top.reason])
      /\ SetTop(g) /\ UNCHANGED <<lists, value, members, known>>
      /\ (~Entry.on \/ Entry.ad \in calling)
  BY DEF PassOver, CodeRuns, histVars
<1>2. /\ Top \in Frames /\ Top.i \in Nat \ {0} /\ Entry.ad \in Adapters /\ Top.seen \in Seq(Adapters)
      /\ Top.reason = "post_write" => L[Top.i].ad = Entry.ad
      /\ Clean(use) => Entry.on
  BY <1>1, TopFacts, EntryFacts DEF Entries, Frames, Entry
<1>3. x \in Seq(Adapters) /\ Top.i + 1 \in Nat \ {0}
  BY <1>2
<1> HIDE DEF x
<1>4. g \in Frames /\ g.at = "loop" /\ g.i = Top.i + 1 /\ g.reason = Top.reason
  BY <1>1, <1>2, <1>3 DEF Frames
<1> HIDE DEF g
<1>5. DOMAIN L \in SUBSET Nat
  <2>1. L \in Seq(Entries)
    BY Names DEF IInv, ListsOK
  <2> QED BY <2>1
<1>6. ASSUME Clean(use) PROVE \E m \in 1 .. Len(stack) - 1 : stack[m].ad = Entry.ad
  <2>1. PICK m \in DOMAIN stack : stack[m].at = "body" /\ stack[m].ad = Entry.ad
    BY <1>1, <1>2, <1>6 DEF CallsInv, CallsOK, InBody
  <2>2. stack \in Seq(Frames) /\ Len(stack) \in Nat /\ m # Len(stack)
    BY <1>1, <2>1 DEF Top, IInv, StackOK
  <2>3. m \in 1 .. Len(stack) - 1
    BY <2>1, <2>2
  <2> QED BY <2>1, <2>3
<1> HIDE DEF L
<1>7. ASSUME NEW a, Clean(use), Top.reason = "post_write", Ahead(Top, a, L),
             \A m \in 1 .. Len(stack) - 1 : stack[m].ad # a
      PROVE  Ahead(g, a, L)
  <2>1. PICK k \in DOMAIN L : L[k].ad = a /\ k >= Top.i
    BY <1>1, <1>7 DEF Ahead
  <2>2. k # Top.i
    BY <1>2, <1>6, <1>7, <2>1
  <2>3. k >= g.i
    BY <1>2, <1>4, <1>5, <2>1, <2>2
  <2> QED BY <1>4, <2>1, <2>3 DEF Ahead
<1> QED BY <1>1, <1>4, <1>7, TopTold DEF L

(* ... and goes on behind a callback that returns. *)
LEMMA ReturnTold ==
  ASSUME IInv, ToldInv, UNCHANGED use, NEW r \in 0 .. 2, CallbackReturns(r)
  PROVE  ToldInv'
<1> DEFINE L == lists["post_write"]
           ref == Top.refused \/ (Top.reason = "reject_write" /\ r = 1)
           g == [Top EXCEPT !.at = "loop", !.ad = None, !.i = Top.i + 1, !.ret = Higher(Top.ret, r),
                            !.refused = ref]
<1>1. stack # <<>> /\ Top.at = "body" /\ UNCHANGED <<lists, value, members, known>>
  BY DEF CallbackReturns, CodeRuns, histVars
<1>2. SetTop(g)
  BY DEF CallbackReturns, return_value_change_rejected
<1>3. Top \in Frames /\ Top.i \in Nat \ {0} /\ Top.ret \in 0 .. 2 /\ Top.refused \in BOOLEAN
  BY <1>1, TopFacts DEF Frames
<1>4. Higher(Top.ret, r) \in 0 .. 2 /\ ref \in BOOLEAN /\ Top.i + 1 \in Nat \ {0}
  BY <1>3 DEF Higher
<1> HIDE DEF ref
<1>5. g \in Frames /\ g.at = "loop" /\ g.i = Top.i + 1 /\ g.reason = Top.reason
  BY <1>3, <1>4 DEF Frames
<1> HIDE DEF g
<1>6. DOMAIN L \in SUBSET Nat
  <2>1. L \in Seq(Entries)
    BY Names DEF IInv, ListsOK
  <2> QED BY <2>1
<1> HIDE DEF L
<1>7. ASSUME NEW a, Ahead(Top, a, L)
      PROVE  Ahead(g, a, L)
  <2>1. PICK k \in DOMAIN L : L[k].ad = a /\ k > Top.i
    BY <1>1, <1>7 DEF Ahead
  <2>2. k >= g.i
    BY <1>3, <1>5, <1>6, <2>1
  <2> QED BY <1>5, <2>1, <2>2 DEF Ahead
<1> QED BY <1>1, <1>2, <1>5, <1>7, TopTold DEF L

(* At its end there is nobody left. *)
LEMMA LeaveTold ==
  ASSUME IInv, ToldInv, UNCHANGED use, LeaveHelper
  PROVE  ToldInv'
<1> DEFINE L == lists["post_write"]
           g == [Top EXCEPT !.at = "after"]
<1>1. stack # <<>> /\ Top.at = "loop" /\ CodeRuns("loop") /\ Top.i > Len(lists[Top.reason]) /\ SetTop(g)
      /\ UNCHANGED <<value, members, known>>
  BY DEF LeaveHelper, CodeRuns, histVars
<1>2. CASE ~Clean(use)
  BY <1>1, <1>2 DEF ToldInv
<1>3. CASE Clean(use)
  <2>1. UNCHANGED lists
    BY <1>3 DEF LeaveHelper, IInv, ListsOK
  <2>2. g \in Frames
    BY <1>1, LoopEnds
  <2>3. Top.i \in Nat
    BY <1>1, TopFacts DEF Frames
  <2>4. Len(L) \in Nat /\ DOMAIN L = 1 .. Len(L)
    <3>1. L \in Seq(Entries)
      BY Names DEF IInv, ListsOK
    <3> QED BY <3>1
  <2> HIDE DEF g
  <2>5. ASSUME NEW a, Top.reason = "post_write", Ahead(Top, a, L) PROVE FALSE
    <3>1. PICK k \in DOMAIN L : L[k].ad = a /\ k >= Top.i
      BY <1>1, <2>5 DEF Ahead
    <3>2. Top.i > Len(L)
      BY <1>1, <2>5
    <3> HIDE DEF L
    <3> QED BY <2>3, <2>4, <3>1, <3>2
  <2> QED BY <1>1, <2>1, <2>2, <2>5, TopTold
<1> QED BY <1>2, <1>3

(* With one callback that writes, a call that writes is the outermost one, or *)
(* comes from that callback in the outermost one.                             *)
LEMMA WriteAt ==
  ASSUME IInv, CallsInv, OneWriter(use), NEW n \in DOMAIN stack, stack[n].op \in Writes
  PROVE  n = 1 \/ n = 2
<1> SUFFICES ASSUME n # 1, n # 2 PROVE FALSE
  OBVIOUS
<1>1. stack \in Seq(Frames) /\ Len(stack) \in Nat /\ DOMAIN stack = 1 .. Len(stack)
  BY DEF IInv, StackOK
<1> DEFINE m == n - 1
           k == n - 2
           w == stack[m].ad
<1>2. /\ n > 1 /\ m \in DOMAIN stack /\ m > 1 /\ m < Len(stack) /\ k \in DOMAIN stack /\ k < Len(stack)
      /\ m # k /\ k = m - 1
  BY <1>1
<1>3. m \in InBody(stack) /\ k \in InBody(stack)
  BY <1>1, <1>2 DEF IInv, StackOK, InBody
<1>4. stack[m].ad # stack[k].ad
  BY <1>2, <1>3 DEF CallsInv, CallsOK
<1>5. Writer(use, w)
  BY <1>2 DEF CallsInv, CallsOK
<1>6. FrameOK(stack[m], lists, members, use) /\ FrameOK(stack[k], lists, members, use)
  BY <1>1, <1>2 DEF IInv, StackOK
<1>7. w \in use.adapters /\ stack[k].ad \in use.adapters /\ stack[m].reason \in ListsOf(w)
  BY <1>3, <1>6 DEF FrameOK, InBody
<1>8. stack[m].reason \notin ReadLists
  BY <1>5, <1>7 DEF OneWriter
<1>9. KindOK(stack[m]) /\ stack[m].op # "destruct"
  BY <1>2 DEF CallsInv, CallsOK
<1>10. stack[m].op \in Writes
  BY <1>8, <1>9 DEF KindOK
<1>11. Writer(use, stack[k].ad)
  BY <1>2, <1>10 DEF CallsInv, CallsOK
<1> QED BY <1>4, <1>5, <1>7, <1>11 DEF OneWriter

(* The value is written, and post_write callbacks will tell all but the       *)
(* observer that wrote.                                                       *)
LEMMA CommitTold ==
  ASSUME IInv, CallsInv, ToldInv, UNCHANGED <<use, lists, members>>, stack # <<>>,
         Top.reason = "pre_write", Top.at # "body", Commit
  PROVE  ToldInv'
<1> DEFINE author == IF Len(stack) = 1 THEN None ELSE stack[Len(stack) - 1].ad
           g == [Top EXCEPT !.at = "enter", !.reason = "post_write"]
           l == Len(stack)
<1>1. SetTop(g) /\ value' = Top.arg /\ known' = [a \in use.adapters |-> IF a = author THEN value' ELSE known[a]]
  BY DEF Commit, GoesOnTo
<1>2. Top \in Frames /\ KindOK(Top)
  BY TopKind
<1>3. g \in Frames /\ g.at = "enter" /\ g.reason = "post_write"
  BY <1>2, Names DEF Frames
<1>4. stack \in Seq(Frames) /\ l \in Nat \ {0} /\ DOMAIN stack = 1 .. l /\ Top = stack[l]
  BY DEF IInv, StackOK, Top
<1>5. /\ DOMAIN stack' = DOMAIN stack /\ stack'[l] = g
      /\ \A n \in 1 .. l : n # l => stack'[n] = stack[n]
  <2>1. stack' = [stack EXCEPT ![l] = g]
    BY <1>1 DEF SetTop
  <2> HIDE DEF l, g
  <2> QED BY <1>4, <2>1
<1> HIDE DEF g
<1>6. Top.op \in Writes
  BY <1>2 DEF KindOK, ReadLists
<1>7. OneWriter(use) => l = 1 \/ l = 2
  BY <1>4, <1>6, WriteAt
<1>8. DOMAIN known' = use'.adapters
  BY <1>1
<1>9. ASSUME Clean(use), OneWriter(use), NEW a \in Adapters,
             <<"post_write", a>> \in members', known'[a] # value'
      PROVE  \E n \in DOMAIN stack' : WillTell(stack', lists'["post_write"], a, n)
  <2>1. a \in use.adapters
    <3>1. PICK k \in DOMAIN lists["post_write"] : lists["post_write"][k].ad = a
      BY <1>9, HasEntry
    <3> QED BY <3>1, Names DEF IInv, ListsOK, OnceInList
  <2>2. a # author
    BY <1>1, <1>9, <2>1
  <2>3. ASSUME NEW m \in 1 .. l - 1 PROVE stack'[m].ad # a
    <3>1. l = 2 /\ m = 1
      BY <1>4, <1>7, <1>9, <2>3
    <3>2. author = stack[1].ad
      BY <3>1
    <3>3. stack'[1] = stack[1]
      BY <1>5, <3>1
    <3> QED BY <2>2, <3>1, <3>2, <3>3
  <2> HIDE DEF l
  <2>4. l \in DOMAIN stack' /\ stack'[l].reason = "post_write" /\ stack'[l].at = "enter"
    BY <1>3, <1>4, <1>5
  <2>5. WillTell(stack', lists'["post_write"], a, l)
    BY <2>3, <2>4 DEF WillTell, Ahead
  <2> QED BY <2>4, <2>5
<1> QED BY <1>8, <1>9 DEF ToldInv, ToldOK

(* Between the callbacks, ... *)
LEMMA CodeTold ==
  ASSUME IInv, CallsInv, ToldInv, UNCHANGED use, CodeStep
  PROVE  ToldInv'
<1>1. CASE UnregisterPass
  <2> DEFINE A == {a \in Adapters : Observer[a] = Top.arg}
             none == \A l \in ListNames : FirstOf(l, A) = 0
  <2>1. /\ stack # <<>> /\ Top.at = "pass" /\ UNCHANGED <<value, known>>
        /\ none => Pop /\ members' = {m \in members : m[2] \notin A}
        /\ ~none => members' = {m \in members : \/ FirstOf(m[1], A) = 0
                                                 \/ lists[m[1]][FirstOf(m[1], A)].ad # m[2]}
    BY <1>1 DEF UnregisterPass, CodeRuns
  <2>2. members' \in SUBSET members
    <3> HIDE DEF none, A
    <3> QED BY <2>1
  <2>3. Clean(use) => \A n \in DOMAIN stack : stack[n].at = "pass"
    <3>1. Clean(use) => Len(stack) = 1
      BY <2>1, TopFacts
    <3>2. stack \in Seq(Frames)
      BY DEF IInv, StackOK
    <3> QED BY <2>1, <3>1, <3>2 DEF Top
  <2> QED BY <2>1, <2>2, <2>3, FewerTold
<1>2. CASE EnterHelper
  BY <1>2, EnterTold
<1>3. CASE CallBack
  BY <1>3, CallBackTold
<1>4. CASE PassOver
  BY <1>4, PassOverTold
<1>5. CASE LeaveHelper
  BY <1>5, LeaveTold
<1>6. ASSUME NEW r \in 0 .. 2, CallbackReturns(r) PROVE ToldInv'
  BY <1>6, ReturnTold
<1>7. CASE AfterDestroy
  <2>1. members' = {} /\ UNCHANGED <<value, known>>
    BY <1>7 DEF AfterDestroy
  <2> QED BY <2>1 DEF ToldInv, ToldOK
<1>8. CASE AfterPreWrite /\ Commit
  <2>1. stack # <<>> /\ Top.at = "after" /\ Top.reason = "pre_write" /\ UNCHANGED <<lists, members>>
    BY <1>8 DEF AfterPreWrite, CodeRuns
  <2> QED BY <1>8, <2>1, CommitTold
<1>9. CASE AfterReject \/ (AfterPreWrite /\ ~Commit) \/ AfterPostWrite \/ AfterRead
  <2>1. stack # <<>> /\ Top.at = "after" /\ UNCHANGED <<lists, value, members, known>>
    BY <1>9 DEF AfterReject, AfterPreWrite, AfterPostWrite, AfterRead, CodeRuns, histVars
  <2>2. Pop => ToldInv'
    BY <2>1, PopTold
  <2>3. ASSUME NEW r \in ListNames, GoesOnTo(r) PROVE ToldInv'
    <3> DEFINE g == [Top EXCEPT !.at = "enter", !.reason = r]
    <3>1. Top \in Frames /\ SetTop(g)
      BY <2>1, <2>3, TopFacts DEF GoesOnTo
    <3>2. g \in Frames
      BY <3>1 DEF Frames
    <3> HIDE DEF g
    <3>3. \A a, s : ~Ahead(Top, a, s)
      BY <2>1 DEF Ahead
    <3> QED BY <2>1, <3>1, <3>2, <3>3, TopTold
  <2>4. Pop \/ GoesOnTo("pre_write") \/ GoesOnTo("post_read")
    BY <1>9 DEF AfterReject, AfterPreWrite, AfterPostWrite, AfterRead
  <2> QED BY <2>2, <2>3, <2>4, Names
<1> QED BY <1>1, <1>2, <1>3, <1>4, <1>5, <1>6, <1>7, <1>8, <1>9 DEF CodeStep

(* ... when a callback is registered, ... *)
LEMMA RegisterTold ==
  ASSUME IInv, ToldInv, UNCHANGED use, NEW b \in Adapters, Register(b)
  PROVE  ToldInv'
<1> DEFINE L == lists["post_write"]
           M == lists'["post_write"]
<1>1. /\ b \in fresh /\ members' = members \cup (ListsOf(b) \X {b})
      /\ UNCHANGED <<stack, value>> /\ known' = [known EXCEPT ![b] = value]
      /\ M = IF "post_write" \in ListsOf(b) THEN Append(L, Live(b)) ELSE L
  BY Names DEF Register, Live
<1>2. b \in use.adapters
  BY <1>1 DEF IInv, ListsOK
<1>3. /\ DOMAIN known' = DOMAIN known /\ known'[b] = value
      /\ \A a : a # b => known'[a] = known[a]
  BY <1>1, <1>2 DEF ToldInv
<1>4. \A k \in DOMAIN L : k \in DOMAIN M /\ M[k] = L[k]
  <2>1. L \in Seq(Entries) /\ Live(b) \in Entries
    BY Names DEF IInv, ListsOK, Entries, Live
  <2> HIDE DEF L, M
  <2> QED BY <1>1, <2>1
<1> HIDE DEF L, M
<1>5. \A f, a : Ahead(f, a, L) => Ahead(f, a, M)
  BY <1>4 DEF Ahead
<1>6. \A a, n : WillTell(stack, L, a, n) => WillTell(stack', M, a, n)
  BY <1>1, <1>5 DEF WillTell
<1>7. \A a : a # b /\ <<"post_write", a>> \in members' => <<"post_write", a>> \in members
  BY <1>1
<1> QED BY <1>1, <1>3, <1>6, <1>7, ToldStep DEF L, M

(* ... and with what else users do, the observers that do not know the value  *)
(* will be told.                                                              *)
LEMMA UserTold ==
  ASSUME IInv, ToldInv, UNCHANGED use, UserStep
  PROVE  ToldInv'
<1>1. ASSUME NEW f, Push(f), UNCHANGED <<value, lists, members, known>> PROVE ToldInv'
  BY <1>1, PushTold
<1>2. CASE \/ \E op \in Ops, v \in Values : Write(op, v)
           \/ \E v \in Values, p \in Passwords \cup {NoPwd} : WriteWithPwd(v, p)
           \/ \E op \in Ops : Read(op)
           \/ \E o \in Range(Observer) : UnregisterAll(o)
           \/ Destruct
  BY <1>1, <1>2 DEF Write, WriteWithPwd, Read, UnregisterAll, Destruct, histVars
<1>3. ASSUME NEW p, Lock(p) \/ Unlock(p) PROVE ToldInv'
  BY <1>3 DEF Lock, Unlock, ToldInv, histVars
<1>4. ASSUME NEW a \in Adapters, Register(a) PROVE ToldInv'
  BY <1>4, RegisterTold
<1>5. ASSUME NEW a \in Adapters, Unregister(a) PROVE ToldInv'
  <2>1. UNCHANGED <<value, known>> /\ members' = {m \in members : m[2] # a} /\ UserRuns("unregister")
    BY <1>5 DEF Unregister
  <2>2. Clean(use) => stack = <<>>
    BY <2>1, UserAt
  <2> QED BY <2>1, <2>2, FewerTold
<1> QED BY <1>2, <1>3, <1>4, <1>5 DEF UserStep

(* The observers without the value, and the calls that will tell them. *)
LEMMA ToldKeeps ==
  Spec => [](IInv /\ CallsInv /\ ToldInv)
<1>1. Init => CallsInv /\ ToldInv
  <2> SUFFICES ASSUME Init PROVE CallsInv /\ ToldInv
    OBVIOUS
  <2>1. stack = <<>> /\ calling = {} /\ members = {} /\ known = [a \in use.adapters |-> value]
    BY DEF Init
  <2>2. CallsInv
    BY <2>1 DEF CallsInv, CallsOK, InBody
  <2>3. ToldInv
    BY <2>1 DEF ToldInv, ToldOK
  <2> QED BY <2>2, <2>3
<1>2. IInv /\ CallsInv /\ ToldInv /\ [Next]_vars => ToldInv'
  <2>1. ASSUME ToldInv, UNCHANGED vars PROVE ToldInv'
    BY <2>1 DEF ToldInv, vars
  <2> QED BY <2>1, CodeTold, UserTold DEF Next
<1>3. IInv /\ CallsInv /\ [Next]_vars => CallsInv'
  BY CallsKeep
<1> QED BY <1>1, <1>2, <1>3, Invariance, PTL DEF Spec

(* When at most one callback writes, which is not called for reads, and no    *)
(* callback unregisters another: once all calls have returned, every observer *)
(* with a post_write callback knows the value, whoever wrote last and however *)
(* the calls were nested (make_post_write_callbacks).                         *)
THEOREM ObserversKnow ==
  Spec => [](OneWriter(use) => ObserversUpToDate)
<1>1. ToldInv /\ IInv => (OneWriter(use) => ObserversUpToDate)
  <2> SUFFICES ASSUME ToldInv, IInv, OneWriter(use), NoCleanup, stack = <<>>,
                      NEW m \in members, m[1] = "post_write"
               PROVE  known[m[2]] = value
    BY DEF ObserversUpToDate
  <2>1. Clean(use)
    BY DEF NoCleanup, Clean
  <2>2. m = <<"post_write", m[2]>> /\ m[2] \in Adapters
    BY DEF IInv, ListsOK
  <2> QED BY <2>1, <2>2 DEF ToldInv, ToldOK
<1> QED BY <1>1, ToldKeeps, PTL

-----------------------------------------------------------------------------
(* A write with a password that the lock may still refuse has the password of *)
(* the lock.                                                                  *)
EarlyWrite(f) == f.op = "setValuePwd" /\ f.reason \in {"reject_write", "pre_write"}
LockOK(st, lk, pw) == \A n \in DOMAIN st : EarlyWrite(st[n]) => ~lk \/ pw = st[n].pwd
LockInv == LocksLate(use) => LockOK(stack, locked, lockPwd)

(* How the code between the callbacks changes the calls in progress. *)
LEMMA CodeFrames ==
  ASSUME IInv, CodeStep
  PROVE  /\ UNCHANGED <<locked, lockPwd>> /\ stack # <<>>
         /\ \/ UNCHANGED stack
            \/ Pop
            \/ \E g : SetTop(g) /\ (EarlyWrite(g) => EarlyWrite(Top) /\ g.pwd = Top.pwd)
<1>0. return_nothing \in 0 .. 2
  BY DEF return_nothing
<1>1. CASE UnregisterPass
  BY <1>1 DEF UnregisterPass, CodeRuns, lockVars
<1>2. CASE ~UnregisterPass
  <2>1. stack # <<>> /\ UNCHANGED <<locked, lockPwd>>
    BY <1>2 DEF CodeStep, CodeRuns, EnterHelper, CallBack, PassOver, LeaveHelper, AfterReject, AfterPreWrite,
                AfterPostWrite, AfterRead, AfterDestroy, CallbackReturns, lockVars
  <2>2. Top \in Frames
    BY <2>1, TopFacts
  <2>3. ASSUME NEW r, GoesOnTo(r), r \in {"post_write", "post_read"} \/ Top.reason = "reject_write"
        PROVE  \E g : SetTop(g) /\ (EarlyWrite(g) => EarlyWrite(Top) /\ g.pwd = Top.pwd)
    <3> DEFINE g == [Top EXCEPT !.at = "enter", !.reason = r]
    <3>1. SetTop(g)
      BY <2>3 DEF GoesOnTo
    <3>2. g.op = Top.op /\ g.reason = r /\ g.pwd = Top.pwd
      BY <2>2 DEF Frames
    <3> HIDE DEF g
    <3>3. EarlyWrite(g) => EarlyWrite(Top) /\ g.pwd = Top.pwd
      BY <2>3, <3>2 DEF EarlyWrite
    <3> QED BY <3>1, <3>3
  <2>4. ASSUME NEW g, SetTop(g), g.op = Top.op /\ g.reason = Top.reason /\ g.pwd = Top.pwd
        PROVE  \E h : SetTop(h) /\ (EarlyWrite(h) => EarlyWrite(Top) /\ h.pwd = Top.pwd)
    BY <2>4 DEF EarlyWrite
  <2>5. CASE EnterHelper
    <3> DEFINE g == [Top EXCEPT !.at = "after", !.ret = return_nothing]
               h == [Top EXCEPT !.at = "loop", !.i = 1, !.ret = return_nothing,
                                !.due = Enabled(Top.reason), !.seen = <<>>]
    <3>1. SetTop(g) \/ SetTop(h)
      BY <2>5 DEF EnterHelper
    <3>2. /\ g.op = Top.op /\ g.reason = Top.reason /\ g.pwd = Top.pwd
          /\ h.op = Top.op /\ h.reason = Top.reason /\ h.pwd = Top.pwd
      BY <2>2 DEF Frames
    <3> HIDE DEF g, h
    <3> QED BY <2>1, <2>4, <3>1, <3>2
  <2>6. CASE CallBack
    <3> DEFINE g == [Top EXCEPT !.at = "body", !.ad = Entry.ad, !.seen = Append(@, Entry.ad)]
    <3>1. SetTop(g)
      BY <2>6 DEF CallBack
    <3>2. g.op = Top.op /\ g.reason = Top.reason /\ g.pwd = Top.pwd
      BY <2>2 DEF Frames
    <3> HIDE DEF g
    <3> QED BY <2>1, <2>4, <3>1, <3>2
  <2>7. CASE PassOver
    <3> DEFINE x == IF Entry.on THEN Append(Top.seen, Entry.ad) ELSE Top.seen
               g == [Top EXCEPT !.i = Top.i + 1, !.seen = x]
    <3>1. SetTop(g)
      BY <2>7 DEF PassOver
    <3> HIDE DEF x
    <3>2. g.op = Top.op /\ g.reason = Top.reason /\ g.pwd = Top.pwd
      BY <2>2 DEF Frames
    <3> HIDE DEF g
    <3> QED BY <2>1, <2>4, <3>1, <3>2
  <2>8. CASE LeaveHelper
    <3> DEFINE g == [Top EXCEPT !.at = "after"]
    <3>1. SetTop(g)
      BY <2>8 DEF LeaveHelper
    <3>2. g.op = Top.op /\ g.reason = Top.reason /\ g.pwd = Top.pwd
      BY <2>2 DEF Frames
    <3> HIDE DEF g
    <3> QED BY <2>1, <2>4, <3>1, <3>2
  <2>9. ASSUME NEW r \in 0 .. 2, CallbackReturns(r)
        PROVE  \E h : SetTop(h) /\ (EarlyWrite(h) => EarlyWrite(Top) /\ h.pwd = Top.pwd)
    <3> DEFINE ref == Top.refused \/ (Top.reason = "reject_write" /\ r = return_value_change_rejected)
               g == [Top EXCEPT !.at = "loop", !.ad = None, !.i = Top.i + 1, !.ret = Higher(Top.ret, r),
                                !.refused = ref]
    <3>1. SetTop(g)
      BY <2>9 DEF CallbackReturns
    <3> HIDE DEF ref
    <3>2. g.op = Top.op /\ g.reason = Top.reason /\ g.pwd = Top.pwd
      BY <2>2 DEF Frames
    <3> HIDE DEF g
    <3> QED BY <2>4, <3>1, <3>2
  <2>10. CASE AfterReject \/ AfterPreWrite \/ AfterPostWrite \/ AfterRead \/ AfterDestroy
    <3>1. \/ Pop
          \/ Top.reason = "reject_write" /\ GoesOnTo("pre_write")
          \/ GoesOnTo("post_write")
          \/ GoesOnTo("post_read")
      BY <2>10 DEF AfterReject, AfterPreWrite, AfterPostWrite, AfterRead, AfterDestroy, Commit
    <3> QED BY <2>1, <2>3, <3>1
  <2> QED BY <1>2, <2>1, <2>5, <2>6, <2>7, <2>8, <2>9, <2>10 DEF CodeStep
<1> QED BY <1>1, <1>2
-----------------------------------------------------------------------------
(* The code between the callbacks does not touch the lock. *)
LEMMA CodeLock ==
  ASSUME IInv, LockInv, UNCHANGED use, CodeStep
  PROVE  LockInv'
<1> SUFFICES ASSUME LocksLate(use), NEW n \in DOMAIN stack', EarlyWrite(stack'[n])
             PROVE  ~locked \/ lockPwd = stack'[n].pwd
  BY CodeFrames DEF LockInv, LockOK
<1> DEFINE l == Len(stack)
<1>1. stack \in Seq(Frames) /\ l \in Nat \ {0} /\ DOMAIN stack = 1 .. l /\ Top = stack[l] /\ l \in DOMAIN stack
  BY CodeFrames DEF IInv, StackOK, Top
<1>2. LockOK(stack, locked, lockPwd)
  BY DEF LockInv
<1>3. CASE UNCHANGED stack
  BY <1>2, <1>3 DEF LockOK
<1>4. CASE Pop
  <2>1. n \in DOMAIN stack /\ stack'[n] = stack[n]
    <3> DEFINE m == l - 1
    <3>1. stack' = SubSeq(stack, 1, m) /\ m \in Nat /\ m <= Len(stack)
      BY <1>1, <1>4 DEF Pop, Front
    <3> HIDE DEF m
    <3> QED BY <1>1, <3>1
  <2> QED BY <1>2, <2>1 DEF LockOK
<1>5. ASSUME NEW g, SetTop(g), EarlyWrite(g) => EarlyWrite(Top) /\ g.pwd = Top.pwd
      PROVE  ~locked \/ lockPwd = stack'[n].pwd
  <2>1. n \in DOMAIN stack /\ stack'[n] = IF n = l THEN g ELSE stack[n]
    <3>1. stack' = [stack EXCEPT ![l] = g]
      BY <1>5 DEF SetTop
    <3> HIDE DEF l
    <3> QED BY <1>1, <3>1
  <2> HIDE DEF l
  <2> QED BY <1>1, <1>2, <1>5, <2>1 DEF LockOK
<1> QED BY <1>3, <1>4, <1>5, CodeFrames

(* lock is called when no write can be refused any more. *)
LEMMA LocksAfter ==
  ASSUME IInv, CallsInv, LocksLate(use), UserRuns("lock"), NEW n \in DOMAIN stack, EarlyWrite(stack[n])
  PROVE  FALSE
<1> DEFINE l == Len(stack)
           a == Top.ad
<1>1. stack \in Seq(Frames) /\ l \in Nat \ {0} /\ DOMAIN stack = 1 .. l /\ Top = stack[l] /\ stack # <<>>
      /\ l \in DOMAIN stack
  BY DEF IInv, StackOK, Top
<1>2. Top.at = "body" /\ "lock" \in use.body[a] /\ a \in use.adapters /\ Top.reason \in ListsOf(a)
  <2>1. Top.at = "body" /\ "lock" \in use.body[a]
    BY <1>1 DEF UserRuns
  <2> QED BY <1>1, <2>1, TopFacts DEF FrameOK
<1>3. UsesPwd(use)
  BY DEF EarlyWrite, CallsInv, CallsOK
<1>4. Top.reason \in {"post_write", "destroy_param"} /\ \A b \in use.adapters : ~Writer(use, b)
  BY <1>2, <1>3 DEF LocksLate
<1>5. n # l
  BY <1>1, <1>4 DEF EarlyWrite
<1>6. l > 1 /\ l - 1 \in DOMAIN stack /\ l - 1 < Len(stack)
  BY <1>1, <1>5
<1>7. stack[l - 1].at = "body" /\ FrameOK(stack[l - 1], lists, members, use)
  BY <1>1, <1>6 DEF IInv, StackOK
<1>8. ~Writer(use, stack[l - 1].ad)
  BY <1>4, <1>7 DEF FrameOK
<1> HIDE DEF l
<1>9. stack[l].op # "destruct" /\ stack[l].op \notin Writes /\ KindOK(stack[l])
  BY <1>1, <1>6, <1>8 DEF CallsInv, CallsOK
<1> QED BY <1>1, <1>4, <1>9 DEF KindOK, ReadLists

(* A write with a password begins when the lock allows it. *)
LEMMA UserLock ==
  ASSUME IInv, CallsInv, LockInv, UNCHANGED use, UserStep
  PROVE  LockInv'
<1> SUFFICES ASSUME LocksLate(use) PROVE LockOK(stack', locked', lockPwd')
  BY DEF LockInv
<1>1. stack \in Seq(Frames) /\ Len(stack) \in Nat /\ DOMAIN stack = 1 .. Len(stack)
  BY DEF IInv, StackOK
<1>2. LockOK(stack, locked, lockPwd)
  BY DEF LockInv
<1>3. ASSUME NEW f, Push(f), UNCHANGED <<locked, lockPwd>>, EarlyWrite(f) => ~locked \/ lockPwd = f.pwd
      PROVE  LockOK(stack', locked', lockPwd')
  <2>1. \A n \in DOMAIN stack' : stack'[n] = f \/ (n \in DOMAIN stack /\ stack'[n] = stack[n])
    BY <1>1, <1>3 DEF Push
  <2> QED BY <1>2, <1>3, <2>1 DEF LockOK
<1>4. ASSUME NEW f, Push(f), UNCHANGED <<locked, lockPwd>>, f.op # "setValuePwd"
      PROVE  LockOK(stack', locked', lockPwd')
  BY <1>3, <1>4 DEF EarlyWrite
<1>5. ASSUME NEW op \in Ops, NEW v \in Values, Write(op, v) PROVE LockOK(stack', locked', lockPwd')
  <2>1. Call(op, v, NoPwd, "reject_write").op # "setValuePwd"
    BY <1>5 DEF Call, Write
  <2> QED BY <1>4, <1>5, <2>1 DEF Write, lockVars
<1>6. ASSUME NEW v \in Values, NEW p \in Passwords \cup {NoPwd}, WriteWithPwd(v, p)
      PROVE  LockOK(stack', locked', lockPwd')
  <2>1. Call("setValuePwd", v, p, "reject_write").pwd = p
    BY DEF Call
  <2> QED BY <1>3, <1>6, <2>1 DEF WriteWithPwd, lockVars
<1>7. ASSUME NEW op \in Ops, Read(op) PROVE LockOK(stack', locked', lockPwd')
  <2>1. Call(op, None, NoPwd, "pre_read").op # "setValuePwd"
    BY <1>7 DEF Call, Read, Reads
  <2> QED BY <1>4, <1>7, <2>1 DEF Read, lockVars
<1>8. ASSUME NEW o \in Range(Observer), UnregisterAll(o) PROVE LockOK(stack', locked', lockPwd')
  <2> DEFINE f == [Call("unregisterAll", o, NoPwd, "pre_read") EXCEPT !.at = "pass"]
  <2>1. f.op # "setValuePwd"
    BY DEF Call
  <2>2. Push(f) /\ UNCHANGED <<locked, lockPwd>>
    BY <1>8 DEF UnregisterAll, lockVars
  <2> HIDE DEF f
  <2> QED BY <1>4, <2>1, <2>2
<1>9. CASE Destruct
  <2>1. Call("destruct", None, NoPwd, "destroy_param").op # "setValuePwd"
    BY DEF Call
  <2> QED BY <1>4, <1>9, <2>1 DEF Destruct, lockVars
<1>10. ASSUME NEW p, Lock(p) PROVE LockOK(stack', locked', lockPwd')
  <2>1. UserRuns("lock") /\ UNCHANGED stack
    BY <1>10 DEF Lock
  <2> QED BY <2>1, LocksAfter DEF LockOK
<1>11. ASSUME NEW p, Unlock(p) PROVE LockOK(stack', locked', lockPwd')
  BY <1>11 DEF Unlock, LockOK
<1>12. ASSUME NEW a \in Adapters, Register(a) \/ Unregister(a) PROVE LockOK(stack', locked', lockPwd')
  BY <1>2, <1>12 DEF Register, Unregister, lockVars
<1> QED BY <1>5, <1>6, <1>7, <1>8, <1>9, <1>10, <1>11, <1>12 DEF UserStep

(* When, in the uses in which setValue is called with a password, callbacks   *)
(* do not write and lock the parameter only after the write: a locked         *)
(* parameter changes only by a write with the password of the lock, although  *)
(* that form of setValue looks at the lock long before it writes (setValue,   *)
(* lock).                                                                     *)
THEOREM LockHolds ==
  ASSUME \A u \in Uses : LocksLate(u)
  PROVE  Spec => ReadOnlyWhenLocked
<1> DEFINE P == value' # value => ~locked \/ (Top.op = "setValuePwd" /\ Top.pwd = lockPwd)
<1>1. Init => LockInv
  BY DEF Init, LockInv, LockOK
<1>2. IInv /\ CallsInv /\ LockInv /\ [Next]_vars => LockInv'
  <2>1. ASSUME LockInv, UNCHANGED vars PROVE LockInv'
    BY <2>1 DEF LockInv, vars
  <2> QED BY <2>1, CodeLock, UserLock DEF Next
<1>3. IInv /\ LockInv /\ [Next]_vars => [P]_vars
  <2> SUFFICES ASSUME IInv, LockInv, Next, value' # value
               PROVE  ~locked \/ (Top.op = "setValuePwd" /\ Top.pwd = lockPwd)
    OBVIOUS
  <2>1. ~UserStep
    BY DEF UserStep, Write, WriteWithPwd, Read, Lock, Unlock, Register, Unregister,
           UnregisterAll, Destruct
  <2>2. AfterPreWrite
    BY <2>1 DEF Next, CodeStep, UnregisterPass, EnterHelper, CallBack, PassOver, LeaveHelper,
                AfterReject, AfterPostWrite, AfterRead, AfterDestroy, CallbackReturns
  <2>3. stack # <<>> /\ Top.reason = "pre_write" /\ ~LockStops
    BY <2>2 DEF AfterPreWrite, CodeRuns
  <2>4. LockOK(stack, locked, lockPwd)
    BY DEF IInv, LockInv
  <2>5. Len(stack) \in DOMAIN stack
    BY <2>3 DEF IInv, StackOK
  <2>6. EarlyWrite(Top) => ~locked \/ lockPwd = Top.pwd
    BY <2>4, <2>5 DEF LockOK, Top
  <2> QED BY <2>3, <2>6 DEF LockStops, EarlyWrite
<1>4. Spec => [][P]_vars
  BY <1>1, <1>2, <1>3, ToldKeeps, PTL DEF Spec
<1> QED BY <1>4 DEF ReadOnlyWhenLocked
=============================================================================
