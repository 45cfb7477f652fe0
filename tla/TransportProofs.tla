-------------------------- MODULE TransportProofs --------------------------
(***************************************************************************)
(* Proofs about the transport of GreenRouter and of the GSGP sockets.      *)
(*                                                                         *)
(* RouterMap, for any number of targets and initiators and any size of the *)
(* address space: what the map decodes to, and that the registry covers    *)
(* every DMI pointer (the invariant is IInv).                              *)
(*                                                                         *)
(* GsgpSockets, for any pool, any number of chunks and rounds and however  *)
(* the peers answer: the assertions, the protocol the users see and the    *)
(* outcome (the invariant is SocketsInv of GsgpStages).  One lemma for     *)
(* each handler on each link says that it leaves the transaction at a      *)
(* stage; the handlers of master and slave come first, then those of a     *)
(* base protocol target, then those of a base protocol initiator.          *)
(***************************************************************************)
EXTENDS RouterMap, GsgpStages, FiniteSetTheorems, SequenceTheorems, TLAPS

Ranges == [lo : Nat, hi : Nat, port : Ports]
Entries == [lo : Addr, hi : Addr, port : Initiators]
Pointers == [port : Initiators, lo : Addr, hi : Addr, target : Ports]
Maps == [map : SUBSET Ranges, ok : BOOLEAN]

RangeOf(bs, hs, t) == [lo |-> bs[t], hi |-> hs[t], port |-> t]
AllRanges(bs, hs) == {RangeOf(bs, hs, t) : t \in Ports}
AreApart(bs, hs) == \A t, u \in Ports : bs[t] < hs[t] /\ (t # u => hs[t] < bs[u] \/ hs[u] < bs[t])

(* Without a change of the parameters that was not looked at, the map is made *)
(* from them, unchecked or checked and accepted.                              *)
MapIsCurrent ==
  unread = {} /\ ~pending =>
    \/ map = AllRanges(base, high)
    \/ map = GenerateMap(base, high, TRUE).map /\ GenerateMap(base, high, TRUE).ok

Covers(e, p) == e.port = p.port /\ e.lo <= p.lo /\ p.hi <= e.hi
CoveredBy(s, p) == \E k \in 1 .. Len(s) : Covers(s[k], p)

(* The inductive invariant: every pointer is covered by the registry of its  *)
(* target, and no pointer is empty.                                          *)
Types ==
  /\ base \in [Ports -> Nat] /\ high \in [Ports -> Addr]
  /\ pending \in BOOLEAN /\ map \in SUBSET Ranges

Registry ==
  /\ dmi \in [Ports -> Seq(Entries)]
  /\ held \in SUBSET Pointers /\ \A p \in held : p.lo <= p.hi
  /\ \A p \in held : CoveredBy(dmi[p.target], p)

IInv == Types /\ MapIsCurrent /\ Registry
-----------------------------------------------------------------------------
(* Counting a prefix of the indices counts up to its last one. *)
LEMMA Prefix ==
  ASSUME NEW n \in Nat, NEW S \in SUBSET (1 .. n),
         \A j, k \in 1 .. n : k \in S /\ j < k => j \in S
  PROVE  Cardinality(S) \in 0 .. n /\ S = 1 .. Cardinality(S)
<1>1. IsFiniteSet(1 .. n) /\ Cardinality(1 .. n) = n
  BY FS_Interval
<1>2. IsFiniteSet(S) /\ Cardinality(S) <= n
  BY <1>1, FS_Subset
<1>3. Cardinality(S) \in Nat
  BY <1>2, FS_CardinalityType
<1>4. \A k \in S : k <= Cardinality(S)
  <2> SUFFICES ASSUME NEW k \in S PROVE k <= Cardinality(S)
    OBVIOUS
  <2>1. 1 .. k \in SUBSET S
    OBVIOUS
  <2>2. Cardinality(1 .. k) <= Cardinality(S)
    BY <2>1, <1>2, FS_Subset
  <2>3. Cardinality(1 .. k) = k
    BY FS_Interval
  <2> QED BY <2>2, <2>3
<1>5. S \in SUBSET (1 .. Cardinality(S))
  BY <1>3, <1>4
<1>6. IsFiniteSet(1 .. Cardinality(S)) /\ Cardinality(1 .. Cardinality(S)) = Cardinality(S)
  BY <1>3, FS_Interval
<1>7. 1 .. Cardinality(S) = S
  BY <1>5, <1>6, FS_Subset
<1> QED BY <1>2, <1>3, <1>7

(* Induction up to a number, over a set. *)
LEMMA UpTo ==
  ASSUME NEW n \in Nat, NEW S, 0 \in S, \A j \in 0 .. n - 1 : j \in S => j + 1 \in S
  PROVE  \A j \in 0 .. n : j \in S
<1> DEFINE T == {j \in 1 .. n : \A i \in 0 .. j : i \in S}
           c == Cardinality(T)
<1>1. T \in SUBSET (1 .. n)
  OBVIOUS
<1>2. \A j, k \in 1 .. n : k \in T /\ j < k => j \in T
  OBVIOUS
<1>3. \A j \in 1 .. n : j \in T <=> \A i \in 0 .. j : i \in S
  OBVIOUS
<1> HIDE DEF T
<1>4. c \in 0 .. n /\ T = 1 .. c
  BY <1>1, <1>2, Prefix
<1> HIDE DEF c
<1>5. \A i \in 0 .. c : i \in S
  <2>1. CASE c = 0
    BY <2>1
  <2>2. CASE c # 0
    <3>1. c \in T /\ c \in 1 .. n
      BY <1>4, <2>2
    <3> QED BY <1>3, <3>1
  <2> QED BY <2>1, <2>2
<1>6. c = n
  <2> SUFFICES ASSUME c # n PROVE FALSE
    OBVIOUS
  <2>1. c \in 0 .. n - 1 /\ c + 1 \in 1 .. n /\ c \in 0 .. c
    BY <1>4
  <2>2. c + 1 \in S
    BY <1>5, <2>1
  <2>3. \A i \in 0 .. c + 1 : i \in 0 .. c \/ i = c + 1
    BY <1>4
  <2>4. c + 1 \in T
    BY <1>3, <1>5, <2>1, <2>2, <2>3
  <2> QED BY <1>4, <2>4
<1> QED BY <1>5, <1>6

(* A set of indices has a least one. *)
LEMMA LeastExists ==
  ASSUME NEW n \in Nat, NEW I \in SUBSET (1 .. n), I # {}
  PROVE  Min(I) \in I /\ \A k \in I : Min(I) <= k
<1> SUFFICES \E m \in I : \A k \in I : m <= k
  BY DEF Min
<1> SUFFICES ASSUME \A m \in I : \E k \in I : ~ (m <= k) PROVE FALSE
  OBVIOUS
<1> DEFINE S == {j \in 0 .. n : \A k \in I : j < k}
<1>1. 0 \in S
  OBVIOUS
<1>2. ASSUME NEW j \in 0 .. n - 1, j \in S PROVE j + 1 \in S
  <2>1. j + 1 \notin I
    <3> SUFFICES ASSUME j + 1 \in I PROVE FALSE
      OBVIOUS
    <3>1. PICK k \in I : ~ (j + 1 <= k)
      OBVIOUS
    <3>2. k \in Nat /\ j < k
      BY <1>2
    <3> QED BY <3>1, <3>2
  <2>2. \A k \in I : k \in Nat /\ j < k /\ k # j + 1
    BY <1>2, <2>1
  <2> QED BY <2>2
<1>3. \A j \in 0 .. n : j \in S
  <2> HIDE DEF S
  <2> QED BY <1>1, <1>2, UpTo
<1>4. \A k \in I : n < k /\ k \in 1 .. n
  BY <1>3
<1>5. PICK k \in I : TRUE
  OBVIOUS
<1>6. n < k /\ k <= n /\ k \in Nat
  BY <1>4
<1> QED BY <1>6

-----------------------------------------------------------------------------
(* The loop of generateMap over the targets. *)
LEMMA Generates ==
  ASSUME NEW bs, NEW hs, NEW c
  PROVE  \E f : /\ f[0] = [map |-> {}, ok |-> TRUE]
                /\ \A n \in 0 .. Targets - 1 : f[n + 1] = AddTarget(f[n], n, bs, hs, c)
                /\ GenerateMap(bs, hs, c) = f[Targets]
<1> DEFINE n == Targets
           b == [map |-> {}, ok |-> TRUE]
           IsLoop(g, m) == g = [j \in 0 .. m |-> IF j = 0 THEN b
                                                 ELSE AddTarget(g[j - 1], j - 1, bs, hs, c)]
           f == CHOOSE g : IsLoop(g, n)
           S == {m \in 0 .. n : \E g : IsLoop(g, m)}
<1>0. n \in Nat
  BY Bounds
<1>1. GenerateMap(bs, hs, c) = f[n]
  BY Zenon DEF GenerateMap
<1> HIDE DEF n, b
<1>2. 0 \in S
  <2> DEFINE g == [j \in 0 .. 0 |-> b]
  <2>1. \A j \in 0 .. 0 : j = 0
    OBVIOUS
  <2>2. g = [j \in 0 .. 0 |-> IF j = 0 THEN b ELSE AddTarget(g[j - 1], j - 1, bs, hs, c)]
    BY <2>1
  <2>3. IsLoop(g, 0) /\ 0 \in 0 .. n
    BY <1>0, <2>2
  <2> HIDE DEF IsLoop, g
  <2> QED BY <2>3
<1>3. ASSUME NEW m \in 0 .. n - 1, m \in S PROVE m + 1 \in S
  <2>1. PICK g : IsLoop(g, m)
    BY <1>3
  <2> DEFINE h == [j \in 0 .. m + 1 |-> IF j = m + 1 THEN AddTarget(g[m], m, bs, hs, c) ELSE g[j]]
             d == [j \in 0 .. m + 1 |-> IF j = 0 THEN b ELSE AddTarget(h[j - 1], j - 1, bs, hs, c)]
  <2>2. ASSUME NEW j \in 0 .. m + 1 PROVE h[j] = d[j]
    <3>1. CASE j = m + 1
      <4>1. h[j] = AddTarget(g[m], m, bs, hs, c)
        BY <3>1
      <4>2. j # 0 /\ j - 1 = m /\ m \in 0 .. m + 1 /\ m # m + 1
        BY <1>0, <3>1
      <4>3. h[m] = g[m]
        BY <4>2
      <4>4. d[j] = AddTarget(h[j - 1], j - 1, bs, hs, c)
        BY <4>2
      <4> HIDE DEF h, d
      <4> QED BY <4>1, <4>2, <4>3, <4>4
    <3>2. CASE j # m + 1
      <4>1. h[j] = g[j] /\ j \in 0 .. m
        BY <1>0, <3>2
      <4>2. g[j] = IF j = 0 THEN b ELSE AddTarget(g[j - 1], j - 1, bs, hs, c)
        BY <2>1, <4>1
      <4>3. CASE j = 0
        <5>1. d[j] = b
          BY <4>3
        <5> HIDE DEF h, d
        <5> QED BY <4>1, <4>2, <4>3, <5>1
      <4>4. CASE j # 0
        <5>1. j - 1 \in 0 .. m + 1 /\ j - 1 # m + 1
          BY <1>0, <4>1, <4>4
        <5>2. h[j - 1] = g[j - 1]
          BY <5>1
        <5>3. d[j] = AddTarget(h[j - 1], j - 1, bs, hs, c)
          BY <4>4
        <5> HIDE DEF h, d
        <5> QED BY <4>1, <4>2, <4>4, <5>2, <5>3
      <4> QED BY <4>3, <4>4
    <3> QED BY <3>1, <3>2
  <2>3. h = [j \in 0 .. m + 1 |-> h[j]] /\ d = [j \in 0 .. m + 1 |-> d[j]]
    OBVIOUS
  <2>4. h = d
    <3> HIDE DEF h, d
    <3> QED BY <2>2, <2>3, Zenon
  <2>5. IsLoop(h, m + 1)
    BY <2>4
  <2>6. m + 1 \in 0 .. n
    BY <1>0
  <2> HIDE DEF IsLoop, h
  <2> QED BY <2>5, <2>6
<1>4. \A m \in 0 .. n : m \in S
  <2> HIDE DEF S
  <2> QED BY <1>0, <1>2, <1>3, UpTo
<1>5. n \in S
  <2> HIDE DEF S
  <2> QED BY <1>0, <1>4
<1>6. IsLoop(f, n)
  <2>1. \E g : IsLoop(g, n)
    BY <1>5
  <2> HIDE DEF IsLoop
  <2> QED BY <2>1
<1>7. \A j \in 0 .. n : f[j] = IF j = 0 THEN b ELSE AddTarget(f[j - 1], j - 1, bs, hs, c)
  <2> HIDE DEF f
  <2> QED BY <1>6
<1> HIDE DEF f, S, IsLoop
<1>8. f[0] = b
  BY <1>0, <1>7
<1>9. ASSUME NEW m \in 0 .. n - 1 PROVE f[m + 1] = AddTarget(f[m], m, bs, hs, c)
  <2>1. m + 1 \in 0 .. n /\ m + 1 # 0 /\ (m + 1) - 1 = m
    BY <1>0
  <2>2. f[m + 1] = AddTarget(f[(m + 1) - 1], (m + 1) - 1, bs, hs, c)
    BY <1>7, <2>1
  <2> QED BY <2>1, <2>2
<1> QED BY <1>1, <1>8, <1>9 DEF n, b

(* One target of it. *)
LEMMA Adds ==
  ASSUME NEW bs \in [Ports -> Nat], NEW hs \in [Ports -> Nat], NEW c \in BOOLEAN,
         NEW r \in Maps, NEW t \in Ports
  PROVE  LET q == AddTarget(r, t, bs, hs, c)
         IN  /\ q \in Maps
             /\ q.map = r.map \/ q.map = r.map \cup {RangeOf(bs, hs, t)}
             /\ r.ok /\ (c => bs[t] < hs[t] /\ \A e \in r.map : hs[t] < e.lo \/ e.hi < bs[t]) =>
                  q.ok /\ q.map = r.map \cup {RangeOf(bs, hs, t)}
<1> DEFINE e == [lo |-> bs[t], hi |-> hs[t], port |-> t]
           q == AddTarget(r, t, bs, hs, c)
           x == [r EXCEPT !.ok = FALSE]
           y == [r EXCEPT !.map = @ \cup {e}]
<1>1. bs[t] \in Nat /\ hs[t] \in Nat /\ e \in Ranges /\ RangeOf(bs, hs, t) = e
  BY DEF Ranges, RangeOf
<1>2. r.map \in SUBSET Ranges /\ r.ok \in BOOLEAN
  BY DEF Maps
<1>3. x \in Maps /\ x.map = r.map
  BY DEF Maps
<1>4. y \in Maps /\ y.map = r.map \cup {e} /\ y.ok = r.ok
  <2> HIDE DEF e
  <2> QED BY <1>1, <1>2 DEF Maps
<1>5. q = IF c /\ bs[t] >= hs[t] THEN r
          ELSE IF ~r.ok THEN r
          ELSE IF c /\ Rejects(r.map, bs[t], hs[t]) THEN x ELSE y
  BY DEF AddTarget, Insert
<1> HIDE DEF q, x, y, e
<1>6. ASSUME bs[t] < hs[t], \A d \in r.map : hs[t] < d.lo \/ d.hi < bs[t]
      PROVE  ~Rejects(r.map, bs[t], hs[t]) /\ ~(bs[t] >= hs[t])
  <2>1. ASSUME NEW d \in r.map PROVE ~IsIn(d, bs[t]) /\ ~IsIn(d, hs[t])
    <3>1. d.lo \in Nat /\ d.hi \in Nat
      BY <1>2 DEF Ranges
    <3>2. hs[t] < d.lo \/ d.hi < bs[t]
      BY <1>6
    <3> QED BY <1>1, <1>6, <3>1, <3>2 DEF IsIn
  <2> QED BY <1>1, <1>6, <2>1 DEF Rejects
<1>7. q \in Maps /\ (q.map = r.map \/ q.map = r.map \cup {e})
  BY <1>3, <1>4, <1>5
<1>8. ASSUME r.ok, c => bs[t] < hs[t] /\ \A d \in r.map : hs[t] < d.lo \/ d.hi < bs[t]
      PROVE  q.ok /\ q.map = r.map \cup {e}
  <2>1. q = y
    BY <1>5, <1>6, <1>8
  <2> QED BY <1>4, <1>8, <2>1
<1> QED BY <1>1, <1>7, <1>8 DEF q

(* generateMap makes entries of the targets' ranges only; when it does not    *)
(* check, or when the ranges are apart, it makes all of them.                 *)
LEMMA MapOfRanges ==
  ASSUME NEW bs \in [Ports -> Nat], NEW hs \in [Ports -> Nat], NEW c \in BOOLEAN
  PROVE  /\ GenerateMap(bs, hs, c) \in Maps
         /\ GenerateMap(bs, hs, c).map \in SUBSET AllRanges(bs, hs)
         /\ ~c \/ AreApart(bs, hs) =>
              GenerateMap(bs, hs, c).ok /\ GenerateMap(bs, hs, c).map = AllRanges(bs, hs)
<1>1. PICK f : /\ f[0] = [map |-> {}, ok |-> TRUE]
               /\ \A n \in 0 .. Targets - 1 : f[n + 1] = AddTarget(f[n], n, bs, hs, c)
               /\ GenerateMap(bs, hs, c) = f[Targets]
  BY Generates
<1> DEFINE Fits == ~c \/ AreApart(bs, hs)
           S == {n \in 0 .. Targets :
                   /\ f[n] \in Maps
                   /\ \A e \in f[n].map : \E t \in 0 .. n - 1 : e = RangeOf(bs, hs, t)
                   /\ Fits => f[n].ok /\ \A t \in 0 .. n - 1 : RangeOf(bs, hs, t) \in f[n].map}
<1>0. Targets \in Nat /\ Ports = 0 .. Targets - 1
  BY Bounds DEF Ports
<1>2. 0 \in S
  <2>1. f[0] \in Maps /\ f[0].map = {} /\ f[0].ok
    BY <1>1 DEF Maps
  <2>2. \A t \in 0 .. 0 - 1 : FALSE
    OBVIOUS
  <2>3. 0 \in 0 .. Targets
    BY <1>0
  <2> HIDE DEF Fits
  <2> QED BY <2>1, <2>2, <2>3
<1>3. ASSUME NEW n \in 0 .. Targets - 1, n \in S PROVE n + 1 \in S
  <2> DEFINE r == f[n]
             q == f[n + 1]
             x == RangeOf(bs, hs, n)
  <2>1. /\ r \in Maps /\ \A e \in r.map : \E t \in 0 .. n - 1 : e = RangeOf(bs, hs, t)
        /\ Fits => r.ok /\ \A t \in 0 .. n - 1 : RangeOf(bs, hs, t) \in r.map
    BY <1>3
  <2>2. n \in Ports /\ n \in Nat /\ n + 1 \in 0 .. Targets
    BY <1>0
  <2>3. q = AddTarget(r, n, bs, hs, c)
    BY <1>1
  <2> HIDE DEF r, q, Fits
  <2>4. /\ q \in Maps
        /\ q.map = r.map \/ q.map = r.map \cup {x}
        /\ r.ok /\ (c => bs[n] < hs[n] /\ \A e \in r.map : hs[n] < e.lo \/ e.hi < bs[n]) =>
             q.ok /\ q.map = r.map \cup {x}
    <3>1. r \in Maps /\ n \in Ports
      BY <2>1, <2>2
    <3> HIDE DEF x
    <3>2. x = RangeOf(bs, hs, n)
      BY DEF x
    <3>3. /\ AddTarget(r, n, bs, hs, c) \in Maps
          /\ \/ AddTarget(r, n, bs, hs, c).map = r.map
             \/ AddTarget(r, n, bs, hs, c).map = r.map \cup {RangeOf(bs, hs, n)}
          /\ r.ok /\ (c => bs[n] < hs[n] /\ \A e \in r.map : hs[n] < e.lo \/ e.hi < bs[n]) =>
               /\ AddTarget(r, n, bs, hs, c).ok
               /\ AddTarget(r, n, bs, hs, c).map = r.map \cup {RangeOf(bs, hs, n)}
      BY <3>1, Adds, SMTT(30)
    <3> QED BY <2>3, <3>2, <3>3, Zenon
  <2>5. \A t \in 0 .. n : t \in 0 .. n - 1 \/ t = n
    BY <2>2
  <2>6. \A t \in 0 .. n - 1 : t \in 0 .. n /\ t \in Ports /\ t # n
    BY <1>0, <2>2
  <2>7. ASSUME Fits PROVE c => bs[n] < hs[n] /\ \A e \in r.map : hs[n] < e.lo \/ e.hi < bs[n]
    <3> SUFFICES ASSUME c PROVE bs[n] < hs[n] /\ \A e \in r.map : hs[n] < e.lo \/ e.hi < bs[n]
      OBVIOUS
    <3>1. AreApart(bs, hs)
      BY <2>7 DEF Fits
    <3>2. ASSUME NEW e \in r.map PROVE hs[n] < e.lo \/ e.hi < bs[n]
      <4>1. PICK t \in 0 .. n - 1 : e = RangeOf(bs, hs, t)
        BY <2>1
      <4>2. hs[n] < bs[t] \/ hs[t] < bs[n]
        BY <2>2, <2>6, <3>1 DEF AreApart
      <4> QED BY <4>1, <4>2 DEF RangeOf
    <3> QED BY <2>2, <3>1, <3>2 DEF AreApart
  <2>8. \A e \in q.map : \E t \in 0 .. n : e = RangeOf(bs, hs, t)
    <3>1. n \in 0 .. n
      BY <2>2
    <3> QED BY <2>1, <2>4, <2>6, <3>1
  <2>9. ASSUME Fits PROVE q.ok /\ \A t \in 0 .. n : RangeOf(bs, hs, t) \in q.map
    BY <2>1, <2>4, <2>5, <2>7, <2>9
  <2>10. (n + 1) - 1 = n
    BY <2>2
  <2> QED BY <2>2, <2>4, <2>8, <2>9, <2>10 DEF q
<1>4. Targets \in S
  <2>1. \A j \in 0 .. Targets : j \in S
    <3> HIDE DEF S
    <3> QED BY <1>0, <1>2, <1>3, UpTo
  <2>2. Targets \in 0 .. Targets
    BY <1>0
  <2> HIDE DEF S
  <2> QED BY <2>1, <2>2
<1>5. /\ f[Targets] \in Maps
      /\ \A e \in f[Targets].map : \E t \in Ports : e = RangeOf(bs, hs, t)
      /\ Fits => f[Targets].ok /\ \A t \in Ports : RangeOf(bs, hs, t) \in f[Targets].map
  BY <1>0, <1>4
<1> QED BY <1>1, <1>5 DEF AllRanges
-----------------------------------------------------------------------------
(* Unsigned addresses. *)
LEMMA Wraps ==
  /\ AddrMax \in Nat
  /\ \A a \in Int : Wrap(a) \in Addr
  /\ \A a \in Addr : Wrap(a) = a
<1>1. AddrMax \in Nat
  BY Bounds
<1>2. ASSUME NEW a \in Int PROVE a % (AddrMax + 1) \in 0 .. AddrMax
  BY <1>1
<1>3. ASSUME NEW a \in 0 .. AddrMax PROVE a % (AddrMax + 1) = a
  BY <1>1
<1> QED BY <1>1, <1>2, <1>3 DEF Wrap, Addr

(* The typed parts of an entry, and of one with other bounds. *)
LEMMA Bounded ==
  ASSUME NEW e \in Entries, NEW a \in Addr
  PROVE  /\ e.lo \in Addr /\ e.hi \in Addr /\ e.lo \in Nat /\ e.hi \in Nat
         /\ LET l == [e EXCEPT !.lo = a]
                h == [e EXCEPT !.hi = a]
            IN  /\ l \in Entries /\ l.lo = a /\ l.hi = e.hi /\ l.port = e.port
                /\ h \in Entries /\ h.lo = e.lo /\ h.hi = a /\ h.port = e.port
  BY DEF Entries, Addr

(* Entries after remove_range. *)
LEMMA Shrinks ==
  ASSUME NEW e \in Entries, NEW lo \in Addr, NEW hi \in Addr, lo <= hi
  PROVE  /\ Shrink(e, lo, hi) \in Entries /\ Shrink(e, lo, hi).port = e.port
         /\ Rest(e, lo, hi) \in Entries /\ Rest(e, lo, hi).port = e.port
         /\ Rest(e, lo, hi).lo = Wrap(hi + 1) /\ Rest(e, lo, hi).hi = e.hi
         /\ Apart(e, lo, hi) => Shrink(e, lo, hi) = e
         /\ Within(e, lo, hi) =>
              Shrink(e, lo, hi).lo = e.lo /\ Shrink(e, lo, hi).hi = Wrap(lo - 1)
         /\ ~Apart(e, lo, hi) /\ ~Within(e, lo, hi) /\ lo <= e.lo /\ hi < e.hi =>
              Shrink(e, lo, hi).lo = Wrap(hi + 1) /\ Shrink(e, lo, hi).hi = e.hi
         /\ ~Apart(e, lo, hi) /\ ~Within(e, lo, hi) /\ e.lo < lo /\ e.hi <= hi =>
              Shrink(e, lo, hi).lo = e.lo /\ Shrink(e, lo, hi).hi = Wrap(lo - 1)
<1> DEFINE a == Wrap(hi + 1)
           b == Wrap(lo - 1)
           f == [e EXCEPT !.lo = a]
           w == [e EXCEPT !.hi = b]
           v == [f EXCEPT !.hi = b]
           N(x) == [x EXCEPT !.lo = 0, !.hi = 0]
           Z(x) == IF x.lo > x.hi THEN N(x) ELSE x
           fr == IF lo <= e.lo /\ hi <= e.hi THEN f ELSE e
           bo == IF lo >= fr.lo /\ hi >= fr.hi THEN [fr EXCEPT !.hi = b] ELSE fr
<1>0. lo \in Nat /\ hi \in Nat /\ lo <= AddrMax /\ hi <= AddrMax /\ AddrMax \in Nat
  BY Wraps DEF Addr
<1>1. a \in Addr /\ b \in Addr /\ a \in Nat /\ b \in Nat
  BY <1>0, Wraps DEF Addr
<1>2. /\ e.lo \in Addr /\ e.hi \in Addr /\ e.lo \in Nat /\ e.hi \in Nat
      /\ f \in Entries /\ f.lo = a /\ f.hi = e.hi /\ f.port = e.port
      /\ w \in Entries /\ w.lo = e.lo /\ w.hi = b /\ w.port = e.port
  <2> HIDE DEF a, b
  <2> QED BY <1>1, Bounded
<1>3. v \in Entries /\ v.lo = a /\ v.hi = b /\ v.port = e.port
  <2> HIDE DEF a, b, f
  <2> QED BY <1>1, <1>2, Bounded, ZenonT(60)
<1>4. \A x \in Entries : N(x) \in Entries /\ N(x).port = x.port /\ N(x).lo = 0 /\ N(x).hi = 0
  <2>1. 0 \in Addr
    BY <1>0 DEF Addr
  <2> QED BY <2>1 DEF Entries
<1>5. RemoveRange(e, lo, hi) = Z(bo)
  BY DEF RemoveRange
<1>6. bo \in {e, f, w, v}
  OBVIOUS
<1>7. Rest(e, lo, hi) = f
  BY DEF Rest
<1>8. Shrink(e, lo, hi) = IF Apart(e, lo, hi) THEN e
                          ELSE IF Within(e, lo, hi) THEN w ELSE RemoveRange(e, lo, hi)
  BY DEF Shrink
<1> HIDE DEF N
<1>9. Z(bo) \in Entries /\ Z(bo).port = e.port
  <2> HIDE DEF bo, f, w, v
  <2> QED BY <1>2, <1>3, <1>4, <1>6
<1>10. Apart(e, lo, hi) /\ Within(e, lo, hi) => FALSE
  BY <1>0, <1>2 DEF Apart, Within
<1>11. ASSUME ~Apart(e, lo, hi), ~Within(e, lo, hi), lo <= e.lo, hi < e.hi
       PROVE  Z(bo).lo = a /\ Z(bo).hi = e.hi
  <2>1. hi + 1 \in Addr
    BY <1>0, <1>2, <1>11 DEF Addr
  <2>2. a = hi + 1
    BY <2>1, Wraps
  <2>3. fr = f
    BY <1>0, <1>2, <1>11
  <2> HIDE DEF f, fr, a, b
  <2>4. bo = f
    BY <1>0, <1>2, <1>11, <2>2, <2>3
  <2>5. f.lo <= f.hi
    BY <1>0, <1>2, <1>11, <2>2
  <2> HIDE DEF bo
  <2> QED BY <1>1, <1>2, <2>4, <2>5
<1>12. ASSUME ~Apart(e, lo, hi), ~Within(e, lo, hi), e.lo < lo, e.hi <= hi
       PROVE  Z(bo).lo = e.lo /\ Z(bo).hi = b
  <2>1. lo - 1 \in Addr
    BY <1>0, <1>2, <1>12 DEF Addr
  <2>2. b = lo - 1
    BY <2>1, Wraps
  <2>3. fr = e
    BY <1>0, <1>2, <1>12
  <2> HIDE DEF fr, a, b
  <2>4. bo = w
    BY <1>0, <1>2, <1>12, <2>2, <2>3
  <2> HIDE DEF bo, w
  <2>5. w.lo <= w.hi
    BY <1>0, <1>2, <1>12, <2>2
  <2> QED BY <1>1, <1>2, <2>4, <2>5
<1> HIDE DEF Z, bo, fr, f, w, v
<1>13. Shrink(e, lo, hi) \in Entries /\ Shrink(e, lo, hi).port = e.port
  BY <1>2, <1>5, <1>8, <1>9
<1>14. Within(e, lo, hi) => Shrink(e, lo, hi) = w
  BY <1>8, <1>10
<1>15. ~Apart(e, lo, hi) /\ ~Within(e, lo, hi) => Shrink(e, lo, hi) = Z(bo)
  BY <1>5, <1>8
<1> QED BY <1>2, <1>7, <1>8, <1>11, <1>12, <1>13, <1>14, <1>15

(* A pointer that was not dropped stays covered: by what is left of its entry *)
(* below the range, or by the rest above it.                                  *)
LEMMA StaysCovered ==
  ASSUME NEW e \in Entries, NEW lo \in Addr, NEW hi \in Addr, lo <= hi,
         NEW p \in Pointers, p.lo <= p.hi, Covers(e, p), Apart(p, lo, hi)
  PROVE  /\ ~Exactly(e, lo, hi)
         /\ Covers(Shrink(e, lo, hi), p) \/ (Within(e, lo, hi) /\ Covers(Rest(e, lo, hi), p))
<1> DEFINE g == Shrink(e, lo, hi)
           h == Rest(e, lo, hi)
<1>0. /\ lo \in Nat /\ hi \in Nat /\ lo <= AddrMax /\ hi <= AddrMax /\ AddrMax \in Nat
      /\ p.lo \in Nat /\ p.hi \in Nat /\ p.lo <= AddrMax /\ p.hi <= AddrMax
      /\ e.lo \in Nat /\ e.hi \in Nat
  BY Wraps DEF Addr, Pointers, Entries
<1>1. e.port = p.port /\ e.lo <= p.lo /\ p.hi <= e.hi
  BY DEF Covers
<1>2. hi < p.lo \/ lo > p.hi
  BY DEF Apart
<1>3. p.hi < lo => Wrap(lo - 1) = lo - 1
  <2>1. p.hi < lo => lo - 1 \in Addr
    BY <1>0 DEF Addr
  <2> QED BY <2>1, Wraps
<1>4. hi < p.lo => Wrap(hi + 1) = hi + 1
  <2>1. hi < p.lo => hi + 1 \in Addr
    BY <1>0 DEF Addr
  <2> QED BY <2>1, Wraps
<1>5. /\ g \in Entries /\ g.port = e.port /\ h.port = e.port
      /\ h.lo = Wrap(hi + 1) /\ h.hi = e.hi
      /\ Apart(e, lo, hi) => g = e
      /\ Within(e, lo, hi) => g.lo = e.lo /\ g.hi = Wrap(lo - 1)
      /\ ~Apart(e, lo, hi) /\ ~Within(e, lo, hi) /\ lo <= e.lo /\ hi < e.hi =>
           g.lo = Wrap(hi + 1) /\ g.hi = e.hi
      /\ ~Apart(e, lo, hi) /\ ~Within(e, lo, hi) /\ e.lo < lo /\ e.hi <= hi =>
           g.lo = e.lo /\ g.hi = Wrap(lo - 1)
  BY Shrinks
<1> HIDE DEF g, h
<1>6. ~Exactly(e, lo, hi)
  BY <1>0, <1>1, <1>2 DEF Exactly
<1>7. CASE Apart(e, lo, hi)
  BY <1>5, <1>6, <1>7 DEF g
<1>8. CASE Within(e, lo, hi)
  <2>1. CASE p.hi < lo
    <3>1. Covers(g, p)
      BY <1>0, <1>1, <1>3, <1>5, <1>8, <2>1 DEF Covers
    <3> QED BY <1>6, <3>1 DEF g
  <2>2. CASE hi < p.lo
    <3>1. Covers(h, p)
      BY <1>0, <1>1, <1>4, <1>5, <2>2 DEF Covers
    <3> QED BY <1>6, <1>8, <3>1 DEF h
  <2> QED BY <1>2, <2>1, <2>2
<1>9. CASE ~Apart(e, lo, hi) /\ ~Within(e, lo, hi)
  <2>1. CASE p.hi < lo
    <3>1. e.lo < lo /\ e.hi <= hi
      BY <1>0, <1>1, <1>9, <2>1 DEF Within
    <3>2. Covers(g, p)
      BY <1>0, <1>1, <1>3, <1>5, <1>9, <2>1, <3>1 DEF Covers
    <3> QED BY <1>6, <3>2 DEF g
  <2>2. CASE hi < p.lo
    <3>1. lo <= e.lo /\ hi < e.hi
      BY <1>0, <1>1, <1>9, <2>2 DEF Within
    <3>2. Covers(g, p)
      BY <1>0, <1>1, <1>4, <1>5, <1>9, <2>2, <3>1 DEF Covers
    <3> QED BY <1>6, <3>2 DEF g
  <2> QED BY <1>2, <2>1, <2>2
<1> QED BY <1>7, <1>8, <1>9

(* The loop of inv_dmi over the entries. *)
LEMMA Loops ==
  ASSUME NEW s \in Seq(Entries), NEW lo, NEW hi
  PROVE  \E f : /\ f[0] = [kept |-> <<>>, rests |-> <<>>]
                /\ \A n \in 0 .. Len(s) - 1 : f[n + 1] = Meet(f[n], s[n + 1], lo, hi)
                /\ Invalidated(s, lo, hi) = f[Len(s)].kept \o f[Len(s)].rests
<1> DEFINE n == Len(s)
           b == [kept |-> <<>>, rests |-> <<>>]
           IsLoop(g, m) == g = [j \in 0 .. m |-> IF j = 0 THEN b
                                                 ELSE Meet(g[j - 1], s[j], lo, hi)]
           f == CHOOSE g : IsLoop(g, n)
           S == {m \in 0 .. n : \E g : IsLoop(g, m)}
<1>0. n \in Nat
  OBVIOUS
<1>1. Invalidated(s, lo, hi) = f[n].kept \o f[n].rests
  BY Zenon DEF Invalidated
<1> HIDE DEF n, b
<1>2. 0 \in S
  <2> DEFINE g == [j \in 0 .. 0 |-> b]
  <2>1. \A j \in 0 .. 0 : j = 0
    OBVIOUS
  <2>2. g = [j \in 0 .. 0 |-> IF j = 0 THEN b ELSE Meet(g[j - 1], s[j], lo, hi)]
    BY <2>1
  <2>3. IsLoop(g, 0) /\ 0 \in 0 .. n
    BY <1>0, <2>2
  <2> HIDE DEF IsLoop, g
  <2> QED BY <2>3
<1>3. ASSUME NEW m \in 0 .. n - 1, m \in S PROVE m + 1 \in S
  <2>1. PICK g : IsLoop(g, m)
    BY <1>3
  <2> DEFINE h == [j \in 0 .. m + 1 |-> IF j = m + 1 THEN Meet(g[m], s[m + 1], lo, hi) ELSE g[j]]
             d == [j \in 0 .. m + 1 |-> IF j = 0 THEN b ELSE Meet(h[j - 1], s[j], lo, hi)]
  <2>2. ASSUME NEW j \in 0 .. m + 1 PROVE h[j] = d[j]
    <3>1. CASE j = m + 1
      <4>1. h[j] = Meet(g[m], s[m + 1], lo, hi)
        BY <3>1
      <4>2. j # 0 /\ j - 1 = m /\ m \in 0 .. m + 1 /\ m # m + 1
        BY <1>0, <3>1
      <4>3. h[m] = g[m]
        BY <4>2
      <4>4. d[j] = Meet(h[j - 1], s[j], lo, hi)
        BY <4>2
      <4> HIDE DEF h, d
      <4> QED BY <3>1, <4>1, <4>2, <4>3, <4>4
    <3>2. CASE j # m + 1
      <4>1. h[j] = g[j] /\ j \in 0 .. m
        BY <1>0, <3>2
      <4>2. g[j] = IF j = 0 THEN b ELSE Meet(g[j - 1], s[j], lo, hi)
        BY <2>1, <4>1
      <4>3. CASE j = 0
        <5>1. d[j] = b
          BY <4>3
        <5> HIDE DEF h, d
        <5> QED BY <4>1, <4>2, <4>3, <5>1
      <4>4. CASE j # 0
        <5>1. j - 1 \in 0 .. m + 1 /\ j - 1 # m + 1
          BY <1>0, <4>1, <4>4
        <5>2. h[j - 1] = g[j - 1]
          BY <5>1
        <5>3. d[j] = Meet(h[j - 1], s[j], lo, hi)
          BY <4>4
        <5> HIDE DEF h, d
        <5> QED BY <4>1, <4>2, <4>4, <5>2, <5>3
      <4> QED BY <4>3, <4>4
    <3> QED BY <3>1, <3>2
  <2>3. h = [j \in 0 .. m + 1 |-> h[j]] /\ d = [j \in 0 .. m + 1 |-> d[j]]
    OBVIOUS
  <2>4. h = d
    <3> HIDE DEF h, d
    <3> QED BY <2>2, <2>3, Zenon
  <2>5. IsLoop(h, m + 1)
    BY <2>4
  <2>6. m + 1 \in 0 .. n
    BY <1>0
  <2> HIDE DEF IsLoop, h
  <2> QED BY <2>5, <2>6
<1>4. \A m \in 0 .. n : m \in S
  <2> HIDE DEF S
  <2> QED BY <1>0, <1>2, <1>3, UpTo
<1>5. n \in S
  <2> HIDE DEF S
  <2> QED BY <1>0, <1>4
<1>6. IsLoop(f, n)
  <2>1. \E g : IsLoop(g, n)
    BY <1>5
  <2> HIDE DEF IsLoop
  <2> QED BY <2>1
<1>7. \A j \in 0 .. n : f[j] = IF j = 0 THEN b ELSE Meet(f[j - 1], s[j], lo, hi)
  <2> HIDE DEF f
  <2> QED BY <1>6
<1> HIDE DEF f, S, IsLoop
<1>8. f[0] = b
  BY <1>0, <1>7
<1>9. ASSUME NEW m \in 0 .. n - 1 PROVE f[m + 1] = Meet(f[m], s[m + 1], lo, hi)
  <2>1. m + 1 \in 0 .. n /\ m + 1 # 0 /\ (m + 1) - 1 = m
    BY <1>0
  <2>2. f[m + 1] = Meet(f[(m + 1) - 1], s[m + 1], lo, hi)
    BY <1>7, <2>1
  <2> QED BY <2>1, <2>2
<1> QED BY <1>1, <1>8, <1>9 DEF n, b

Loop == [kept : Seq(Entries), rests : Seq(Entries)]

(* One entry of the loop. *)
LEMMA Meets ==
  ASSUME NEW l \in Loop, NEW e \in Entries, NEW lo \in Addr, NEW hi \in Addr, lo <= hi
  PROVE  LET q == Meet(l, e, lo, hi)
         IN  /\ q \in Loop
             /\ \A p \in Pointers :
                  CoveredBy(l.kept, p) \/ CoveredBy(l.rests, p) =>
                    CoveredBy(q.kept, p) \/ CoveredBy(q.rests, p)
             /\ \A p \in Pointers :
                  p.lo <= p.hi /\ Covers(e, p) /\ Apart(p, lo, hi) =>
                    CoveredBy(q.kept, p) \/ CoveredBy(q.rests, p)
<1> DEFINE g == Shrink(e, lo, hi)
           h == Rest(e, lo, hi)
           k == Append(l.kept, g)
           r == Append(l.rests, h)
           q == Meet(l, e, lo, hi)
<1>1. l.kept \in Seq(Entries) /\ l.rests \in Seq(Entries)
  BY DEF Loop
<1>2. g \in Entries /\ h \in Entries
  BY Shrinks
<1>3. ASSUME NEW z \in Seq(Entries), NEW x \in Entries
      PROVE  /\ Append(z, x) \in Seq(Entries)
             /\ \A p : CoveredBy(z, p) => CoveredBy(Append(z, x), p)
             /\ \A p : Covers(x, p) => CoveredBy(Append(z, x), p)
  <2> DEFINE y == Append(z, x)
  <2>1. /\ y \in Seq(Entries) /\ Len(y) = Len(z) + 1 /\ Len(z) \in Nat
        /\ y[Len(y)] = x /\ \A j \in 1 .. Len(z) : y[j] = z[j]
    OBVIOUS
  <2>2. Len(y) \in 1 .. Len(y) /\ \A j \in 1 .. Len(z) : j \in 1 .. Len(y)
    BY <2>1
  <2> HIDE DEF y
  <2>3. \A p : CoveredBy(z, p) => CoveredBy(y, p)
    BY <2>1, <2>2 DEF CoveredBy
  <2>4. \A p : Covers(x, p) => CoveredBy(y, p)
    BY <2>1, <2>2 DEF CoveredBy
  <2> QED BY <2>1, <2>3, <2>4 DEF y
<1>4. /\ k \in Seq(Entries)
      /\ \A p : CoveredBy(l.kept, p) => CoveredBy(k, p)
      /\ \A p : Covers(g, p) => CoveredBy(k, p)
  <2> HIDE DEF g, h
  <2> QED BY <1>1, <1>2, <1>3
<1>5. /\ r \in Seq(Entries)
      /\ \A p : CoveredBy(l.rests, p) => CoveredBy(r, p)
      /\ \A p : Covers(h, p) => CoveredBy(r, p)
  <2> HIDE DEF g, h
  <2> QED BY <1>1, <1>2, <1>3
<1>6. q = IF Exactly(e, lo, hi) THEN l
          ELSE [kept |-> k, rests |-> IF Within(e, lo, hi) THEN r ELSE l.rests]
  BY DEF Meet
<1>7. \A p \in Pointers : p.lo <= p.hi /\ Covers(e, p) /\ Apart(p, lo, hi) =>
         ~Exactly(e, lo, hi) /\ (Covers(g, p) \/ (Within(e, lo, hi) /\ Covers(h, p)))
  BY StaysCovered
<1> HIDE DEF g, h, k, r, q
<1>8. /\ Exactly(e, lo, hi) => q = l
      /\ ~Exactly(e, lo, hi) => /\ q \in Loop /\ q.kept = k
                                /\ Within(e, lo, hi) => q.rests = r
                                /\ ~Within(e, lo, hi) => q.rests = l.rests
  BY <1>1, <1>4, <1>5, <1>6 DEF Loop
<1>9. q \in Loop
  BY <1>8
<1>10. ASSUME NEW p \in Pointers, CoveredBy(l.kept, p) \/ CoveredBy(l.rests, p)
       PROVE  CoveredBy(q.kept, p) \/ CoveredBy(q.rests, p)
  BY <1>4, <1>5, <1>8, <1>10
<1>11. ASSUME NEW p \in Pointers, p.lo <= p.hi, Covers(e, p), Apart(p, lo, hi)
       PROVE  CoveredBy(q.kept, p) \/ CoveredBy(q.rests, p)
  BY <1>4, <1>5, <1>7, <1>8, <1>11
<1> QED BY <1>9, <1>10, <1>11 DEF q

(* inv_dmi leaves every pointer outside the range covered. *)
LEMMA InvalidatedCovers ==
  ASSUME NEW s \in Seq(Entries), NEW lo \in Addr, NEW hi \in Addr, lo <= hi
  PROVE  /\ Invalidated(s, lo, hi) \in Seq(Entries)
         /\ \A p \in Pointers : p.lo <= p.hi /\ CoveredBy(s, p) /\ Apart(p, lo, hi) =>
              CoveredBy(Invalidated(s, lo, hi), p)
<1>1. PICK f : /\ f[0] = [kept |-> <<>>, rests |-> <<>>]
               /\ \A n \in 0 .. Len(s) - 1 : f[n + 1] = Meet(f[n], s[n + 1], lo, hi)
               /\ Invalidated(s, lo, hi) = f[Len(s)].kept \o f[Len(s)].rests
  BY Loops, ZenonT(60)
<1> DEFINE N == Len(s)
           Keeps(p) == p.lo <= p.hi /\ Apart(p, lo, hi)
           Left(l, p) == CoveredBy(l.kept, p) \/ CoveredBy(l.rests, p)
           S == {n \in 0 .. N :
                   /\ f[n] \in Loop
                   /\ \A j \in 1 .. n : \A p \in Pointers :
                        Keeps(p) /\ Covers(s[j], p) => Left(f[n], p)}
<1>0. N \in Nat
  OBVIOUS
<1>2. 0 \in S
  <2>1. f[0] \in Loop
    BY <1>1 DEF Loop
  <2>2. \A j \in 1 .. 0 : FALSE
    OBVIOUS
  <2>3. 0 \in 0 .. N
    BY <1>0
  <2> HIDE DEF Keeps, Left, N
  <2> QED BY <2>1, <2>2, <2>3
<1>3. ASSUME NEW n \in 0 .. N - 1, n \in S PROVE n + 1 \in S
  <2> DEFINE l == f[n]
             q == f[n + 1]
             e == s[n + 1]
  <2>1. l \in Loop /\ \A j \in 1 .. n : \A p \in Pointers : Keeps(p) /\ Covers(s[j], p) => Left(l, p)
    BY <1>3
  <2>2. n \in Nat /\ n + 1 \in 0 .. N /\ n + 1 \in 1 .. N /\ \A j \in 1 .. n + 1 : j \in 1 .. n \/ j = n + 1
    BY <1>0
  <2>3. e \in Entries
    BY <2>2
  <2>4. q = Meet(l, e, lo, hi)
    BY <1>1
  <2> HIDE DEF l, q, N
  <2>5. /\ q \in Loop
        /\ \A p \in Pointers : Left(l, p) => Left(q, p)
        /\ \A p \in Pointers : Keeps(p) /\ Covers(e, p) => Left(q, p)
    <3> HIDE DEF e
    <3> QED BY <2>1, <2>3, <2>4, Meets
  <2> HIDE DEF Keeps, Left
  <2>6. \A j \in 1 .. n + 1 : \A p \in Pointers : Keeps(p) /\ Covers(s[j], p) => Left(q, p)
    BY <2>1, <2>2, <2>5
  <2> QED BY <2>2, <2>5, <2>6 DEF q
<1>4. N \in S
  <2>1. \A j \in 0 .. N : j \in S
    <3> HIDE DEF S, N
    <3> QED BY <1>0, <1>2, <1>3, UpTo
  <2>2. N \in 0 .. N
    BY <1>0
  <2> HIDE DEF S, N
  <2> QED BY <2>1, <2>2
<1> DEFINE l == f[N]
           k == l.kept
           r == l.rests
           o == k \o r
<1>5. l \in Loop /\ \A j \in 1 .. N : \A p \in Pointers : Keeps(p) /\ Covers(s[j], p) => Left(l, p)
  BY <1>4
<1>6. k \in Seq(Entries) /\ r \in Seq(Entries)
  BY <1>5 DEF Loop
<1>7. Invalidated(s, lo, hi) = o
  BY <1>1
<1> HIDE DEF l, k, r, S
<1>8. /\ o \in Seq(Entries) /\ Len(o) = Len(k) + Len(r) /\ Len(k) \in Nat /\ Len(r) \in Nat
      /\ \A j \in 1 .. Len(k) : o[j] = k[j]
      /\ \A j \in 1 .. Len(r) : o[Len(k) + j] = r[j]
  BY <1>6
<1> HIDE DEF o
<1>9. /\ \A j \in 1 .. Len(k) : j \in 1 .. Len(o)
      /\ \A j \in 1 .. Len(r) : Len(k) + j \in 1 .. Len(o)
  BY <1>8
<1>10. \A p : CoveredBy(k, p) \/ CoveredBy(r, p) => CoveredBy(o, p)
  <2>1. \A p : CoveredBy(k, p) => CoveredBy(o, p)
    BY <1>8, <1>9 DEF CoveredBy
  <2>2. ASSUME NEW p, CoveredBy(r, p) PROVE CoveredBy(o, p)
    <3>1. PICK j \in 1 .. Len(r) : Covers(r[j], p)
      BY <2>2 DEF CoveredBy
    <3>2. Len(k) + j \in 1 .. Len(o) /\ Covers(o[Len(k) + j], p)
      BY <1>8, <1>9, <3>1
    <3> QED BY <3>2 DEF CoveredBy
  <2> QED BY <2>1, <2>2
<1>11. ASSUME NEW p \in Pointers, p.lo <= p.hi, CoveredBy(s, p), Apart(p, lo, hi)
       PROVE  CoveredBy(o, p)
  <2>1. PICK j \in 1 .. N : Covers(s[j], p)
    BY <1>11 DEF CoveredBy
  <2>2. Left(l, p)
    <3> HIDE DEF Left, N
    <3> QED BY <1>5, <1>11, <2>1
  <2> QED BY <1>10, <2>2 DEF k, r
<1> QED BY <1>7, <1>8, <1>11

-----------------------------------------------------------------------------
(* get_dmi registers the range it grants, and loses no range. *)
LEMMA RecordCovers ==
  ASSUME NEW s \in Seq(Entries), NEW i \in Initiators, NEW lo \in Addr, NEW hi \in Addr,
         NEW t \in Ports
  PROVE  /\ Record(s, i, lo, hi) \in Seq(Entries)
         /\ \A p \in Pointers : CoveredBy(s, p) => CoveredBy(Record(s, i, lo, hi), p)
         /\ CoveredBy(Record(s, i, lo, hi), [port |-> i, lo |-> lo, hi |-> hi, target |-> t])
<1> DEFINE q == [port |-> i, lo |-> lo, hi |-> hi, target |-> t]
           I == {j \in 1 .. Len(s) : s[j].port = i /\ ~Apart(s[j], lo, hi)}
           k == IF I # {} THEN Min(I) ELSE 0
           x == [lo |-> lo, hi |-> hi, port |-> i]
           m == MergeWith(s[k], lo, hi)
           a == Append(s, x)
           u == [s EXCEPT ![k] = m]
<1>1. Record(s, i, lo, hi) = IF k = 0 THEN a ELSE u
  BY DEF Record, SelectInSeq
<1>2. q.port = i /\ q.lo = lo /\ q.hi = hi
  OBVIOUS
<1> HIDE DEF q
<1>3. lo \in Nat /\ hi \in Nat
  BY Wraps DEF Addr
<1>4. CASE I = {}
  <2>1. x \in Entries /\ Covers(x, q)
    BY <1>2, <1>3 DEF Entries, Covers
  <2> HIDE DEF x
  <2>2. /\ a \in Seq(Entries) /\ Len(a) = Len(s) + 1 /\ Len(s) \in Nat
        /\ a[Len(a)] = x /\ \A j \in 1 .. Len(s) : a[j] = s[j]
    BY <2>1
  <2>3. Len(a) \in 1 .. Len(a) /\ \A j \in 1 .. Len(s) : j \in 1 .. Len(a)
    BY <2>2
  <2>4. Record(s, i, lo, hi) = a
    BY <1>1, <1>4
  <2> HIDE DEF a
  <2>5. CoveredBy(a, q)
    BY <2>1, <2>2, <2>3 DEF CoveredBy
  <2>6. \A p \in Pointers : CoveredBy(s, p) => CoveredBy(a, p)
    BY <2>2, <2>3 DEF CoveredBy
  <2> QED BY <2>2, <2>4, <2>5, <2>6 DEF q
<1>5. CASE I # {}
  <2>1. I \in SUBSET (1 .. Len(s)) /\ Len(s) \in Nat
    OBVIOUS
  <2>2. Min(I) \in I
    <3> HIDE DEF I
    <3> QED BY <1>5, <2>1, LeastExists
  <2>3. k \in 1 .. Len(s) /\ s[k].port = i /\ k # 0
    BY <1>5, <2>2
  <2> HIDE DEF k, I
  <2>4. s[k] \in Entries
    BY <2>3
  <2> DEFINE e == s[k]
             ml == IF lo < e.lo THEN lo ELSE e.lo
             mh == IF hi > e.hi THEN hi ELSE e.hi
  <2>5. m = [e EXCEPT !.lo = ml, !.hi = mh]
    BY DEF MergeWith
  <2>6. e.lo \in Addr /\ e.hi \in Addr /\ e.lo \in Nat /\ e.hi \in Nat
    BY <2>4, Wraps, Bounded
  <2>7. /\ ml \in Addr /\ mh \in Addr /\ ml \in Nat /\ mh \in Nat
        /\ ml <= lo /\ ml <= e.lo /\ hi <= mh /\ e.hi <= mh
    BY <1>3, <2>6
  <2> HIDE DEF ml, mh
  <2>8. m \in Entries /\ m.lo = ml /\ m.hi = mh /\ m.port = i
    BY <2>3, <2>4, <2>5, <2>7 DEF Entries
  <2>9. Covers(m, q)
    BY <1>2, <2>7, <2>8 DEF Covers
  <2>10. ASSUME NEW p \in Pointers, Covers(e, p) PROVE Covers(m, p)
    <3>1. p.lo \in Nat /\ p.hi \in Nat
      BY Wraps DEF Pointers, Addr
    <3> QED BY <2>3, <2>6, <2>7, <2>8, <2>10, <3>1 DEF Covers
  <2> HIDE DEF m
  <2>11. /\ u \in Seq(Entries) /\ Len(u) = Len(s)
         /\ u[k] = m /\ \A j \in 1 .. Len(s) : j # k => u[j] = s[j]
    BY <2>3, <2>8
  <2>12. Record(s, i, lo, hi) = u
    BY <1>1, <2>3
  <2> HIDE DEF u
  <2>13. CoveredBy(u, q)
    BY <2>3, <2>9, <2>11 DEF CoveredBy
  <2>14. ASSUME NEW p \in Pointers, CoveredBy(s, p) PROVE CoveredBy(u, p)
    <3>1. PICK j \in 1 .. Len(s) : Covers(s[j], p)
      BY <2>14 DEF CoveredBy
    <3>2. Covers(u[j], p)
      BY <2>10, <2>11, <3>1
    <3> QED BY <2>11, <3>1, <3>2 DEF CoveredBy
  <2> QED BY <2>11, <2>12, <2>13, <2>14 DEF q
<1> QED BY <1>4, <1>5

-----------------------------------------------------------------------------
(* The map a transaction finds. *)
LEMMA ChecksMap ==
  ASSUME Types
  PROVE  /\ high \in [Ports -> Nat]
         /\ Checked.map \in SUBSET Ranges /\ Checked.ok \in BOOLEAN
         /\ ~pending => Checked.map = map /\ Checked.ok
         /\ pending => /\ Checked.map = GenerateMap(base, high, TRUE).map
                       /\ Checked.ok = GenerateMap(base, high, TRUE).ok
<1>1. high \in [Ports -> Nat]
  BY Wraps DEF Types, Addr
<1>2. GenerateMap(base, high, TRUE) \in Maps
  BY <1>1, MapOfRanges DEF Types
<1>3. /\ GenerateMap(base, high, TRUE).map \in SUBSET Ranges
      /\ GenerateMap(base, high, TRUE).ok \in BOOLEAN
  BY <1>2 DEF Maps
<1>4. ~pending => Checked = [map |-> map, ok |-> TRUE]
  BY DEF Checked, Types
<1>5. pending => Checked = GenerateMap(base, high, TRUE)
  BY DEF Checked
<1>6. ~pending => Checked.map = map /\ Checked.ok = TRUE
  BY <1>4
<1> QED BY <1>1, <1>3, <1>5, <1>6 DEF Types

(* A transaction checks a map that waits for it. *)
LEMMA RefreshKeeps ==
  ASSUME Types, MapIsCurrent, RefreshPending, UNCHANGED config
  PROVE  Types' /\ MapIsCurrent'
<1>1. base' = base /\ high' = high /\ unread' = unread
  BY DEF config
<1>2. map' = Checked.map /\ pending' = (pending /\ ~Checked.ok)
  BY DEF RefreshPending
<1>3. Types'
  BY <1>1, <1>2, ChecksMap DEF Types
<1>4. MapIsCurrent'
  BY <1>1, <1>2, ChecksMap DEF MapIsCurrent, Types
<1> QED BY <1>3, <1>4

(* A grant is registered. *)
LEMMA GetDmiKeeps ==
  ASSUME Types, Registry, NEW i \in Initiators, NEW a \in Addr, GetDmi(i, a)
  PROVE  Registry'
<1>1. PICK t \in Decode(Checked.map, a) \cap DmiTargets :
        \E lo \in base[t] .. a, hi \in a .. high[t] :
            /\ dmi' = [dmi EXCEPT ![t] = Record(@, i, lo, hi)]
            /\ held' = held \cup {[port |-> i, lo |-> lo, hi |-> hi, target |-> t]}
  BY DEF GetDmi
<1>2. PICK lo \in base[t] .. a, hi \in a .. high[t] :
            /\ dmi' = [dmi EXCEPT ![t] = Record(@, i, lo, hi)]
            /\ held' = held \cup {[port |-> i, lo |-> lo, hi |-> hi, target |-> t]}
  BY <1>1
<1>3. t \in Ports
  BY ChecksMap DEF Decode, Ranges
<1>4. base[t] \in Nat /\ high[t] \in Addr
  BY <1>3 DEF Types
<1>5. lo \in Addr /\ hi \in Addr /\ lo <= hi
  BY <1>4, Wraps DEF Addr
<1> DEFINE q == [port |-> i, lo |-> lo, hi |-> hi, target |-> t]
           s == dmi[t]
           r == Record(s, i, lo, hi)
<1>6. q \in Pointers /\ q.lo <= q.hi /\ q.target = t
  BY <1>3, <1>5 DEF Pointers
<1>7. s \in Seq(Entries)
  BY <1>3 DEF Registry
<1> HIDE DEF s
<1>8. r \in Seq(Entries) /\ CoveredBy(r, q) /\ \A p \in Pointers : CoveredBy(s, p) => CoveredBy(r, p)
  BY <1>3, <1>5, <1>7, RecordCovers
<1> HIDE DEF r, q
<1>9. dmi' = [dmi EXCEPT ![t] = r]
  BY <1>2 DEF r, s
<1>10. dmi' \in [Ports -> Seq(Entries)] /\ dmi'[t] = r /\ \A u \in Ports : u # t => dmi'[u] = dmi[u]
  BY <1>3, <1>8, <1>9 DEF Registry
<1>11. held' = held \cup {q}
  BY <1>2 DEF q
<1>12. ASSUME NEW p \in held' PROVE p \in Pointers /\ p.lo <= p.hi /\ CoveredBy(dmi'[p.target], p)
  <2>1. CASE p = q
    BY <1>6, <1>8, <1>10, <2>1
  <2>2. CASE p \in held
    <3>1. p \in Pointers /\ p.lo <= p.hi /\ CoveredBy(dmi[p.target], p) /\ p.target \in Ports
      BY <2>2 DEF Registry, Pointers
    <3>2. CASE p.target = t
      BY <1>8, <1>10, <3>1, <3>2 DEF s
    <3>3. CASE p.target # t
      BY <1>10, <3>1, <3>3
    <3> QED BY <3>1, <3>2, <3>3
  <2> QED BY <1>11, <2>1, <2>2
<1> QED BY <1>10, <1>12 DEF Registry

(* The initiators that are told drop what they lose. *)
LEMMA InvDmiKeeps ==
  ASSUME Registry, NEW t \in Ports, NEW lo \in Addr, NEW hi \in Addr, InvDmi(t, lo, hi)
  PROVE  Registry'
<1> DEFINE s == dmi[t]
           r == Invalidated(s, lo, hi)
<1>1. /\ lo <= hi /\ dmi' = [dmi EXCEPT ![t] = r]
      /\ held' = held \ Dropped(Told(s), lo, hi)
  BY DEF InvDmi
<1>2. s \in Seq(Entries)
  BY DEF Registry
<1>3. ASSUME NEW p \in held', p.target = t PROVE Apart(p, lo, hi)
  <2>1. p \in held /\ CoveredBy(s, p)
    BY <1>1, <1>3 DEF Registry
  <2>2. PICK k \in 1 .. Len(s) : s[k].port = p.port
    BY <2>1 DEF CoveredBy, Covers
  <2>3. p.port \in Told(s)
    BY <2>2 DEF Told
  <2> QED BY <1>1, <2>1, <2>3 DEF Dropped
<1> HIDE DEF s
<1>4. /\ r \in Seq(Entries)
      /\ \A p \in Pointers : p.lo <= p.hi /\ CoveredBy(s, p) /\ Apart(p, lo, hi) => CoveredBy(r, p)
  BY <1>1, <1>2, InvalidatedCovers
<1> HIDE DEF r
<1>5. dmi' \in [Ports -> Seq(Entries)] /\ dmi'[t] = r /\ \A u \in Ports : u # t => dmi'[u] = dmi[u]
  BY <1>1, <1>4 DEF Registry
<1>6. ASSUME NEW p \in held' PROVE p \in Pointers /\ p.lo <= p.hi /\ CoveredBy(dmi'[p.target], p)
  <2>1. p \in Pointers /\ p.lo <= p.hi /\ CoveredBy(dmi[p.target], p) /\ p.target \in Ports
    BY <1>1 DEF Registry, Pointers
  <2>2. CASE p.target = t
    BY <1>3, <1>4, <1>5, <2>1, <2>2 DEF s
  <2>3. CASE p.target # t
    BY <1>5, <2>1, <2>3
  <2> QED BY <2>1, <2>2, <2>3
<1> QED BY <1>5, <1>6 DEF Registry

(* The map is made from the parameters of all targets when a base address is  *)
(* written.                                                                   *)
LEMMA AddressChangedKeeps ==
  ASSUME Types, Registry, NEW t \in Ports, NEW b \in WriteBases, AddressChanged(t, b)
  PROVE  Types' /\ MapIsCurrent' /\ Registry'
<1>1. /\ base' = [base EXCEPT ![t] = b] /\ high' = high /\ unread' = {} /\ dmi' = dmi
      /\ map' = GenerateMap(base', high, FALSE).map
  BY DEF AddressChanged, Refreshed
<1>2. b \in Nat
  BY Bounds, Wraps DEF Addr
<1>3. base' \in [Ports -> Nat] /\ high \in [Ports -> Nat]
  BY <1>1, <1>2, ChecksMap DEF Types
<1>4. map' = AllRanges(base', high)
  BY <1>1, <1>3, MapOfRanges
<1>5. map' \in SUBSET Ranges
  <2> SUFFICES ASSUME NEW u \in Ports PROVE RangeOf(base', high, u) \in Ranges
    BY <1>4 DEF AllRanges
  <2>1. base'[u] \in Nat /\ high[u] \in Nat
    BY <1>3
  <2> QED BY <2>1 DEF RangeOf, Ranges
<1>6. pending' \in BOOLEAN /\ held' \in SUBSET held
  BY DEF AddressChanged, Types
<1>7. Types'
  BY <1>1, <1>3, <1>5, <1>6 DEF Types
<1>8. MapIsCurrent'
  BY <1>1, <1>4 DEF MapIsCurrent
<1>9. Registry'
  BY <1>1, <1>6 DEF Registry
<1> QED BY <1>7, <1>8, <1>9

(* The targets lie one after the other at first. *)
LEMMA InitIInv == Init => IInv
<1> SUFFICES ASSUME Init PROVE IInv
  OBVIOUS
<1>1. ASSUME NEW t \in Ports PROVE (IF t = 0 THEN 0 ELSE InitHigh[t - 1] + 1) \in Nat
  <2>1. CASE t = 0
    BY <2>1
  <2>2. CASE t # 0
    <3>1. t - 1 \in Ports
      BY <2>2, Bounds DEF Ports
    <3>2. InitHigh[t - 1] \in Nat
      BY <3>1, Bounds DEF Addr
    <3> QED BY <2>2, <3>2
  <2> QED BY <2>1, <2>2
<1>2. base \in [Ports -> Nat] /\ high \in [Ports -> Addr] /\ high \in [Ports -> Nat]
  BY <1>1, Bounds DEF Init, Addr
<1>3. GenerateMap(base, high, TRUE) \in Maps
  BY <1>2, MapOfRanges
<1>4. map \in SUBSET Ranges /\ MapIsCurrent /\ pending \in BOOLEAN
  BY <1>3 DEF Init, Maps, MapIsCurrent
<1>5. dmi \in [Ports -> Seq(Entries)] /\ held = {}
  BY DEF Init
<1> QED BY <1>2, <1>4, <1>5 DEF IInv, Types, Registry

(* Every step keeps the invariant. *)
LEMMA NextIInv == IInv /\ [Next]_vars => IInv'
<1> SUFFICES ASSUME IInv, [Next]_vars PROVE IInv'
  OBVIOUS
<1>0. Types /\ MapIsCurrent /\ Registry
  BY DEF IInv
<1> SUFFICES Types' /\ MapIsCurrent' /\ Registry'
  BY DEF IInv
<1>1. CASE Transport
  <2>1. Types' /\ MapIsCurrent'
    BY <1>0, <1>1, RefreshKeeps DEF Transport
  <2>2. Registry'
    BY <1>0, <1>1 DEF Transport, Registry
  <2> QED BY <2>1, <2>2
<1>2. ASSUME NEW i \in Initiators, NEW a \in Addr, GetDmi(i, a) PROVE Types' /\ MapIsCurrent' /\ Registry'
  <2>1. Types' /\ MapIsCurrent'
    BY <1>0, <1>2, RefreshKeeps DEF GetDmi
  <2>2. Registry'
    BY <1>0, <1>2, GetDmiKeeps
  <2> QED BY <2>1, <2>2
<1>3. ASSUME NEW t \in Ports, NEW lo \in Addr, NEW hi \in Addr, InvDmi(t, lo, hi)
      PROVE  Types' /\ MapIsCurrent' /\ Registry'
  <2>1. Types' /\ MapIsCurrent'
    BY <1>0, <1>3 DEF InvDmi, Types, MapIsCurrent, config
  <2>2. Registry'
    BY <1>0, <1>3, InvDmiKeeps
  <2> QED BY <2>1, <2>2
<1>4. ASSUME NEW t \in Ports, NEW lo \in Addr, NEW hi \in Addr, InvDmiFails(t, lo, hi)
      PROVE  Types' /\ MapIsCurrent' /\ Registry'
  <2>1. Types' /\ MapIsCurrent'
    BY <1>0, <1>4 DEF InvDmiFails, Types, MapIsCurrent, config
  <2>2. Registry'
    BY <1>0, <1>4 DEF InvDmiFails, Registry
  <2> QED BY <2>1, <2>2
<1>5. ASSUME NEW t \in Ports, NEW h \in WriteHighs, WriteHigh(t, h)
      PROVE  Types' /\ MapIsCurrent' /\ Registry'
  <2>1. h \in Addr
    BY Bounds
  <2>2. Types' /\ MapIsCurrent'
    BY <1>0, <1>5, <2>1 DEF WriteHigh, Types, MapIsCurrent
  <2>3. Registry'
    BY <1>0, <1>5 DEF WriteHigh, Registry
  <2> QED BY <2>2, <2>3
<1>6. ASSUME NEW t \in Ports, NEW b \in WriteBases, AddressChanged(t, b)
      PROVE  Types' /\ MapIsCurrent' /\ Registry'
  BY <1>0, <1>6, AddressChangedKeeps
<1>7. CASE UNCHANGED vars
  BY <1>0, <1>7 DEF vars, config, Types, MapIsCurrent, Registry
<1> QED BY <1>1, <1>2, <1>3, <1>4, <1>5, <1>6, <1>7 DEF Next

(* The parameters, the map, the registry of DMI entries and the pointers of   *)
(* the initiators stay consistent: the map is the one of the parameters, and  *)
(* each pointer lies in one entry of the registry of its target.              *)
THEOREM Invariance == Spec => []IInv
BY InitIInv, NextIInv, PTL DEF Spec

(* Every DMI pointer stays covered by one entry of the registry, however      *)
(* get_dmi merges entries and inv_dmi shrinks and splits them.                *)
THEOREM PointersAreRevocable == Spec => []Revocable
<1>1. IInv => Revocable
  BY DEF IInv, Registry, Revocable, CoveredBy, Covers
<1> QED BY <1>1, Invariance, PTL

(* When no change of high_addr waits, the map that a transaction looks at     *)
(* gives an address to targets that own it only, and to every target that     *)
(* owns it when the ranges are disjoint.                                      *)
THEOREM RoutesAreOwned == Spec => []RoutesToOwner
<1>1. IInv => RoutesToOwner
  <2> SUFFICES ASSUME IInv, unread = {}, NEW a \in Addr
               PROVE  /\ Checked.ok => \A t \in Decode(Checked.map, a) : Owns(t, a)
                      /\ Disjoint => \A t \in Ports : Owns(t, a) =>
                                       Checked.ok /\ t \in Decode(Checked.map, a)
    BY DEF RoutesToOwner
  <2> DEFINE G == GenerateMap(base, high, TRUE)
             A == AllRanges(base, high)
  <2>0. Types /\ MapIsCurrent
    BY DEF IInv
  <2>1. base \in [Ports -> Nat] /\ high \in [Ports -> Nat]
    BY <2>0, ChecksMap DEF Types
  <2>2. /\ G.map \in SUBSET A
        /\ AreApart(base, high) => G.ok /\ G.map = A
    BY <2>1, MapOfRanges
  <2>3. /\ pending => Checked.map = G.map /\ Checked.ok = G.ok
        /\ ~pending => Checked.ok /\ Checked.map = map /\ (map = A \/ map = G.map)
    BY <2>0, ChecksMap DEF MapIsCurrent
  <2> HIDE DEF G
  <2>4. Checked.map \in SUBSET A /\ (AreApart(base, high) => Checked.ok /\ Checked.map = A)
    <3> HIDE DEF A
    <3> QED BY <2>0, <2>2, <2>3 DEF Types
  <2>5. \A t \in Ports : LET e == RangeOf(base, high, t)
                         IN e.port = t /\ (IsIn(e, a) <=> Owns(t, a))
    BY DEF RangeOf, IsIn, Owns
  <2>6. ASSUME NEW t \in Decode(Checked.map, a) PROVE Owns(t, a)
    <3>1. PICK e \in Checked.map : IsIn(e, a) /\ e.port = t
      BY <2>6 DEF Decode
    <3>2. PICK u \in Ports : e = RangeOf(base, high, u)
      BY <2>4, <3>1 DEF AllRanges
    <3> QED BY <2>5, <3>1, <3>2
  <2>7. ASSUME Disjoint, NEW t \in Ports, Owns(t, a) PROVE Checked.ok /\ t \in Decode(Checked.map, a)
    <3>1. AreApart(base, high)
      BY <2>7 DEF Disjoint, AreApart
    <3>2. RangeOf(base, high, t) \in Checked.map
      BY <2>4, <3>1 DEF AllRanges
    <3> QED BY <2>4, <2>5, <2>7, <3>1, <3>2 DEF Decode
  <2> QED BY <2>6, <2>7
<1> QED BY <1>1, Invariance, PTL
-----------------------------------------------------------------------------
(* A queue of one message, and of two. *)
LEMMA Fifo ==
  \A m, n : /\ Head(<<m>>) = m /\ Tail(<<m>>) = <<>> /\ Append(<<>>, m) = <<m>> /\ <<m>> # <<>>
            /\ Head(<<m, n>>) = m /\ Tail(<<m, n>>) = <<n>> /\ Append(<<m>>, n) = <<m, n>>
            /\ <<m, n>> # <<>>
  <1> SUFFICES ASSUME NEW m, NEW n
               PROVE  /\ Head(<<m>>) = m /\ Tail(<<m>>) = <<>> /\ Append(<<>>, m) = <<m>> /\ <<m>> # <<>>
                      /\ Head(<<m, n>>) = m /\ Tail(<<m, n>>) = <<n>> /\ Append(<<m>>, n) = <<m, n>>
                      /\ <<m, n>> # <<>>
    OBVIOUS
  <1>1. Head(<<m>>) = m /\ <<m>> # <<>>
    OBVIOUS
  <1>2. Tail(<<m>>) = <<>>
    OBVIOUS
  <1>3. Append(<<>>, m) = <<m>>
    OBVIOUS
  <1>4. Head(<<m, n>>) = m /\ <<m, n>> # <<>>
    OBVIOUS
  <1>5. Tail(<<m, n>>) = <<n>>
    <2>1. <<m, n>> \in Seq({m, n}) /\ Len(<<m, n>>) = 2 /\ <<m, n>>[2] = n
      OBVIOUS
    <2>2. Tail(<<m, n>>) \in Seq({m, n}) /\ Len(Tail(<<m, n>>)) = 1 /\ Tail(<<m, n>>)[1] = n
      BY <2>1, HeadTailProperties, SMT
    <2> QED BY <2>2
  <1>6. Append(<<m>>, n) = <<m, n>>
    <2>1. <<m>> \in Seq({m, n}) /\ Len(<<m>>) = 1 /\ <<m>>[1] = m
      OBVIOUS
    <2>2. <<m, n>> \in Seq({m, n}) /\ Len(<<m, n>>) = 2 /\ <<m, n>>[1] = m /\ <<m, n>>[2] = n
      OBVIOUS
    <2>3. /\ Append(<<m>>, n) \in Seq({m, n}) /\ Len(Append(<<m>>, n)) = 2
          /\ Append(<<m>>, n)[1] = m /\ Append(<<m>>, n)[2] = n
      BY <2>1, AppendProperties
    <2>4. \A i \in 1 .. Len(<<m, n>>) : <<m, n>>[i] = Append(<<m>>, n)[i]
      <3> DEFINE a == Append(<<m>>, n)
      <3> HIDE DEF a
      <3>1. a[1] = m /\ a[2] = n
        BY <2>3 DEF a
      <3> QED BY <3>1, <2>2 DEF a
    <2> QED BY <2>2, <2>3, <2>4, SeqEqual
  <1> QED BY <1>1, <1>2, <1>3, <1>4, <1>5, <1>6

(* What a message says. *)
LEMMA Message ==
  ASSUME NEW ph \in Phases, NEW b \in 0 .. Burst, NEW r \in Statuses
  PROVE  /\ Msg(ph, b, r) \in Messages
         /\ Msg(ph, b, r).ph = ph /\ Msg(ph, b, r).bv = b /\ Msg(ph, b, r).resp = r
  BY DEF Msg, Messages

(* What bw_peq_cb leaves alone, and what it does to the user of the master. *)
MasterKeeps(y, x) ==
  /\ y.cmd = x.cmd /\ y.mc = x.mc /\ y.sc = x.sc /\ y.serr = x.serr /\ y.fwq = x.fwq
  /\ y.su = x.su /\ y.sent = x.sent /\ y.sout = x.sout /\ y.assert = x.assert
MasterMoves(y, x, gb) ==
  /\ gb = "RequestAccepted" /\ x.mu = "req" =>
       y.legal = x.legal /\ y.mu = IF IsWrite(x) THEN "send" ELSE "resp"
  /\ gb = "RequestError" /\ x.mu = "req" => y.legal = x.legal /\ y.mu = "done" /\ y.mout = "error"
  /\ gb = "DataAccepted" /\ x.mu = "data" =>
       /\ y.legal = x.legal
       /\ IF x.sent < Burst THEN y.mu = "send"
          ELSE IF conf.wr_resp THEN y.mu = "resp" ELSE y.mu = "done" /\ y.mout = "ok"
  /\ gb = "DataError" /\ x.mu = "data" => y.legal = x.legal /\ y.mu = "done" /\ y.mout = "error"
  /\ gb = "ResponseValid" /\ (x.mu = "resp" \/ (x.mu = "req" /\ Err(y))) =>
       y.legal = x.legal /\ y.mu = "ack"

LEMMA UserMoves ==
  ASSUME NEW x \in Txn, NEW gb, conf.wr_resp \in BOOLEAN
  PROVE  LET y == MasterUser(x, gb) IN
         /\ y \in Txn /\ MasterKeeps(y, x) /\ MasterMoves(y, x, gb)
         /\ y.bwq = x.bwq /\ y.resp = x.resp /\ y.bv = x.bv /\ y.req = x.req
  <1> DEFINE y == MasterUser(x, gb)
             Fine(z) == /\ z \in Txn /\ MasterKeeps(z, x)
                        /\ z.bwq = x.bwq /\ z.resp = x.resp /\ z.bv = x.bv /\ z.req = x.req
  <1>1. ASSUME NEW m \in {"send", "resp", "ack"}
        PROVE  Fine([x EXCEPT !.mu = m]) /\ [x EXCEPT !.mu = m].mu = m
                 /\ [x EXCEPT !.mu = m].legal = x.legal
    BY DEF Txn, MasterKeeps
  <1>2. ASSUME NEW r \in {"ok", "error"}
        PROVE  Fine(MasterDone(x, r)) /\ MasterDone(x, r).mu = "done" /\ MasterDone(x, r).mout = r
                 /\ MasterDone(x, r).legal = x.legal
    BY DEF Txn, MasterKeeps, MasterDone
  <1>3. Fine([x EXCEPT !.legal = FALSE])
    BY DEF Txn, MasterKeeps
  <1>4. CASE gb = "RequestAccepted" /\ x.mu = "req"
    <2>1. y = [x EXCEPT !.mu = IF IsWrite(x) THEN "send" ELSE "resp"]
      BY <1>4 DEF MasterUser
    <2> QED BY <2>1, <1>4, <1>1 DEF MasterMoves
  <1>5. CASE gb = "RequestError" /\ x.mu = "req"
    <2>1. y = MasterDone(x, "error")
      BY <1>5 DEF MasterUser
    <2> QED BY <2>1, <1>5, <1>2 DEF MasterMoves
  <1>6. CASE gb = "DataAccepted" /\ x.mu = "data"
    <2>1. y = IF x.sent < Burst THEN [x EXCEPT !.mu = "send"]
              ELSE IF conf.wr_resp THEN [x EXCEPT !.mu = "resp"] ELSE MasterDone(x, "ok")
      BY <1>6 DEF MasterUser
    <2> QED BY <2>1, <1>6, <1>1, <1>2 DEF MasterMoves
  <1>7. CASE gb = "DataError" /\ x.mu = "data"
    <2>1. y = MasterDone(x, "error")
      BY <1>7 DEF MasterUser
    <2> QED BY <2>1, <1>7, <1>2 DEF MasterMoves
  <1>8. CASE gb = "ResponseValid" /\ (x.mu = "resp" \/ (x.mu = "req" /\ Err(x)))
    <2>1. y = [x EXCEPT !.mu = "ack"]
      BY <1>8 DEF MasterUser
    <2> QED BY <2>1, <1>8, <1>1 DEF MasterMoves
  <1>9. CASE ~ \/ gb = "RequestAccepted" /\ x.mu = "req"
               \/ gb = "RequestError" /\ x.mu = "req"
               \/ gb = "DataAccepted" /\ x.mu = "data"
               \/ gb = "DataError" /\ x.mu = "data"
               \/ gb = "ResponseValid" /\ (x.mu = "resp" \/ (x.mu = "req" /\ Err(x)))
    <2>1. y = [x EXCEPT !.legal = FALSE]
      BY <1>9 DEF MasterUser
    <2>2. Fine(y)
      BY <2>1, <1>3
    <2>3. Err(y) <=> Err(x)
      BY <2>2 DEF Err
    <2> HIDE DEF y
    <2>4. MasterMoves(y, x, gb)
      BY <2>3, <1>9 DEF MasterMoves
    <2> QED BY <2>2, <2>4 DEF y
  <1> QED BY <1>4, <1>5, <1>6, <1>7, <1>8, <1>9

(* bw_peq_cb of the master socket *)
LEMMA MasterTakes ==
  ASSUME NEW x \in Txn, conf.wr_resp \in BOOLEAN, x.bwq # <<>>,
         NEW ph \in Phases, NEW b \in 0 .. Burst, NEW r \in Statuses,
         Head(x.bwq) = Msg(ph, b, r)
  PROVE  LET y == BwPeq(x) IN
         /\ y \in Txn /\ MasterKeeps(y, x) /\ y.bwq = Tail(x.bwq) /\ y.resp = r /\ y.bv = b
         /\ IF ph = "END_REQ" /\ r = "error"
            THEN y.req = TRUE /\ y.mu = x.mu /\ y.mout = x.mout /\ y.legal = x.legal
            ELSE y.req = FALSE /\ MasterMoves(y, x, GreenBusPhase(ph, r, x.req))
  <1>1. Tail(x.bwq) \in Seq(Messages)
    BY HeadTailProperties DEF Txn
  <1>0. Head(x.bwq).ph = ph /\ Head(x.bwq).bv = b /\ Head(x.bwq).resp = r
    BY Message
  <1> DEFINE q == Tail(x.bwq)
             d == [x EXCEPT !.resp = r, !.bv = b, !.bwq = q]
             gb == GreenBusPhase(ph, r, x.req)
             dropped == [d EXCEPT !.req = TRUE]
             taken == [d EXCEPT !.req = FALSE]
  <1> HIDE DEF q
  <1>2. BwPeq(x) = IF ph = "END_REQ" /\ d.resp = "error" THEN dropped
                   ELSE MasterUser(taken, GreenBusPhase(ph, d.resp, d.req))
    <2> DEFINE e == [Delivered(x, x.bwq) EXCEPT !.bwq = Tail(@)]
    <2>1. Delivered(x, x.bwq) = [x EXCEPT !.resp = r, !.bv = b]
      BY <1>0 DEF Delivered
    <2>2. e = d
      BY <2>1 DEF Txn, q
    <2>3. BwPeq(x) = IF Head(x.bwq).ph = "END_REQ" /\ e.resp = "error" THEN [e EXCEPT !.req = TRUE]
                     ELSE MasterUser([e EXCEPT !.req = FALSE], GreenBusPhase(Head(x.bwq).ph, e.resp, e.req))
      BY DEF BwPeq, Err
    <2> HIDE DEF d, e
    <2> QED BY <2>2, <2>3, <1>0
  <1>3. d \in Txn /\ d.resp = r /\ d.req = x.req
    BY <1>1 DEF Txn, q
  <1>4. /\ dropped \in Txn /\ MasterKeeps(dropped, x) /\ dropped.bwq = q /\ dropped.resp = r /\ dropped.bv = b
        /\ dropped.req = TRUE /\ dropped.mu = x.mu /\ dropped.mout = x.mout /\ dropped.legal = x.legal
    BY <1>1 DEF Txn, MasterKeeps, q
  <1>5. /\ taken \in Txn /\ MasterKeeps(taken, x) /\ taken.bwq = q /\ taken.resp = r /\ taken.bv = b
        /\ taken.req = FALSE /\ taken.mu = x.mu /\ taken.mout = x.mout /\ taken.legal = x.legal
    BY <1>1 DEF Txn, MasterKeeps, q
  <1> HIDE DEF d, dropped, taken, gb
  <1>6. CASE ph = "END_REQ" /\ r = "error"
    BY <1>6, <1>2, <1>3, <1>4 DEF q
  <1>7. CASE ~(ph = "END_REQ" /\ r = "error")
    <2> DEFINE y == MasterUser(taken, gb)
    <2>1. BwPeq(x) = y
      BY <1>7, <1>2, <1>3 DEF gb
    <2>2. /\ y \in Txn /\ MasterKeeps(y, taken) /\ MasterMoves(y, taken, gb)
          /\ y.bwq = q /\ y.resp = r /\ y.bv = b /\ y.req = FALSE
      BY <1>5, UserMoves
    <2> HIDE DEF y
    <2>3. MasterKeeps(y, x)
      BY <2>2, <1>5 DEF MasterKeeps
    <2>4. MasterMoves(y, x, gb)
      BY <2>2, <1>5 DEF MasterMoves, MasterKeeps, IsWrite
    <2> QED BY <1>7, <2>1, <2>2, <2>3, <2>4 DEF q, gb
  <1> QED BY <1>6, <1>7
-----------------------------------------------------------------------------
(* What fw_peq_cb delivers, what it leaves alone, and what it does to the user
   of the slave. *)
SlaveGets(x) ==
  LET y == [Delivered(x, x.fwq) EXCEPT !.fwq = Tail(@)]
  IN SlaveUser(y, GreenBusPhase(Head(x.fwq).ph, y.resp, FALSE))
SlaveKeeps(y, x) ==
  /\ y.cmd = x.cmd /\ y.mc = x.mc /\ y.req = x.req /\ y.sc = x.sc /\ y.serr = x.serr
  /\ y.bwq = x.bwq /\ y.mu = x.mu /\ y.sent = x.sent /\ y.mout = x.mout /\ y.assert = x.assert
SlaveMoves(y, x, gb) ==
  /\ gb = "RequestValid" /\ x.su \in {"idle", "done"} => y.legal = x.legal /\ y.su = "req"
  /\ gb = "DataValid" /\ x.su = "wait" /\ y.bv = (IF Gsgp THEN x.sent ELSE Burst) =>
       y.legal = x.legal /\ y.su = "data"
  /\ gb \in {"ResponseAccepted", "ResponseError"} /\ x.su = "respwait" =>
       /\ y.legal = x.legal
       /\ IF gb = "ResponseError" \/ x.sout = "error" THEN y.su = "done" /\ y.sout = "error"
          ELSE IF y.bv < Burst THEN y.su = "resp" ELSE y.su = "done" /\ y.sout = "ok"

(* The user of the slave is told a phase. *)
LEMMA SlaveUserMoves ==
  ASSUME NEW x \in Txn, NEW gb
  PROVE  LET y == SlaveUser(x, gb) IN
         /\ y \in Txn /\ SlaveKeeps(y, x) /\ SlaveMoves(y, x, gb)
         /\ y.fwq = x.fwq /\ y.resp = x.resp /\ y.bv = x.bv
  <1> DEFINE y == SlaveUser(x, gb)
             Fine(z) == z \in Txn /\ SlaveKeeps(z, x) /\ z.fwq = x.fwq /\ z.resp = x.resp /\ z.bv = x.bv
  <1>1. ASSUME NEW s \in {"req", "data", "resp"}
        PROVE  Fine([x EXCEPT !.su = s]) /\ [x EXCEPT !.su = s].su = s
                 /\ [x EXCEPT !.su = s].legal = x.legal
    BY DEF Txn, SlaveKeeps
  <1>2. ASSUME NEW r \in {"ok", "error"}
        PROVE  Fine(SlaveDone(x, r)) /\ SlaveDone(x, r).su = "done" /\ SlaveDone(x, r).sout = r
                 /\ SlaveDone(x, r).legal = x.legal
    BY DEF Txn, SlaveKeeps, SlaveDone
  <1>3. Fine([x EXCEPT !.legal = FALSE])
    BY DEF Txn, SlaveKeeps
  <1> DEFINE requested == gb = "RequestValid" /\ x.su \in {"idle", "done"}
             sent == gb = "DataValid" /\ x.su = "wait" /\ x.bv = (IF Gsgp THEN x.sent ELSE Burst)
             acked == gb \in {"ResponseAccepted", "ResponseError"} /\ x.su = "respwait"
  <1>4. CASE requested
    <2>1. y = [x EXCEPT !.su = "req"]
      BY <1>4 DEF SlaveUser
    <2>2. Fine(y) /\ y.su = "req" /\ y.legal = x.legal
      BY <2>1, <1>1
    <2> QED BY <2>2, <1>4 DEF SlaveMoves
  <1>5. CASE sent
    <2>1. y = [x EXCEPT !.su = "data"]
      BY <1>5 DEF SlaveUser
    <2>2. Fine(y) /\ y.su = "data" /\ y.legal = x.legal
      BY <2>1, <1>1
    <2> QED BY <2>2, <1>5 DEF SlaveMoves
  <1>6. CASE acked
    <2>1. y = IF gb = "ResponseError" \/ x.sout = "error" THEN SlaveDone(x, "error")
              ELSE IF x.bv < Burst THEN [x EXCEPT !.su = "resp"] ELSE SlaveDone(x, "ok")
      BY <1>6 DEF SlaveUser
    <2>2. /\ Fine(y) /\ y.legal = x.legal
          /\ IF gb = "ResponseError" \/ x.sout = "error" THEN y.su = "done" /\ y.sout = "error"
             ELSE IF x.bv < Burst THEN y.su = "resp" ELSE y.su = "done" /\ y.sout = "ok"
      BY <2>1, <1>1, <1>2
    <2> HIDE DEF y
    <2>3. SlaveMoves(y, x, gb)
      BY <2>2, <1>6 DEF SlaveMoves
    <2> QED BY <2>2, <2>3 DEF y
  <1>7. CASE ~requested /\ ~sent /\ ~acked
    <2>1. y = [x EXCEPT !.legal = FALSE]
      BY <1>7 DEF SlaveUser
    <2>2. Fine(y)
      BY <2>1, <1>3
    <2> HIDE DEF y
    <2>3. SlaveMoves(y, x, gb)
      BY <2>2, <1>7 DEF SlaveMoves
    <2> QED BY <2>2, <2>3 DEF y
  <1> QED BY <1>4, <1>5, <1>6, <1>7

(* fw_peq_cb of the slave socket, up to the call of nb_from_f *)
SlaveTook(y, x, ph, b, r) ==
  /\ y \in Txn /\ SlaveKeeps(y, x) /\ y.fwq = Tail(x.fwq) /\ y.resp = r /\ y.bv = b
  /\ SlaveMoves(y, x, GreenBusPhase(ph, r, FALSE))
LEMMA SlaveTakes ==
  ASSUME NEW x \in Txn, x.fwq # <<>>,
         NEW ph \in Phases, NEW b \in 0 .. Burst, NEW r \in Statuses,
         Head(x.fwq) = Msg(ph, b, r)
  PROVE  SlaveTook(SlaveGets(x), x, ph, b, r)
  <1>0. Head(x.fwq).ph = ph /\ Head(x.fwq).bv = b /\ Head(x.fwq).resp = r
    BY Message
  <1>1. Tail(x.fwq) \in Seq(Messages)
    BY HeadTailProperties DEF Txn
  <1> DEFINE q == Tail(x.fwq)
             d == [x EXCEPT !.resp = r, !.bv = b, !.fwq = q]
             gb == GreenBusPhase(ph, r, FALSE)
             y == SlaveUser(d, gb)
  <1> HIDE DEF q
  <1>2. SlaveGets(x) = y
    <2> DEFINE e == [Delivered(x, x.fwq) EXCEPT !.fwq = Tail(@)]
    <2>1. Delivered(x, x.fwq) = [x EXCEPT !.resp = r, !.bv = b]
      BY <1>0 DEF Delivered
    <2>2. e = d
      BY <2>1 DEF Txn, q
    <2>3. SlaveGets(x) = SlaveUser(e, GreenBusPhase(Head(x.fwq).ph, e.resp, FALSE))
      BY DEF SlaveGets
    <2>4. d.resp = r
      BY DEF Txn
    <2> HIDE DEF d, e
    <2> QED BY <2>2, <2>3, <2>4, <1>0
  <1>3. /\ d \in Txn /\ SlaveKeeps(d, x) /\ d.fwq = q /\ d.resp = r /\ d.bv = b
        /\ d.su = x.su /\ d.sout = x.sout /\ d.legal = x.legal
    BY <1>1 DEF Txn, SlaveKeeps, q
  <1> HIDE DEF d, gb
  <1>4. /\ y \in Txn /\ SlaveKeeps(y, d) /\ SlaveMoves(y, d, gb)
        /\ y.fwq = q /\ y.resp = r /\ y.bv = b
    BY <1>3, SlaveUserMoves
  <1> HIDE DEF y
  <1>5. SlaveKeeps(y, x)
    BY <1>3, <1>4 DEF SlaveKeeps
  <1>6. SlaveMoves(y, x, gb)
    BY <1>3, <1>4 DEF SlaveMoves, SlaveKeeps
  <1> QED BY <1>2, <1>4, <1>5, <1>6 DEF q, gb, SlaveTook

(* The same, but for an END_REQ with an error, which is dropped *)
MasterTook(y, x, ph, b, r) ==
  /\ y \in Txn /\ MasterKeeps(y, x) /\ y.bwq = Tail(x.bwq) /\ y.resp = r /\ y.bv = b
  /\ y.req = FALSE /\ MasterMoves(y, x, GreenBusPhase(ph, r, x.req))
LEMMA MasterHears ==
  ASSUME NEW x \in Txn, conf.wr_resp \in BOOLEAN, x.bwq # <<>>,
         NEW ph \in Phases, NEW b \in 0 .. Burst, NEW r \in Statuses,
         Head(x.bwq) = Msg(ph, b, r), ph # "END_REQ" \/ r # "error"
  PROVE  MasterTook(BwPeq(x), x, ph, b, r)
  <1> DEFINE y == BwPeq(x)
             gb == GreenBusPhase(ph, r, x.req)
  <1>1. /\ y \in Txn /\ MasterKeeps(y, x) /\ y.bwq = Tail(x.bwq) /\ y.resp = r /\ y.bv = b
        /\ IF ph = "END_REQ" /\ r = "error"
            THEN y.req = TRUE /\ y.mu = x.mu /\ y.mout = x.mout /\ y.legal = x.legal
            ELSE y.req = FALSE /\ MasterMoves(y, x, gb)
    BY MasterTakes
  <1> HIDE DEF y, gb
  <1>2. y.req = FALSE /\ MasterMoves(y, x, gb)
    BY <1>1
  <1> QED BY <1>1, <1>2 DEF y, gb, MasterTook

-----------------------------------------------------------------------------
(* What a call of the other side leaves alone: everything but its flags and
   its queue. *)
FwKeeps(y, x) ==
  /\ y.cmd = x.cmd /\ y.resp = x.resp /\ y.bv = x.bv /\ y.mc = x.mc /\ y.req = x.req /\ y.bwq = x.bwq
  /\ y.mu = x.mu /\ y.su = x.su /\ y.sent = x.sent /\ y.mout = x.mout /\ y.sout = x.sout
  /\ y.assert = x.assert /\ y.legal = x.legal
BwKeeps(y, x) ==
  /\ y.cmd = x.cmd /\ y.resp = x.resp /\ y.bv = x.bv /\ y.sc = x.sc /\ y.serr = x.serr /\ y.fwq = x.fwq
  /\ y.mu = x.mu /\ y.su = x.su /\ y.sent = x.sent /\ y.mout = x.mout /\ y.sout = x.sout
  /\ y.assert = x.assert /\ y.legal = x.legal

(* A message of the payload can be queued. *)
LEMMA Queueing ==
  ASSUME NEW x \in Txn, NEW ph \in Phases
  PROVE  /\ Append(x.bwq, Msg(ph, x.bv, x.resp)) \in Seq(Messages)
         /\ Append(x.fwq, Msg(ph, x.bv, x.resp)) \in Seq(Messages)
  <1>1. x.bv \in 0 .. Burst /\ x.resp \in Statuses /\ x.bwq \in Seq(Messages) /\ x.fwq \in Seq(Messages)
    BY DEF Txn
  <1>2. Msg(ph, x.bv, x.resp) \in Messages
    BY <1>1, Message
  <1> QED BY <1>1, <1>2, AppendProperties

(* What a GSGP slave socket does with a phase of its peer *)
LEMMA GsgpFwSend ==
  ASSUME conf.link = "gsgp", NEW x \in Txn, NEW ph \in Phases, NEW r \in FwSend(x, ph)
  PROVE  /\ r.ret = "ACCEPTED" /\ r.x \in Txn /\ FwKeeps(r.x, x)
         /\ r.x.sc = FALSE /\ r.x.serr = (x.serr /\ ph # "BEGIN_REQ")
         /\ r.x.fwq = IF ph = "END_RESP" /\ Err(x) /\ x.serr THEN x.fwq
                      ELSE Append(x.fwq, Msg(ph, x.bv, x.resp))
  <1> DEFINE q == Append(x.fwq, Msg(ph, x.bv, x.resp))
             y == [x EXCEPT !.sc = FALSE, !.serr = @ /\ ph # "BEGIN_REQ"]
             z == [y EXCEPT !.fwq = q]
  <1>1. q \in Seq(Messages)
    BY Queueing
  <1> HIDE DEF q
  <1>2. /\ y \in Txn /\ FwKeeps(y, x) /\ y.sc = FALSE /\ y.serr = (x.serr /\ ph # "BEGIN_REQ")
        /\ y.fwq = x.fwq
    BY DEF Txn, FwKeeps
  <1>3. /\ z \in Txn /\ FwKeeps(z, x) /\ z.sc = FALSE /\ z.serr = (x.serr /\ ph # "BEGIN_REQ") /\ z.fwq = q
    BY <1>1 DEF Txn, FwKeeps
  <1>4. FwEnq(y, ph) = z
    <2>1. FwEnq(y, ph) = [y EXCEPT !.fwq = Append(y.fwq, Msg(ph, y.bv, y.resp))]
      BY DEF FwEnq, Msg
    <2> HIDE DEF y
    <2> QED BY <2>1, <1>2 DEF FwKeeps, q
  <1>5. FwSend(x, ph) = IF ph = "END_RESP" /\ Err(y) /\ y.serr THEN Accepted(y) ELSE Accepted(FwEnq(y, ph))
    BY DEF FwSend, SlaveReceives, Gsgp
  <1>6. Err(y) <=> Err(x)
    BY <1>2 DEF Err, FwKeeps
  <1> HIDE DEF y, z
  <1>7. CASE ph = "END_RESP" /\ Err(x) /\ x.serr
    <2>1. r = Result(y, "ACCEPTED", "none")
      BY <1>7, <1>5, <1>6, <1>2 DEF Accepted
    <2>2. r.x = y /\ r.ret = "ACCEPTED"
      BY <2>1 DEF Result
    <2> QED BY <2>2, <1>2, <1>7
  <1>8. CASE ~(ph = "END_RESP" /\ Err(x) /\ x.serr)
    <2>1. r = Result(z, "ACCEPTED", "none")
      BY <1>8, <1>4, <1>5, <1>6, <1>2 DEF Accepted
    <2>2. r.x = z /\ r.ret = "ACCEPTED"
      BY <2>1 DEF Result
    <2> QED BY <2>2, <1>3, <1>8 DEF q
  <1> QED BY <1>7, <1>8

(* What a GSGP master socket does with a phase of its peer *)
GsgpHeard(r, x, ph) ==
  /\ r.ret = (IF ph = "BEGIN_RESP" /\ x.req /\ x.resp # "ok" THEN "COMPLETED" ELSE "ACCEPTED")
  /\ r.ph = "none" /\ r.x \in Txn /\ BwKeeps(r.x, x)
  /\ r.x.mc = FALSE /\ r.x.req = (x.req /\ ph # "END_REQ")
  /\ r.x.bwq = Append(x.bwq, Msg(ph, x.bv, x.resp))
LEMMA GsgpBwSend ==
  ASSUME conf.link = "gsgp", NEW x \in Txn, NEW ph \in Phases, NEW r \in BwSend(x, ph)
  PROVE  GsgpHeard(r, x, ph)
  <1> DEFINE q == Append(x.bwq, Msg(ph, x.bv, x.resp))
             y == MasterSees(x, ph)
             z == [y EXCEPT !.bwq = q]
             early == ph = "BEGIN_RESP" /\ x.req /\ x.resp # "ok"
  <1>1. q \in Seq(Messages)
    BY Queueing
  <1> HIDE DEF q
  <1>2. /\ y \in Txn /\ BwKeeps(y, x) /\ y.mc = FALSE /\ y.req = (x.req /\ ph # "END_REQ")
        /\ y.bwq = x.bwq
    BY DEF Txn, BwKeeps, MasterSees, Gsgp
  <1> HIDE DEF y
  <1>3. /\ z \in Txn /\ BwKeeps(z, x) /\ z.mc = FALSE /\ z.req = (x.req /\ ph # "END_REQ") /\ z.bwq = q
    BY <1>1, <1>2 DEF Txn, BwKeeps
  <1>4. BwEnq(y, ph) = z
    <2>1. BwEnq(y, ph) = [y EXCEPT !.bwq = Append(y.bwq, Msg(ph, y.bv, y.resp))]
      BY DEF BwEnq, Msg
    <2> QED BY <2>1, <1>2 DEF BwKeeps, q
  <1>5. r = Return(BwEnq(y, ph), ph = "BEGIN_RESP" /\ y.req /\ y.resp # "ok")
    BY DEF BwSend, MasterReceives, Gsgp, y
  <1>6. r = Result(z, IF early THEN "COMPLETED" ELSE "ACCEPTED", "none")
    BY <1>5, <1>4, <1>2 DEF BwKeeps, Return
  <1> HIDE DEF z, early
  <1>7. r.x = z /\ r.ret = (IF early THEN "COMPLETED" ELSE "ACCEPTED") /\ r.ph = "none"
    BY <1>6 DEF Result
  <1> QED BY <1>7, <1>3 DEF q, early, GsgpHeard

(* An assertion that holds changes nothing. *)
LEMMA Holding ==
  ASSUME NEW x \in Txn, x.assert
  PROVE  [x EXCEPT !.assert = TRUE] = x
  BY DEF Txn

(* bw_peq_cb between two GSGP sockets *)
LEMMA GsgpMasterPeq ==
  ASSUME conf \in Confs, conf.link = "gsgp", NEW x, Good(x), x.bwq # <<>>
  PROVE  Good(BwPeq(x))
  <1> DEFINE y == BwPeq(x)
  <1>1. x \in Txn /\ x.assert /\ x.legal /\ GsgpStage(x)
    BY DEF Good, Stage
  <1>2. conf.wr_resp \in BOOLEAN
    BY DEF Confs
  <1>3. x.sent \in 0 .. Burst /\ Burst \in 0 .. Burst /\ 0 \in 0 .. Burst /\ x.sout \in {"none", "ok", "error"}
    BY <1>1, BurstAssumption DEF Txn
  <1>4. CASE GsgpRequest(x) \/ (GsgpResponse(x) /\ x.mu = "req")
    <2>1. /\ Head(x.bwq) = Msg("END_REQ", 0, "incomplete") /\ x.mu = "req"
          /\ GsgpRequest(x) => Tail(x.bwq) = <<>>
          /\ GsgpResponse(x) => Tail(x.bwq) = <<Msg("BEGIN_RESP", x.sent, x.sout)>>
      BY <1>4, Fifo, ZenonT(60) DEF GsgpRequest, GsgpResponse, Queues, Quiet, At
    <2>2. /\ y \in Txn /\ MasterKeeps(y, x) /\ y.bwq = Tail(x.bwq) /\ y.resp = "incomplete" /\ y.bv = 0
          /\ y.req = FALSE /\ MasterMoves(y, x, GreenBusPhase("END_REQ", "incomplete", x.req))
      BY <1>1, <1>2, <1>3, <2>1, MasterHears DEF Phases, Statuses, MasterTook
    <2> HIDE DEF y
    <2>3. y.legal = x.legal /\ y.mu = IF IsWrite(x) THEN "send" ELSE "resp"
      BY <2>1, <2>2 DEF MasterMoves, GreenBusPhase
    <2>4. CASE GsgpRequest(x)
      <3>1. IF IsWrite(y) THEN GsgpData(y) ELSE GsgpResponse(y)
        BY <2>1, <2>2, <2>3, <2>4, BurstAssumption
        DEF MasterKeeps, GsgpRequest, GsgpData, GsgpResponse, Queues, Quiet, At, Clear, IsWrite
      <3> QED BY <1>1, <2>2, <2>3, <3>1 DEF Good, Stage, GsgpStage, MasterKeeps, y
    <2>5. CASE GsgpResponse(x)
      <3>1. GsgpResponse(y)
        BY <2>1, <2>2, <2>3, <2>5, <1>3
        DEF MasterKeeps, GsgpResponse, Queues, Quiet, At, Clear, IsWrite, AllSent
      <3> QED BY <1>1, <2>2, <2>3, <3>1 DEF Good, Stage, GsgpStage, MasterKeeps, y
    <2> QED BY <1>4, <2>4, <2>5 DEF y
  <1>5. CASE GsgpData(x)
    <2>1. /\ Head(x.bwq) = Msg("END_DATA", x.sent, "incomplete") /\ x.mu = "data" /\ Tail(x.bwq) = <<>>
      BY <1>5, Fifo DEF GsgpData, Queues, Quiet, At, AllSent
    <2>2. /\ y \in Txn /\ MasterKeeps(y, x) /\ y.bwq = <<>> /\ y.resp = "incomplete" /\ y.bv = x.sent
          /\ y.req = FALSE /\ MasterMoves(y, x, GreenBusPhase("END_DATA", "incomplete", x.req))
      BY <1>1, <1>2, <1>3, <2>1, MasterHears DEF Phases, Statuses, MasterTook
    <2> HIDE DEF y
    <2>3. /\ y.legal = x.legal
          /\ IF x.sent < Burst THEN y.mu = "send"
             ELSE IF conf.wr_resp THEN y.mu = "resp" ELSE y.mu = "done" /\ y.mout = "ok"
      BY <2>1, <2>2 DEF MasterMoves, GreenBusPhase
    <2>4. IF x.sent < Burst THEN GsgpData(y) ELSE IF conf.wr_resp THEN GsgpResponse(y) ELSE Resting(y)
      BY <2>1, <2>2, <2>3, <1>5, <1>3, BurstAssumption
      DEF MasterKeeps, GsgpData, GsgpResponse, Resting, Agree, Queues, Quiet, At, Clear, IsWrite, AllSent
    <2> QED BY <1>1, <2>2, <2>3, <2>4 DEF Good, Stage, GsgpStage, MasterKeeps, y
  <1>6. CASE GsgpResponse(x) /\ x.mu = "data"
    <2>0. x.bwq = <<Msg("END_DATA", Burst, "incomplete"), Msg("BEGIN_RESP", x.sent, x.sout)>>
      BY <1>6 DEF GsgpResponse, Queues, At
    <2>1. /\ Head(x.bwq) = Msg("END_DATA", Burst, "incomplete") /\ Tail(x.bwq) = <<Msg("BEGIN_RESP", x.sent, x.sout)>>
      BY <2>0, Fifo
    <2>2. /\ y \in Txn /\ MasterKeeps(y, x) /\ y.bwq = Tail(x.bwq) /\ y.resp = "incomplete" /\ y.bv = Burst
          /\ y.req = FALSE /\ MasterMoves(y, x, GreenBusPhase("END_DATA", "incomplete", x.req))
      BY <1>1, <1>2, <1>3, <2>1, MasterHears DEF Phases, Statuses, MasterTook
    <2> HIDE DEF y
    <2>3. y.legal = x.legal /\ y.mu = "resp"
      BY <2>2, <1>6, <1>3 DEF MasterMoves, GreenBusPhase, GsgpResponse, AllSent, At
    <2>4. GsgpResponse(y)
      BY <2>1, <2>2, <2>3, <1>6, <1>3
      DEF MasterKeeps, GsgpResponse, Queues, Quiet, At, Clear, IsWrite, AllSent
    <2> QED BY <1>1, <2>2, <2>3, <2>4 DEF Good, Stage, GsgpStage, MasterKeeps, y
  <1>7. CASE GsgpResponse(x) /\ x.mu = "resp"
    <2>1. /\ Head(x.bwq) = Msg("BEGIN_RESP", x.sent, x.sout) /\ Tail(x.bwq) = <<>> /\ x.fwq = <<>>
          /\ ~x.req /\ x.sout # "none" /\ x.su = "respwait" /\ (IsWrite(x) => AllSent(x)) /\ Clear(x)
      BY <1>7, Fifo DEF GsgpResponse, Queues, Quiet, At
    <2>2. /\ y \in Txn /\ MasterKeeps(y, x) /\ y.bwq = <<>> /\ y.resp = x.sout /\ y.bv = x.sent
          /\ y.req = FALSE /\ MasterMoves(y, x, GreenBusPhase("BEGIN_RESP", x.sout, x.req))
      <3> DEFINE r == x.sout
                 b == x.sent
      <3>1. r \in Statuses /\ "BEGIN_RESP" \in Phases /\ b \in 0 .. Burst
        BY <1>3, <2>1 DEF Phases, Statuses
      <3>2. Head(x.bwq) = Msg("BEGIN_RESP", b, r)
        BY <2>1
      <3> HIDE DEF r, b
      <3>3. /\ y \in Txn /\ MasterKeeps(y, x) /\ y.bwq = Tail(x.bwq) /\ y.resp = r /\ y.bv = b
            /\ y.req = FALSE /\ MasterMoves(y, x, GreenBusPhase("BEGIN_RESP", r, x.req))
        BY <1>1, <1>2, <3>1, <3>2, MasterHears DEF MasterTook
      <3> QED BY <3>3, <2>1 DEF r, b
    <2> HIDE DEF y
    <2>3. y.legal = x.legal /\ y.mu = "ack"
      BY <2>1, <2>2, <1>7 DEF MasterMoves, GreenBusPhase
    <2>4. GsgpResponse(y)
      BY <2>1, <2>2, <2>3 DEF MasterKeeps, GsgpResponse, Queues, Quiet, At, Clear, IsWrite, AllSent
    <2> QED BY <1>1, <2>2, <2>3, <2>4 DEF Good, Stage, GsgpStage, MasterKeeps, y
  <1>8. CASE GsgpFailed(x)
    <2> DEFINE ph == IF x.mu = "req" THEN "BEGIN_RESP" ELSE "END_DATA"
               b == IF x.mu = "req" THEN 0 ELSE x.sent
    <2>1. /\ Head(x.bwq) = Msg(ph, b, "error") /\ Tail(x.bwq) = <<>> /\ x.fwq = <<>>
          /\ x.su = "done" /\ x.sout = "error" /\ ((x.mu = "req" /\ x.req) \/ x.mu = "data")
      BY <1>8, Fifo DEF GsgpFailed, Queues
    <2>2. ph \in {"BEGIN_RESP", "END_DATA"} /\ b \in 0 .. Burst
      BY <1>3
    <2> HIDE DEF b, ph
    <2>3. /\ y \in Txn /\ MasterKeeps(y, x) /\ y.bwq = <<>>
          /\ y.req = FALSE /\ MasterMoves(y, x, GreenBusPhase(ph, "error", x.req))
      <3>1. "error" \in Statuses /\ ph \in Phases
        BY <2>2 DEF Phases, Statuses
      <3>2. ~(ph = "END_REQ" /\ "error" = "error")
        BY <2>2
      <3> QED BY <1>1, <1>2, <2>1, <2>2, <3>1, <3>2, MasterHears DEF MasterTook
    <2> HIDE DEF y
    <2>4. y.legal = x.legal /\ y.mu = "done" /\ y.mout = "error"
      BY <2>1, <2>3 DEF MasterMoves, GreenBusPhase, ph
    <2>5. Resting(y)
      BY <2>1, <2>3, <2>4 DEF MasterKeeps, Resting, Agree, Quiet, Queues, At
    <2> QED BY <1>1, <2>3, <2>4, <2>5 DEF Good, Stage, GsgpStage, MasterKeeps, y
  <1> QED BY <1>1, <1>4, <1>5, <1>6, <1>7, <1>8 DEF GsgpStage, Resting, Quiet, Queues, GsgpResponse, At

(* The user of the master sends data. *)
LEMMA GsgpSendsData ==
  ASSUME conf \in Confs, conf.link = "gsgp", NEW x, Good(x), x.mu = "send",
         NEW y \in SendData([x EXCEPT !.mu = "data", !.sent = @ + 1], x.sent + 1)
  PROVE  Good(y)
  <1>1. x \in Txn /\ x.assert /\ x.legal /\ GsgpStage(x)
    BY DEF Good, Stage
  <1>2. /\ Clear(x) /\ ~x.req /\ IsWrite(x) /\ x.resp = "incomplete" /\ x.su = "wait" /\ Quiet(x)
        /\ x.sent < Burst
    BY <1>1 DEF GsgpStage, GsgpRequest, GsgpData, GsgpResponse, GsgpFailed, Resting, At
  <1> DEFINE c == x.sent + 1
             v == [x EXCEPT !.mu = "data", !.sent = c]
             w == [Check(v, ~v.mc /\ IsWrite(v)) EXCEPT !.bv = c]
  <1>3. c \in 1 .. Burst /\ c \in 0 .. Burst
    BY <1>1, <1>2, BurstAssumption DEF Txn
  <1> HIDE DEF c
  <1>4. /\ v \in Txn /\ v.mu = "data" /\ v.sent = c /\ v.assert /\ v.legal /\ v.su = "wait" /\ v.bwq = <<>> /\ v.fwq = <<>>
        /\ v.resp = "incomplete" /\ v.cmd = "write" /\ ~v.mc /\ ~v.req /\ ~v.serr
    BY <1>1, <1>2, <1>3 DEF Txn, Quiet, Queues, Clear, IsWrite
  <1> HIDE DEF v
  <1>5. Check(v, ~v.mc /\ IsWrite(v)) = [v EXCEPT !.assert = TRUE]
    BY <1>4 DEF Check, IsWrite
  <1> DEFINE u == Check(v, ~v.mc /\ IsWrite(v))
  <1>6a. u = v
    BY <1>4, <1>5, Holding
  <1> HIDE DEF u
  <1>6. /\ w \in Txn /\ w.mu = "data" /\ w.sent = c /\ w.assert /\ w.legal /\ w.su = "wait" /\ w.bwq = <<>> /\ w.fwq = <<>>
        /\ w.resp = "incomplete" /\ w.cmd = "write" /\ ~w.mc /\ ~w.req /\ ~w.serr /\ w.bv = c
    BY <1>3, <1>4, <1>6a DEF Txn, u
  <1>7. PICK r \in FwSend(w, "BEGIN_DATA") : y \in SendDataReturns(r)
    BY DEF SendData, Gsgp, c, v, w
  <1> HIDE DEF w
  <1>8. /\ r.ret = "ACCEPTED" /\ r.x \in Txn /\ FwKeeps(r.x, w) /\ ~r.x.sc /\ ~r.x.serr
        /\ r.x.fwq = Append(w.fwq, Msg("BEGIN_DATA", w.bv, w.resp))
    BY <1>6, GsgpFwSend DEF Phases
  <1>9. y = r.x
    BY <1>7, <1>8 DEF SendDataReturns
  <1>10. GsgpData(y)
    BY <1>6, <1>8, <1>9, Fifo DEF GsgpData, FwKeeps, Clear, Queues, Quiet, At, IsWrite
  <1> QED BY <1>6, <1>8, <1>9, <1>10 DEF Good, Stage, GsgpStage, FwKeeps

(* A transaction of the pool is started. *)
LEMMA Starting ==
  ASSUME NEW x \in Txn, Free(x), x.assert, x.legal, NEW cmd \in {"read", "write"}
  PROVE  LET y == Start(x, cmd) IN
         /\ y \in Txn /\ y.cmd = cmd /\ y.resp = "incomplete" /\ At(y, "req", "idle") /\ y.sent = 0
         /\ Quiet(y) /\ y.assert /\ y.legal
  <1>1. x.round + 1 \in Nat /\ 0 \in 0 .. Burst
    BY BurstAssumption DEF Txn
  <1>2. x.bwq = <<>> /\ x.fwq = <<>>
    BY DEF Free
  <1> DEFINE n == x.round + 1
  <1> HIDE DEF n
  <1>3. LET y == [x EXCEPT !.cmd = cmd, !.resp = "incomplete", !.mu = "req", !.su = "idle", !.sent = 0,
                           !.mout = "none", !.sout = "none", !.round = n] IN
         /\ y \in Txn /\ y.cmd = cmd /\ y.resp = "incomplete" /\ At(y, "req", "idle") /\ y.sent = 0
         /\ Quiet(y) /\ y.assert /\ y.legal
    BY <1>1, <1>2, ZenonT(60) DEF Txn, Quiet, Queues, At, Statuses, n
  <1> QED BY <1>3 DEF Start, n

(* Request enters the request cycle. *)
LEMMA Beginning ==
  ASSUME NEW x \in Txn
  PROVE  LET y == Begin(x) IN
         /\ y \in Txn /\ y.cmd = x.cmd /\ y.resp = x.resp /\ At(y, x.mu, x.su) /\ y.sent = x.sent
         /\ Queues(y, x.bwq, x.fwq) /\ y.assert = x.assert /\ y.legal = x.legal
         /\ y.mc = FALSE /\ y.req = TRUE /\ y.bv = 0
  <1>1. 0 \in 0 .. Burst
    BY BurstAssumption
  <1> QED BY <1>1 DEF Txn, Queues, At, Begin

(* The user of the master starts a transaction. *)
LEMMA GsgpRequests ==
  ASSUME conf \in Confs, conf.link = "gsgp", NEW x, Good(x), Free(x), NEW cmd \in {"read", "write"},
         NEW y \in Request(Start(x, cmd))
  PROVE  Good(y)
  <1>1. x \in Txn /\ x.assert /\ x.legal
    BY DEF Good
  <1> DEFINE v == Start(x, cmd)
             w == Begin(v)
  <1>2. /\ v \in Txn /\ v.cmd = cmd /\ v.resp = "incomplete" /\ At(v, "req", "idle") /\ v.sent = 0
        /\ Quiet(v) /\ v.assert /\ v.legal
    BY <1>1, Starting
  <1>3. PICK r \in FwSend(w, "BEGIN_REQ") : y \in RequestReturns(r)
    BY DEF Request, Gsgp
  <1> HIDE DEF v
  <1>4. /\ w \in Txn /\ w.resp = "incomplete" /\ At(w, "req", "idle") /\ w.sent = 0
        /\ Quiet(w) /\ w.assert /\ w.legal /\ w.mc = FALSE /\ w.req = TRUE /\ w.bv = 0
    BY <1>2, Beginning DEF At, Quiet, Queues
  <1> HIDE DEF w
  <1>5. /\ r.ret = "ACCEPTED" /\ r.x \in Txn /\ FwKeeps(r.x, w) /\ ~r.x.sc /\ r.x.serr = FALSE
        /\ r.x.fwq = Append(w.fwq, Msg("BEGIN_REQ", w.bv, w.resp))
    BY <1>4, GsgpFwSend DEF Phases
  <1>6. y = r.x
    BY <1>3, <1>5 DEF RequestReturns
  <1>7. GsgpRequest(y)
    BY <1>4, <1>5, <1>6, Fifo DEF GsgpRequest, FwKeeps, Clear, Queues, Quiet, At
  <1> QED BY <1>4, <1>5, <1>6, <1>7 DEF Good, Stage, GsgpStage, FwKeeps

(* AckResponse and ErrorResponse end the response. *)
LEMMA GsgpEndResp ==
  ASSUME conf.link = "gsgp", NEW w \in Txn, ~w.serr, NEW y \in Completes(FwSend(w, "END_RESP"))
  PROVE  /\ y \in Txn /\ FwKeeps(y, w) /\ y.sc = FALSE /\ y.serr = FALSE
         /\ y.fwq = Append(w.fwq, Msg("END_RESP", w.bv, w.resp))
  <1>1. PICK r \in FwSend(w, "END_RESP") : y = IF r.ret = "COMPLETED" THEN [r.x EXCEPT !.mc = TRUE] ELSE r.x
    BY DEF Completes
  <1>2. /\ r.ret = "ACCEPTED" /\ r.x \in Txn /\ FwKeeps(r.x, w) /\ r.x.sc = FALSE
        /\ r.x.serr = (w.serr /\ "END_RESP" # "BEGIN_REQ")
        /\ r.x.fwq = IF "END_RESP" = "END_RESP" /\ Err(w) /\ w.serr THEN w.fwq
                      ELSE Append(w.fwq, Msg("END_RESP", w.bv, w.resp))
    BY GsgpFwSend DEF Phases
  <1>3. y = r.x
    BY <1>1, <1>2
  <1> QED BY <1>2, <1>3

(* The user of the master answers a response. *)
LEMMA GsgpAcks ==
  ASSUME conf \in Confs, conf.link = "gsgp", NEW x, Good(x), x.mu = "ack",
         NEW z, z = IF ~IsWrite(x) /\ ~Err(x) /\ x.bv < Burst THEN [x EXCEPT !.mu = "resp"]
                    ELSE MasterDone(x, x.resp),
         NEW y \in AckResponse(z) \cup ErrorResponse(MasterDone(x, "rejected"))
  PROVE  Good(y)
  <1>1. x \in Txn /\ x.assert /\ x.legal /\ GsgpStage(x)
    BY DEF Good, Stage
  <1>2. /\ Clear(x) /\ ~x.req /\ x.su = "respwait" /\ x.sout # "none" /\ (IsWrite(x) => AllSent(x))
        /\ Quiet(x) /\ x.bv = x.sent /\ x.resp = x.sout
    BY <1>1 DEF GsgpStage, GsgpRequest, GsgpData, GsgpResponse, GsgpFailed, Resting, At
  <1>3. x.sent \in 0 .. Burst /\ Burst \in Nat /\ x.sout \in {"ok", "error"}
    BY <1>1, <1>2, BurstAssumption DEF Txn
  <1>4. CASE y \in AckResponse(z)
    <2>1. /\ z \in Txn /\ z.bv = x.bv /\ z.resp = x.resp /\ z.fwq = <<>> /\ z.bwq = <<>> /\ Clear(z) /\ ~z.req
          /\ z.su = "respwait" /\ z.sout = x.sout /\ z.sent = x.sent /\ z.cmd = x.cmd /\ z.assert /\ z.legal
          /\ IF ~IsWrite(x) /\ ~Err(x) /\ x.bv < Burst THEN z.mu = "resp" ELSE z.mu = "done" /\ z.mout = x.resp
      <3>1. CASE ~IsWrite(x) /\ ~Err(x) /\ x.bv < Burst
        <4>1. z = [x EXCEPT !.mu = "resp"]
          BY <3>1
        <4>2. z \in Txn
          BY <4>1, <1>1 DEF Txn
        <4>3. x.fwq = <<>> /\ x.bwq = <<>> /\ Clear(x)
          BY <1>2 DEF Quiet, Queues
        <4>4. /\ z.mu = "resp" /\ z.bv = x.bv /\ z.resp = x.resp /\ z.fwq = x.fwq /\ z.bwq = x.bwq
              /\ z.req = x.req /\ z.mc = x.mc /\ z.sc = x.sc /\ z.serr = x.serr
              /\ z.su = x.su /\ z.sout = x.sout /\ z.sent = x.sent /\ z.cmd = x.cmd
              /\ z.assert = x.assert /\ z.legal = x.legal
          BY <4>1, <1>1 DEF Txn
        <4> QED BY <4>2, <4>3, <4>4, <3>1, <1>1, <1>2 DEF Clear
      <3>2. CASE ~(~IsWrite(x) /\ ~Err(x) /\ x.bv < Burst)
        <4>0. x.resp \in {"none", "ok", "error", "rejected"}
          BY <1>2, <1>3
        <4>1. z = [x EXCEPT !.mu = "done", !.mout = x.resp]
          BY <3>2 DEF MasterDone
        <4>2. z \in Txn
          BY <4>0, <4>1, <1>1 DEF Txn
        <4>3. x.fwq = <<>> /\ x.bwq = <<>> /\ Clear(x)
          BY <1>2 DEF Quiet, Queues
        <4>4. /\ z.mu = "done" /\ z.mout = x.resp /\ z.bv = x.bv /\ z.resp = x.resp
              /\ z.fwq = x.fwq /\ z.bwq = x.bwq
              /\ z.req = x.req /\ z.mc = x.mc /\ z.sc = x.sc /\ z.serr = x.serr
              /\ z.su = x.su /\ z.sout = x.sout /\ z.sent = x.sent /\ z.cmd = x.cmd
              /\ z.assert = x.assert /\ z.legal = x.legal
          BY <4>1, <1>1 DEF Txn
        <4> QED BY <4>2, <4>3, <4>4, <3>2, <1>1, <1>2 DEF Clear
      <3> QED BY <3>1, <3>2
    <2>2. /\ y \in Txn /\ FwKeeps(y, z) /\ y.sc = FALSE /\ y.serr = FALSE
          /\ y.fwq = Append(z.fwq, Msg("END_RESP", z.bv, z.resp))
      BY <1>4, <2>1, GsgpEndResp DEF AckResponse, Clear
    <2>3. GsgpResponse(y)
      BY <2>1, <2>2, <1>2, <1>3, Fifo
      DEF GsgpResponse, FwKeeps, Clear, Queues, Quiet, At, IsWrite, AllSent, Err
    <2> QED BY <2>1, <2>2, <2>3 DEF Good, Stage, GsgpStage, FwKeeps
  <1>5. CASE y \in ErrorResponse(MasterDone(x, "rejected"))
    <2> DEFINE v == MasterDone(x, "rejected")
               w == [v EXCEPT !.resp = "error"]
    <2>1. /\ v \in Txn /\ v.bv = x.bv /\ v.fwq = <<>> /\ v.bwq = <<>> /\ Clear(v) /\ ~v.req
          /\ v.su = "respwait" /\ v.sout = x.sout /\ v.sent = x.sent /\ v.cmd = x.cmd /\ v.assert /\ v.legal
          /\ v.mu = "done" /\ v.mout = "rejected"
      BY <1>1, <1>2 DEF Txn, Quiet, Queues, Clear, MasterDone
    <2> HIDE DEF v
    <2>2. /\ w \in Txn /\ w.bv = x.bv /\ w.fwq = <<>> /\ w.bwq = <<>> /\ Clear(w) /\ ~w.req
          /\ w.su = "respwait" /\ w.sout = x.sout /\ w.sent = x.sent /\ w.cmd = x.cmd /\ w.assert /\ w.legal
          /\ w.mu = "done" /\ w.mout = "rejected" /\ w.resp = "error"
      BY <2>1 DEF Txn, Clear, Statuses
    <2> HIDE DEF w
    <2>3. y \in Completes(FwSend(w, "END_RESP"))
      BY <1>5, <2>1 DEF ErrorResponse, w, v, Clear
    <2>4. /\ y \in Txn /\ FwKeeps(y, w) /\ y.sc = FALSE /\ y.serr = FALSE
          /\ y.fwq = Append(w.fwq, Msg("END_RESP", w.bv, w.resp))
      BY <2>2, <2>3, GsgpEndResp DEF Clear
    <2>5. GsgpResponse(y)
      BY <2>2, <2>4, <1>2, <1>3, Fifo DEF GsgpResponse, FwKeeps, Clear, Queues, Quiet, At, IsWrite, AllSent
    <2> QED BY <2>2, <2>4, <2>5 DEF Good, Stage, GsgpStage, FwKeeps
  <1> QED BY <1>4, <1>5

(* The user of the slave accepts a request. *)
LEMMA GsgpAckRequest ==
  ASSUME conf \in Confs, conf.link = "gsgp", NEW x, Good(x), x.su = "req",
         NEW y \in AckRequest(AfterRequest(x))
  PROVE  Good(y) /\ y.cmd = x.cmd /\ y.su = IF IsWrite(x) THEN "wait" ELSE "resp"
  <1>1. x \in Txn /\ x.assert /\ x.legal /\ GsgpStage(x)
    BY DEF Good, Stage
  <1>2. /\ Clear(x) /\ x.resp = "incomplete" /\ x.sent = 0 /\ x.bv = 0 /\ x.mu = "req" /\ Quiet(x)
    BY <1>1 DEF GsgpStage, GsgpRequest, GsgpData, GsgpResponse, GsgpFailed, Resting, At
  <1> DEFINE w == AfterRequest(x)
  <1>3. /\ w \in Txn /\ Clear(w) /\ w.resp = "incomplete" /\ w.sent = 0 /\ w.bv = 0 /\ w.mu = "req" /\ w.bwq = <<>>
        /\ w.fwq = <<>> /\ w.cmd = x.cmd /\ w.su = (IF IsWrite(x) THEN "wait" ELSE "resp") /\ w.assert /\ w.legal
    BY <1>1, <1>2 DEF Txn, AfterRequest, Quiet, Queues, Clear
  <1> HIDE DEF w
  <1>4. PICK r \in BwSend(w, "END_REQ") : y = r.x
    BY <1>3 DEF AckRequest, Gsgp, Sent, w, Clear
  <1>5. /\ r.x \in Txn /\ BwKeeps(r.x, w) /\ r.x.mc = FALSE /\ r.x.req = (w.req /\ "END_REQ" # "END_REQ")
        /\ r.x.bwq = Append(w.bwq, Msg("END_REQ", w.bv, w.resp))
    BY <1>3, GsgpBwSend, ZenonT(60) DEF Phases, GsgpHeard
  <1>6. GsgpRequest(y)
    BY <1>3, <1>4, <1>5, Fifo, ZenonT(60) DEF GsgpRequest, BwKeeps, Clear, Queues, Quiet, At, IsWrite
  <1> QED BY <1>3, <1>4, <1>5, <1>6 DEF Good, Stage, GsgpStage, BwKeeps

(* The user of the slave accepts data. *)
LEMMA GsgpAckData ==
  ASSUME conf \in Confs, conf.link = "gsgp", NEW x, Good(x), x.su = "data",
         NEW y \in AckData(AfterData(x))
  PROVE  Good(y)
  <1>1. x \in Txn /\ x.assert /\ x.legal /\ GsgpStage(x)
    BY DEF Good, Stage
  <1>2. /\ Clear(x) /\ ~x.req /\ IsWrite(x) /\ x.resp = "incomplete" /\ x.mu = "data" /\ Quiet(x) /\ x.bv = x.sent
    BY <1>1 DEF GsgpStage, GsgpRequest, GsgpData, GsgpResponse, GsgpFailed, Resting, At
  <1>0. x.sent \in 0 .. Burst /\ Burst \in Nat
    BY <1>1, BurstAssumption DEF Txn
  <1> DEFINE w == AfterData(x)
  <1>3. /\ w \in Txn /\ Clear(w) /\ w.req = x.req /\ w.resp = "incomplete" /\ w.sent = x.sent /\ w.bv = x.sent /\ w.mu = "data" /\ w.bwq = <<>>
        /\ w.fwq = <<>> /\ w.cmd = "write" /\ w.assert /\ w.legal
        /\ IF x.sent < Burst THEN w.su = "wait"
           ELSE IF conf.wr_resp THEN w.su = "resp" ELSE w.su = "done" /\ w.sout = "ok"
    <2>1. CASE x.sent < Burst
      <3>1. w = [x EXCEPT !.su = "wait"]
        BY <2>1, <1>2 DEF AfterData
      <3> QED BY <3>1, <2>1, <1>1, <1>2 DEF Txn, Quiet, Queues, Clear, IsWrite
    <2>2. CASE ~(x.sent < Burst) /\ conf.wr_resp
      <3>1. w = [x EXCEPT !.su = "resp"]
        BY <2>2, <1>2 DEF AfterData
      <3> QED BY <3>1, <2>2, <1>1, <1>2 DEF Txn, Quiet, Queues, Clear, IsWrite
    <2>3. CASE ~(x.sent < Burst) /\ ~conf.wr_resp
      <3>1. w = [x EXCEPT !.su = "done", !.sout = "ok"]
        BY <2>3, <1>2 DEF AfterData, SlaveDone
      <3> QED BY <3>1, <2>3, <1>1, <1>2, ZenonT(60) DEF Txn, Quiet, Queues, Clear, IsWrite
    <2> QED BY <2>1, <2>2, <2>3
  <1> HIDE DEF w
  <1>4. PICK r \in BwSend(w, "END_DATA") : y = r.x
    BY <1>3 DEF AckData, Gsgp, Sent, w, Clear
  <1>5. /\ r.x \in Txn /\ BwKeeps(r.x, w) /\ r.x.mc = FALSE /\ r.x.req = (w.req /\ "END_DATA" # "END_REQ")
        /\ r.x.bwq = Append(w.bwq, Msg("END_DATA", w.bv, w.resp))
    BY <1>3, GsgpBwSend, ZenonT(60) DEF Phases, GsgpHeard
  <1>7. y.bwq = <<Msg("END_DATA", x.sent, "incomplete")>>
    BY <1>3, <1>4, <1>5, Fifo
  <1>9. ~y.req /\ ~y.mc
    BY <1>2, <1>3, <1>4, <1>5
  <1>8. /\ ~y.sc /\ ~y.serr /\ y.resp = "incomplete" /\ y.sent = x.sent /\ y.mu = "data"
        /\ y.fwq = <<>> /\ y.cmd = "write" /\ y.su = w.su /\ y.sout = w.sout
    BY <1>3, <1>4, <1>5 DEF BwKeeps, Clear
  <1>6. GsgpData(y)
    BY <1>0, <1>3, <1>7, <1>8, <1>9 DEF GsgpData, Clear, Queues, Quiet, At, IsWrite, AllSent
  <1> QED BY <1>3, <1>4, <1>5, <1>6 DEF Good, Stage, GsgpStage, BwKeeps

(* The user of the slave responds. *)
LEMMA GsgpResponds ==
  ASSUME conf \in Confs, conf.link = "gsgp", NEW x, Good(x), x.su = "resp",
         NEW c \in 1 .. Burst, IsWrite(x) => c = Burst, NEW e \in {"ok", "error"},
         NEW y \in Respond(x, c, e)
  PROVE  Good(y)
  <1>1. x \in Txn /\ x.assert /\ x.legal /\ GsgpStage(x)
    BY DEF Good, Stage
  <1>2. /\ Clear(x) /\ ~x.req /\ (IsWrite(x) => conf.wr_resp) /\ x.fwq = <<>>
        /\ \/ x.mu = "req" /\ ~IsWrite(x) /\ x.bwq = <<Msg("END_REQ", 0, "incomplete")>>
           \/ x.mu = "data" /\ IsWrite(x) /\ x.bwq = <<Msg("END_DATA", Burst, "incomplete")>>
           \/ x.mu = "resp" /\ x.bwq = <<>>
    BY <1>1 DEF GsgpStage, GsgpRequest, GsgpData, GsgpResponse, GsgpFailed, Resting, At, AllSent, Quiet, Queues
  <1>0. c \in 0 .. Burst
    BY BurstAssumption
  <1> DEFINE u == [x EXCEPT !.resp = e, !.sout = e, !.su = "respwait", !.sent = c]
             ok == ~u.sc /\ u.resp # "incomplete" /\ (IsWrite(u) => conf.wr_resp)
             v == Check(u, ok)
             w == [v EXCEPT !.bv = c]
  <1>3. /\ u \in Txn /\ Clear(u) /\ u.req = x.req /\ u.resp = e /\ u.sout = e /\ u.sent = c /\ u.su = "respwait"
        /\ u.mu = x.mu /\ u.bwq = x.bwq /\ u.fwq = <<>> /\ u.cmd = x.cmd /\ u.assert /\ u.legal
    BY <1>0, <1>1, <1>2 DEF Txn, Clear, Statuses
  <1> HIDE DEF u
  <1>4. v = u
    <2>1. v = [u EXCEPT !.assert = TRUE]
      BY <1>2, <1>3 DEF Check, Clear, IsWrite
    <2> QED BY <2>1, <1>3, Holding
  <1> HIDE DEF v
  <1>5. /\ w \in Txn /\ Clear(w) /\ w.req = x.req /\ w.resp = e /\ w.sout = e /\ w.sent = c /\ w.su = "respwait"
        /\ w.mu = x.mu /\ w.bwq = x.bwq /\ w.fwq = <<>> /\ w.cmd = x.cmd /\ w.assert /\ w.legal /\ w.bv = c
    BY <1>0, <1>3, <1>4 DEF Txn, Clear
  <1>6. PICK r \in BwSend(w, "BEGIN_RESP") :
          y = IF Ended(r) THEN [FwEnq(r.x, "END_RESP") EXCEPT !.sc = @ \/ r.ret = "COMPLETED"] ELSE r.x
    BY DEF Respond, Response, Gsgp, u, v, w, ok
  <1> HIDE DEF w
  <1>7. /\ r.x \in Txn /\ BwKeeps(r.x, w) /\ r.x.mc = FALSE /\ r.x.req = (w.req /\ "BEGIN_RESP" # "END_REQ")
        /\ r.x.bwq = Append(w.bwq, Msg("BEGIN_RESP", w.bv, w.resp))
        /\ r.ret = (IF "BEGIN_RESP" = "BEGIN_RESP" /\ w.req /\ w.resp # "ok" THEN "COMPLETED" ELSE "ACCEPTED") /\ r.ph = "none"
    BY <1>5, GsgpBwSend, ZenonT(60) DEF Phases, GsgpHeard
  <1>8. y = r.x
    BY <1>2, <1>5, <1>6, <1>7 DEF Ended
  <1>10. /\ Clear(y) /\ ~y.req /\ y.sent = c /\ y.sout = e /\ y.mu = x.mu /\ y.su = "respwait"
         /\ y.fwq = <<>> /\ y.cmd = x.cmd /\ y.bwq = Append(x.bwq, Msg("BEGIN_RESP", c, e))
    BY <1>2, <1>5, <1>7, <1>8 DEF BwKeeps, Clear
  <1>11. \/ y.mu = "req" /\ ~IsWrite(y) /\ y.bwq = <<Msg("END_REQ", 0, "incomplete"), Msg("BEGIN_RESP", c, e)>>
         \/ y.mu = "data" /\ IsWrite(y) /\ y.bwq = <<Msg("END_DATA", Burst, "incomplete"), Msg("BEGIN_RESP", c, e)>>
         \/ y.mu = "resp" /\ y.bwq = <<Msg("BEGIN_RESP", c, e)>>
    <2> DEFINE m == Msg("BEGIN_RESP", c, e)
               n == Msg("END_REQ", 0, "incomplete")
               d == Msg("END_DATA", Burst, "incomplete")
    <2> HIDE DEF m, n, d
    <2>0. y.bwq = Append(x.bwq, m) /\ y.mu = x.mu /\ (IsWrite(y) <=> IsWrite(x))
      BY <1>10 DEF IsWrite, m
    <2>1. CASE x.mu = "req" /\ ~IsWrite(x) /\ x.bwq = <<n>>
      <3>1. y.bwq = <<n, m>>
        BY <2>0, <2>1, Fifo
      <3> QED BY <2>0, <2>1, <3>1 DEF m, n
    <2>2. CASE x.mu = "data" /\ IsWrite(x) /\ x.bwq = <<d>>
      <3>1. y.bwq = <<d, m>>
        BY <2>0, <2>2, Fifo
      <3> QED BY <2>0, <2>2, <3>1 DEF m, d
    <2>3. CASE x.mu = "resp" /\ x.bwq = <<>>
      <3>1. y.bwq = <<m>>
        BY <2>0, <2>3, Fifo
      <3> QED BY <2>0, <2>3, <3>1 DEF m
    <2> QED BY <1>2, <2>1, <2>2, <2>3 DEF n, d
  <1>12. IsWrite(y) => AllSent(y)
    BY <1>2, <1>10 DEF IsWrite, AllSent
  <1>9. GsgpResponse(y)
    BY <1>10, <1>11, <1>12 DEF GsgpResponse, Queues
  <1> QED BY <1>5, <1>7, <1>8, <1>9 DEF Good, Stage, GsgpStage, BwKeeps

(* The user of the slave answers a request or data with an error. *)
LEMMA GsgpErrors ==
  ASSUME conf \in Confs, conf.link = "gsgp", NEW x, Good(x),
         NEW ph, (x.su = "req" /\ ph = "BEGIN_RESP") \/ (x.su = "data" /\ ph = "END_DATA"),
         NEW y \in SendError(SlaveDone(x, "error"), ph)
  PROVE  Good(y)
  <1>1. x \in Txn /\ x.assert /\ x.legal /\ GsgpStage(x)
    BY DEF Good, Stage
  <1>2. /\ Clear(x) /\ Quiet(x) /\ ph \in Phases
        /\ \/ x.su = "req" /\ x.mu = "req" /\ x.req /\ x.bv = 0
           \/ x.su = "data" /\ x.mu = "data" /\ ~x.req /\ IsWrite(x) /\ x.bv = x.sent
    BY <1>1 DEF GsgpStage, GsgpRequest, GsgpData, GsgpResponse, GsgpFailed, Resting, At, Phases
  <1> DEFINE u == SlaveDone(x, "error")
             v == Check(u, ~u.sc)
             w == [v EXCEPT !.resp = "error", !.serr = TRUE]
  <1>3. /\ u \in Txn /\ Clear(u) /\ u.req = x.req /\ u.sout = "error" /\ u.sent = x.sent /\ u.su = "done"
        /\ u.mu = x.mu /\ u.bwq = <<>> /\ u.fwq = <<>> /\ u.cmd = x.cmd /\ u.assert /\ u.legal /\ u.bv = x.bv
    BY <1>1, <1>2 DEF Txn, Clear, SlaveDone, Quiet, Queues
  <1> HIDE DEF u
  <1>4. v = u
    <2>1. v = [u EXCEPT !.assert = TRUE]
      BY <1>3 DEF Check, Clear
    <2> QED BY <2>1, <1>3, Holding
  <1> HIDE DEF v
  <1>5. /\ w \in Txn /\ ~w.mc /\ w.req = x.req /\ w.resp = "error" /\ w.sout = "error" /\ w.sent = x.sent /\ w.su = "done"
        /\ w.mu = x.mu /\ w.bwq = <<>> /\ w.fwq = <<>> /\ w.cmd = x.cmd /\ w.assert /\ w.legal /\ w.bv = x.bv
    BY <1>3, <1>4 DEF Txn, Clear, Statuses
  <1>6. PICK r \in BwSend(w, ph) : y = [r.x EXCEPT !.sc = @ \/ Ended(r)]
    BY DEF SendError, u, v, w
  <1> HIDE DEF w
  <1>7. /\ r.x \in Txn /\ BwKeeps(r.x, w) /\ r.x.mc = FALSE /\ r.x.req = (w.req /\ ph # "END_REQ")
        /\ r.x.bwq = Append(w.bwq, Msg(ph, w.bv, w.resp))
    <2>1. ph \in Phases /\ w \in Txn /\ r \in BwSend(w, ph)
      BY <1>2, <1>5, <1>6
    <2>2. GsgpHeard(r, w, ph)
      BY <2>1, GsgpBwSend, Zenon
    <2> QED BY <2>2 DEF GsgpHeard
  <1> DEFINE z == r.x
             s == z.sc \/ Ended(r)
  <1>8. s \in BOOLEAN
    BY <1>7 DEF Txn, Ended
  <1>9. y = [z EXCEPT !.sc = s]
    BY <1>6
  <1> HIDE DEF z, s
  <1>10. /\ y \in Txn /\ y.mc = FALSE /\ y.req = z.req /\ y.sout = z.sout /\ y.sent = z.sent /\ y.su = z.su
        /\ y.mu = z.mu /\ y.bwq = z.bwq /\ y.fwq = z.fwq /\ y.cmd = z.cmd /\ y.assert = z.assert /\ y.legal = z.legal
    BY <1>7, <1>8, <1>9 DEF Txn, z
  <1>12. y.bwq = <<Msg(ph, x.bv, "error")>>
    BY <1>5, <1>7, <1>10, Fifo DEF z
  <1>13. /\ y.sout = "error" /\ y.sent = x.sent /\ y.su = "done" /\ y.mu = x.mu /\ y.fwq = <<>> /\ y.cmd = x.cmd
         /\ y.req = (x.req /\ ph # "END_REQ")
    BY <1>5, <1>7, <1>10 DEF BwKeeps, z
  <1>11. GsgpFailed(y)
    BY <1>1, <1>2, <1>10, <1>12, <1>13 DEF GsgpFailed, Queues, IsWrite
  <1> QED BY <1>5, <1>7, <1>10, <1>11 DEF Good, Stage, GsgpStage, BwKeeps, z

(* fw_peq_cb between two GSGP sockets *)
LEMMA GsgpSlaveGets ==
  ASSUME conf \in Confs, conf.link = "gsgp", NEW x, Good(x), x.fwq # <<>>
  PROVE  Good(SlaveGets(x))
  <1> DEFINE y == SlaveGets(x)
  <1>1. x \in Txn /\ x.assert /\ x.legal /\ GsgpStage(x)
    BY DEF Good, Stage
  <1>2. Gsgp /\ conf.wr_resp \in BOOLEAN
    BY DEF Gsgp, Confs
  <1>3. x.sent \in 0 .. Burst /\ Burst \in Nat /\ Burst > 0 /\ 0 \in 0 .. Burst /\ x.sout \in {"none", "ok", "error"}
    BY <1>1, BurstAssumption DEF Txn
  <1>4. CASE GsgpRequest(x)
    <2>1. /\ x.fwq = <<Msg("BEGIN_REQ", 0, "incomplete")>> /\ x.bwq = <<>> /\ x.req /\ x.mu = "req" /\ x.su = "idle"
          /\ Clear(x) /\ x.sent = 0
      BY <1>4 DEF GsgpRequest, Queues, Quiet, At
    <2>2. Head(x.fwq) = Msg("BEGIN_REQ", 0, "incomplete") /\ Tail(x.fwq) = <<>>
      BY <2>1, Fifo
    <2>3. /\ y \in Txn /\ SlaveKeeps(y, x) /\ y.fwq = Tail(x.fwq) /\ y.resp = "incomplete" /\ y.bv = 0
          /\ SlaveMoves(y, x, GreenBusPhase("BEGIN_REQ", "incomplete", FALSE))
      BY <1>1, <1>3, <2>2, SlaveTakes DEF Phases, Statuses, SlaveTook
    <2> HIDE DEF y
    <2>4. y.legal = x.legal /\ y.su = "req"
      BY <2>1, <2>3 DEF SlaveMoves, GreenBusPhase
    <2>5. GsgpRequest(y)
      BY <2>1, <2>2, <2>3, <2>4 DEF SlaveKeeps, GsgpRequest, Clear, Queues, Quiet, At
    <2> QED BY <1>1, <2>3, <2>4, <2>5 DEF Good, Stage, GsgpStage, SlaveKeeps, y
  <1>5. CASE GsgpData(x)
    <2>1. /\ x.fwq = <<Msg("BEGIN_DATA", x.sent, "incomplete")>> /\ x.bwq = <<>> /\ ~x.req /\ x.mu = "data" /\ x.su = "wait"
          /\ Clear(x) /\ IsWrite(x)
      BY <1>5 DEF GsgpData, Queues, Quiet, At
    <2>2. Head(x.fwq) = Msg("BEGIN_DATA", x.sent, "incomplete") /\ Tail(x.fwq) = <<>>
      BY <2>1, Fifo
    <2>3. /\ y \in Txn /\ SlaveKeeps(y, x) /\ y.fwq = Tail(x.fwq) /\ y.resp = "incomplete" /\ y.bv = x.sent
          /\ SlaveMoves(y, x, GreenBusPhase("BEGIN_DATA", "incomplete", FALSE))
      BY <1>1, <1>3, <2>1, <2>2, SlaveTakes DEF Phases, Statuses, SlaveTook
    <2> HIDE DEF y
    <2>4. y.legal = x.legal /\ y.su = "data"
      BY <1>2, <2>1, <2>3 DEF SlaveMoves, GreenBusPhase
    <2>5. GsgpData(y)
      BY <2>1, <2>2, <2>3, <2>4 DEF SlaveKeeps, GsgpData, Clear, Queues, Quiet, At, IsWrite
    <2> QED BY <1>1, <2>3, <2>4, <2>5 DEF Good, Stage, GsgpStage, SlaveKeeps, y
  <1>6. CASE GsgpResponse(x)
    <2>1. PICK r \in {"ok", "error"} :
            /\ x.fwq = <<Msg("END_RESP", x.sent, r)>> /\ x.bwq = <<>> /\ ~x.req /\ x.su = "respwait"
            /\ Clear(x) /\ (IsWrite(x) => AllSent(x)) /\ x.sout # "none"
            /\ \/ x.mu = "resp" /\ ~IsWrite(x) /\ x.sent < Burst /\ x.sout = "ok" /\ r = "ok"
               \/ x.mu = "done" /\ x.mout = x.sout /\ (x.sout = "ok" => x.sent = Burst) /\ r = x.sout
               \/ x.mu = "done" /\ x.mout = "rejected" /\ r = "error"
      BY <1>3, <1>6 DEF GsgpResponse, Queues, Quiet, At
    <2>2. Head(x.fwq) = Msg("END_RESP", x.sent, r) /\ Tail(x.fwq) = <<>>
      BY <2>1, Fifo
    <2> DEFINE gb == GreenBusPhase("END_RESP", r, FALSE)
    <2>3. gb \in {"ResponseError", "ResponseAccepted"} /\ (gb = "ResponseError" <=> r = "error")
      BY DEF GreenBusPhase
    <2>4. /\ y \in Txn /\ SlaveKeeps(y, x) /\ y.fwq = Tail(x.fwq) /\ y.resp = r /\ y.bv = x.sent
          /\ SlaveMoves(y, x, gb)
      <3> DEFINE b == x.sent
      <3>1. "END_RESP" \in Phases /\ r \in Statuses /\ b \in 0 .. Burst
        BY <1>3 DEF Phases, Statuses
      <3>2. Head(x.fwq) = Msg("END_RESP", b, r) /\ x.fwq # <<>>
        BY <2>1, <2>2, Fifo
      <3> HIDE DEF y, gb, b
      <3>3. SlaveTook(SlaveGets(x), x, "END_RESP", b, r)
        BY <1>1, <3>1, <3>2, SlaveTakes, Zenon
      <3> QED BY <3>3 DEF y, gb, b, SlaveTook
    <2> HIDE DEF y, gb
    <2>5. /\ y.legal = x.legal
          /\ IF r = "error" \/ x.sout = "error" THEN y.su = "done" /\ y.sout = "error"
             ELSE IF x.sent < Burst THEN y.su = "resp" ELSE y.su = "done" /\ y.sout = "ok"
      BY <2>1, <2>3, <2>4 DEF SlaveMoves
    <2>6. /\ y.mu = x.mu /\ y.mout = x.mout /\ Quiet(y) /\ Clear(y) /\ ~y.req /\ y.cmd = x.cmd /\ y.sent = x.sent
      BY <2>1, <2>2, <2>4 DEF SlaveKeeps, Quiet, Queues, Clear
    <2>7. GsgpResponse(y) \/ Resting(y)
      BY <1>3, <2>1, <2>5, <2>6 DEF GsgpResponse, Resting, Agree, At, IsWrite, AllSent
    <2> QED BY <1>1, <2>4, <2>5, <2>7 DEF Good, Stage, GsgpStage, SlaveKeeps, y
  <1> QED BY <1>1, <1>4, <1>5, <1>6 DEF GsgpStage, GsgpFailed, Resting, Quiet, Queues

(* fw_peq_cb and nb_from_f between two GSGP sockets *)
LEMMA GsgpSlavePeq ==
  ASSUME conf \in Confs, conf.link = "gsgp", NEW x, Good(x), x.fwq # <<>>, NEW y \in FwPeq(x)
  PROVE  Good(y)
  <1> DEFINE z == SlaveGets(x)
  <1>1. Good(z)
    BY GsgpSlaveGets
  <1>2. y \in IF conf.style = "f" THEN NbFromF(z) ELSE {z}
    BY DEF FwPeq, SlaveGets
  <1> HIDE DEF z
  <1>3. CASE y = z
    BY <1>1, <1>3
  <1>4. CASE z.su = "req" /\ y \in NbFromF(z)
    <2>1. PICK v \in AckRequest(AfterRequest(z)) : y \in IF IsWrite(v) THEN {v} ELSE Respond(v, Burst, "ok")
      BY <1>4 DEF NbFromF
    <2>2. Good(v) /\ v.cmd = z.cmd /\ v.su = IF IsWrite(z) THEN "wait" ELSE "resp"
      BY <1>1, <1>4, GsgpAckRequest
    <2>3. CASE y = v
      BY <2>2, <2>3
    <2>4. CASE ~IsWrite(v) /\ y \in Respond(v, Burst, "ok")
      <3>1. v.su = "resp"
        BY <2>2, <2>4 DEF IsWrite
      <3>2. Burst \in 1 .. Burst
        BY BurstAssumption
      <3> QED BY <2>2, <2>4, <3>1, <3>2, GsgpResponds
    <2> QED BY <2>1, <2>3, <2>4
  <1>5. CASE z.su = "data" /\ y \in NbFromF(z)
    <2>1. y \in AckData(AfterData(z))
      BY <1>5 DEF NbFromF
    <2> QED BY <1>1, <1>5, <2>1, GsgpAckData
  <1>6. CASE z.su # "req" /\ z.su # "data" /\ y \in NbFromF(z)
    <2>1. y = z
      BY <1>6 DEF NbFromF
    <2> QED BY <2>1, <1>1
  <1> QED BY <1>2, <1>3, <1>4, <1>5, <1>6
-----------------------------------------------------------------------------
(* A message is queued for the user of the master, or of the slave. *)
BwEnqueued(y, x, m) ==
  /\ y \in Txn /\ y.bwq = Append(x.bwq, m) /\ BwKeeps(y, x) /\ y.mc = x.mc /\ y.req = x.req
FwEnqueued(y, x, m) ==
  /\ y \in Txn /\ y.fwq = Append(x.fwq, m) /\ FwKeeps(y, x) /\ y.sc = x.sc /\ y.serr = x.serr

(* What the two queueing operators do *)
LEMMA Enqueues ==
  ASSUME NEW x \in Txn, NEW ph \in Phases
  PROVE  /\ BwEnqueued(BwEnq(x, ph), x, Msg(ph, x.bv, x.resp))
         /\ FwEnqueued(FwEnq(x, ph), x, Msg(ph, x.bv, x.resp))
  <1> DEFINE b == Append(x.bwq, Msg(ph, x.bv, x.resp))
             f == Append(x.fwq, Msg(ph, x.bv, x.resp))
  <1>1. b \in Seq(Messages) /\ f \in Seq(Messages)
    BY Queueing
  <1>2. BwEnq(x, ph) = [x EXCEPT !.bwq = b] /\ FwEnq(x, ph) = [x EXCEPT !.fwq = f]
    BY DEF BwEnq, FwEnq, Msg
  <1> HIDE DEF b, f
  <1>3. LET y == [x EXCEPT !.bwq = b] IN
        y \in Txn /\ y.bwq = b /\ BwKeeps(y, x) /\ y.mc = x.mc /\ y.req = x.req
    BY <1>1 DEF Txn, BwKeeps
  <1>4. LET y == [x EXCEPT !.fwq = f] IN
        y \in Txn /\ y.fwq = f /\ FwKeeps(y, x) /\ y.sc = x.sc /\ y.serr = x.serr
    BY <1>1 DEF Txn, FwKeeps
  <1> QED BY <1>2, <1>3, <1>4 DEF BwEnqueued, FwEnqueued, b, f

(* What a base protocol target leaves alone *)
TargetKeeps(y, x) ==
  /\ y \in Txn /\ y.cmd = x.cmd /\ y.bv = x.bv /\ y.mc = x.mc /\ y.req = x.req
  /\ y.bwq = x.bwq /\ y.fwq = x.fwq /\ y.mu = x.mu /\ y.sent = x.sent /\ y.mout = x.mout
  /\ y.assert = x.assert /\ y.legal = x.legal

(* The answers of a base protocol target to a request *)
LEMMA TargetAnswers ==
  ASSUME NEW x \in Txn, NEW r \in TargetReceives(x, "BEGIN_REQ")
  PROVE  /\ TargetKeeps(r.x, x)
         /\ \/ r.ret = "ACCEPTED" /\ r.x.su = "req" /\ r.x.resp = x.resp
            \/ r.ret = "UPDATED" /\ r.ph = "END_REQ" /\ r.x.su = "work" /\ r.x.resp = x.resp
            \/ /\ r.ret = "UPDATED" /\ r.ph = "END_REQ"
               /\ r.x.su = "done" /\ r.x.resp = "error" /\ r.x.sout = "error"
            \/ /\ r.ret = "COMPLETED" /\ r.x.su = "done"
               /\ r.x.resp = r.x.sout /\ r.x.sout \in {"ok", "error"}
            \/ /\ r.ret = "UPDATED" /\ r.ph = "BEGIN_RESP" /\ r.x.su = "respwait"
               /\ r.x.resp = r.x.sout /\ r.x.sout \in {"ok", "error"}
  <1>1. ASSUME NEW s \in {"req", "work"}, NEW y, y = [x EXCEPT !.su = s]
        PROVE  TargetKeeps(y, x) /\ y.su = s /\ y.resp = x.resp
    BY <1>1 DEF TargetKeeps, Txn
  <1>2. ASSUME NEW s \in {"done", "respwait"}, NEW e \in {"ok", "error"},
               NEW y, y = [x EXCEPT !.resp = e, !.su = s, !.sout = e]
        PROVE  TargetKeeps(y, x) /\ y.su = s /\ y.resp = e /\ y.sout = e
    BY <1>2, ZenonT(60) DEF TargetKeeps, Txn, Statuses
  <1>3. \/ r = Result([x EXCEPT !.su = "req"], "ACCEPTED", "none")
        \/ r = Result([x EXCEPT !.su = "work"], "UPDATED", "END_REQ")
        \/ r = Result([x EXCEPT !.resp = "error", !.su = "done", !.sout = "error"], "UPDATED", "END_REQ")
        \/ \E e \in {"ok", "error"} :
             r = Result([x EXCEPT !.resp = e, !.su = "done", !.sout = e], "COMPLETED", "none")
        \/ \E e \in {"ok", "error"} :
             r = Result([x EXCEPT !.resp = e, !.su = "respwait", !.sout = e], "UPDATED", "BEGIN_RESP")
    <2>1. \A e : SlaveDone([x EXCEPT !.resp = e], e) = [x EXCEPT !.resp = e, !.su = "done", !.sout = e]
      BY DEF SlaveDone, Txn
    <2> QED BY <2>1 DEF TargetReceives, Accepted
  <1>4. \A y, ret, ph : Result(y, ret, ph).x = y /\ Result(y, ret, ph).ret = ret /\ Result(y, ret, ph).ph = ph
    BY DEF Result
  <1>5. CASE r = Result([x EXCEPT !.su = "req"], "ACCEPTED", "none")
    BY <1>1, <1>4, <1>5
  <1>6. CASE r = Result([x EXCEPT !.su = "work"], "UPDATED", "END_REQ")
    BY <1>1, <1>4, <1>6
  <1>7. CASE r = Result([x EXCEPT !.resp = "error", !.su = "done", !.sout = "error"], "UPDATED", "END_REQ")
    BY <1>2, <1>4, <1>7
  <1>8. ASSUME NEW e \in {"ok", "error"},
               r = Result([x EXCEPT !.resp = e, !.su = "done", !.sout = e], "COMPLETED", "none")
        PROVE  /\ r.ret = "COMPLETED" /\ TargetKeeps(r.x, x) /\ r.x.su = "done"
               /\ r.x.resp = r.x.sout /\ r.x.sout \in {"ok", "error"}
    <2> DEFINE y == [x EXCEPT !.resp = e, !.su = "done", !.sout = e]
    <2>1. TargetKeeps(y, x) /\ y.su = "done" /\ y.resp = e /\ y.sout = e
      BY <1>2
    <2> HIDE DEF y
    <2>2. r.x = y
      BY <1>8 DEF Result, y
    <2> QED BY <2>1, <2>2, <1>8 DEF Result
  <1>9. ASSUME NEW e \in {"ok", "error"},
               r = Result([x EXCEPT !.resp = e, !.su = "respwait", !.sout = e], "UPDATED", "BEGIN_RESP")
        PROVE  /\ r.ret = "UPDATED" /\ r.ph = "BEGIN_RESP" /\ TargetKeeps(r.x, x) /\ r.x.su = "respwait"
               /\ r.x.resp = r.x.sout /\ r.x.sout \in {"ok", "error"}
    <2> DEFINE y == [x EXCEPT !.resp = e, !.su = "respwait", !.sout = e]
    <2>1. TargetKeeps(y, x) /\ y.su = "respwait" /\ y.resp = e /\ y.sout = e
      BY <1>2
    <2> HIDE DEF y
    <2>2. r.x = y
      BY <1>9 DEF Result, y
    <2> QED BY <2>1, <2>2, <1>9 DEF Result
  <1> QED BY <1>3, <1>5, <1>6, <1>7, <1>8, <1>9

(* A base protocol target takes the end of the response. *)
LEMMA TargetEnds ==
  ASSUME NEW x \in Txn, x.sout # "none" \/ Err(x), NEW r \in TargetReceives(x, "END_RESP")
  PROVE  /\ TargetKeeps(r.x, x) /\ r.x.resp = x.resp /\ r.x.su = "done"
         /\ r.x.sout = IF Err(x) THEN "error" ELSE x.sout
  <1> DEFINE o == IF Err(x) THEN "error" ELSE x.sout
             y == [x EXCEPT !.su = "done", !.sout = o]
  <1>1. o \in {"ok", "error"}
    BY DEF Txn
  <1> HIDE DEF o
  <1>2. TargetKeeps(y, x) /\ y.resp = x.resp /\ y.su = "done" /\ y.sout = o
    BY <1>1 DEF TargetKeeps, Txn
  <1>3. r = Result(y, "ACCEPTED", "none") \/ r = Result(y, "COMPLETED", "none")
    BY DEF TargetReceives, Accepted, SlaveDone, o
  <1> HIDE DEF y
  <1>4. r.x = y
    BY <1>3 DEF Result
  <1> QED BY <1>2, <1>4 DEF o

(* The user of the master starts a transaction with a base protocol target. *)
LEMMA TargetRequests ==
  ASSUME conf \in Confs, conf.link = "target", NEW x, Good(x), Free(x), NEW cmd \in {"read", "write"},
         NEW y \in Request(Start(x, cmd))
  PROVE  Good(y)
  <1>1. x \in Txn /\ x.assert /\ x.legal
    BY DEF Good
  <1> DEFINE v == Start(x, cmd)
             w == Begin(v)
             none == Msg("END_REQ", 0, "incomplete")
  <1>2. /\ v \in Txn /\ v.cmd = cmd /\ v.resp = "incomplete" /\ At(v, "req", "idle") /\ v.sent = 0
        /\ Quiet(v) /\ v.assert /\ v.legal
    BY <1>1, Starting
  <1>3. y \in IF IsWrite(v) THEN {BwEnq(w, "END_REQ")}
              ELSE UNION {RequestReturns(r) : r \in FwSend(w, "BEGIN_REQ")}
    BY DEF Request, Gsgp
  <1>4. ~Gsgp /\ Burst \in 0 .. Burst /\ 0 \in 0 .. Burst /\ Burst \in Nat /\ Burst > 0
    BY BurstAssumption DEF Gsgp
  <1> HIDE DEF v
  <1>5. /\ w \in Txn /\ w.cmd = cmd /\ w.resp = "incomplete" /\ w.mu = "req" /\ w.su = "idle" /\ w.sent = 0
        /\ w.bwq = <<>> /\ w.fwq = <<>> /\ w.assert /\ w.legal /\ ~w.mc /\ w.req /\ w.bv = 0
    BY <1>2, Beginning DEF At, Quiet, Queues
  <1> HIDE DEF w
  <1>6. (IsWrite(v) <=> IsWrite(w)) /\ (IsWrite(w) <=> cmd = "write")
    BY <1>2, <1>5 DEF IsWrite
  <1>7. CASE y = BwEnq(w, "END_REQ") /\ IsWrite(w)
    <2>1. BwEnqueued(y, w, none)
      BY <1>5, <1>7, Enqueues DEF Phases
    <2>2. y.bwq = <<none>>
      BY <1>5, <2>1, Fifo DEF BwEnqueued
    <2>3. TargetWrite(y)
      BY <1>5, <1>7, <2>1, <2>2 DEF BwEnqueued, BwKeeps, TargetWrite, Queues, Quiet, At, IsWrite
    <2> QED BY <1>5, <2>1, <2>3 DEF Good, Stage, TargetStage, BwEnqueued, BwKeeps
  <1>8. ASSUME NEW r \in TargetReceives(w, "BEGIN_REQ"), y \in RequestReturns(r), ~IsWrite(w)
        PROVE  Good(y)
    <2> DEFINE z == r.x
    <2>1. TargetKeeps(z, w) /\ ~IsWrite(z)
      BY <1>5, <1>8, TargetAnswers DEF TargetKeeps, IsWrite
    <2>2. /\ z \in Txn /\ z.mu = "req" /\ z.sent = 0 /\ z.bwq = <<>> /\ z.fwq = <<>> /\ z.assert /\ z.legal
          /\ ~z.mc /\ z.req /\ z.bv = 0
      BY <1>5, <2>1 DEF TargetKeeps
    <2>3. CASE r.ret = "ACCEPTED" /\ z.su = "req" /\ z.resp = w.resp
      <3>1. y = z
        BY <1>8, <2>3 DEF RequestReturns
      <3>2. TargetRead(z)
        BY <1>5, <2>1, <2>2, <2>3 DEF TargetRead, Quiet, Queues, At
      <3> QED BY <2>2, <3>1, <3>2 DEF Good, Stage, TargetStage
    <2>4. CASE r.ret = "UPDATED" /\ r.ph = "END_REQ" /\ z.su \in {"work", "done"}
               /\ IF z.su = "work" THEN z.resp = w.resp ELSE z.resp = "error" /\ z.sout = "error"
      <3> DEFINE u == [z EXCEPT !.req = FALSE]
                 ph == IF Err(z) THEN "BEGIN_RESP" ELSE "END_REQ"
      <3>1. y = BwEnq(u, ph)
        BY <1>8, <2>4 DEF RequestReturns
      <3>2. /\ u \in Txn /\ u.mu = "req" /\ u.bwq = <<>> /\ u.fwq = <<>> /\ u.assert /\ u.legal
            /\ ~u.mc /\ ~u.req /\ u.bv = 0 /\ u.resp = z.resp /\ u.su = z.su /\ u.sout = z.sout /\ u.cmd = z.cmd
        BY <2>2 DEF Txn
      <3>3. ph \in Phases
        BY DEF Phases
      <3> HIDE DEF u, ph
      <3>4. BwEnqueued(y, u, Msg(ph, u.bv, u.resp))
        BY <3>1, <3>2, <3>3, Enqueues
      <3>5. y.bwq = <<Msg(ph, 0, z.resp)>>
        BY <3>2, <3>4, Fifo DEF BwEnqueued
      <3>6. TargetRead(y) \/ TargetFailed(y)
        BY <1>4, <1>5, <2>1, <2>4, <3>2, <3>4, <3>5
        DEF BwEnqueued, BwKeeps, TargetRead, TargetFailed, Queues, At, IsWrite, Err, ph
      <3> QED BY <3>2, <3>4, <3>6 DEF Good, Stage, TargetStage, BwEnqueued, BwKeeps
    <2>5. CASE r.ret = "COMPLETED" /\ z.su = "done" /\ z.resp = z.sout /\ z.sout \in {"ok", "error"}
      <3> DEFINE u == [Check(z, ~IsWrite(z)) EXCEPT !.mc = TRUE]
                 a == IF Err(u) THEN u ELSE BwEnq(u, "END_REQ")
                 b == [a EXCEPT !.bv = Burst]
                 first == IF Err(z) THEN <<>> ELSE <<Msg("END_REQ", 0, "ok")>>
      <3>1. y = BwEnq(b, "BEGIN_RESP")
        BY <1>4, <1>8, <2>5 DEF RequestReturns
      <3>2. /\ u \in Txn /\ u.mu = "req" /\ u.bwq = <<>> /\ u.fwq = <<>> /\ u.assert /\ u.legal
            /\ u.mc /\ u.req /\ u.bv = 0 /\ u.resp = z.sout /\ u.su = "done" /\ u.sout = z.sout /\ u.cmd = z.cmd
        <4>1. Check(z, ~IsWrite(z)) = [z EXCEPT !.assert = TRUE]
          BY <2>1, <2>2 DEF Check
        <4> DEFINE c == Check(z, ~IsWrite(z))
        <4>2. c = z
          BY <2>2, <4>1, Holding
        <4> HIDE DEF c
        <4> QED BY <2>2, <2>5, <4>2, ZenonT(60) DEF Txn, c
      <3> HIDE DEF u
      <3>3. Err(u) <=> Err(z)
        BY <2>5, <3>2 DEF Err
      <3>4. /\ a \in Txn /\ a.mu = "req" /\ a.bwq = first /\ a.fwq = <<>> /\ a.assert /\ a.legal
            /\ a.mc /\ a.req /\ a.bv = 0 /\ a.resp = z.sout /\ a.su = "done" /\ a.sout = z.sout /\ a.cmd = z.cmd
        <4>1. CASE Err(z)
          BY <3>2, <3>3, <4>1
        <4>2. CASE ~Err(z)
          <5>1. BwEnqueued(a, u, Msg("END_REQ", u.bv, u.resp))
            BY <3>2, <3>3, <4>2, Enqueues DEF Phases
          <5>2. z.sout = "ok"
            BY <2>5, <4>2 DEF Err
          <5> HIDE DEF a
          <5>3. a.bwq = first
            BY <3>2, <4>2, <5>1, <5>2, Fifo DEF BwEnqueued
          <5> QED BY <3>2, <5>1, <5>3 DEF BwEnqueued, BwKeeps
        <4> QED BY <4>1, <4>2
      <3> HIDE DEF a, first
      <3>5. /\ b \in Txn /\ b.mu = "req" /\ b.bwq = first /\ b.fwq = <<>> /\ b.assert /\ b.legal
            /\ b.mc /\ b.bv = Burst /\ b.resp = z.sout /\ b.su = "done" /\ b.sout = z.sout /\ b.cmd = z.cmd
        BY <1>4, <3>4 DEF Txn
      <3> HIDE DEF b
      <3>6. BwEnqueued(y, b, Msg("BEGIN_RESP", b.bv, b.resp))
        BY <3>1, <3>5, Enqueues DEF Phases
      <3>7. /\ y.mu = "req" /\ y.fwq = <<>> /\ y.mc /\ y.su = "done" /\ y.sout = z.sout /\ ~IsWrite(y)
            /\ y.bwq = Append(first, Msg("BEGIN_RESP", Burst, z.sout)) /\ y.assert /\ y.legal /\ y \in Txn
        BY <2>1, <3>5, <3>6 DEF BwEnqueued, BwKeeps, IsWrite
      <3>8. CASE z.sout = "error"
        <4>1. y.bwq = <<Msg("BEGIN_RESP", Burst, "error")>>
          BY <2>5, <3>7, <3>8, Fifo DEF first, Err
        <4>2. TargetFailed(y)
          BY <1>4, <3>7, <3>8, <4>1 DEF TargetFailed, Queues
        <4> QED BY <3>7, <4>2 DEF Good, Stage, TargetStage
      <3>9. CASE z.sout = "ok"
        <4>1. y.bwq = <<Msg("END_REQ", 0, "ok"), Msg("BEGIN_RESP", Burst, "ok")>>
          BY <2>5, <3>7, <3>9, Fifo DEF first, Err
        <4>2. TargetAnswered(y)
          BY <1>4, <3>7, <3>9, <4>1 DEF TargetAnswered, Queues
        <4> QED BY <3>7, <4>2 DEF Good, Stage, TargetStage
      <3> QED BY <2>5, <3>8, <3>9
    <2>6. CASE /\ r.ret = "UPDATED" /\ r.ph = "BEGIN_RESP" /\ z.su = "respwait"
               /\ z.resp = z.sout /\ z.sout = "ok"
      <3> DEFINE u == BwEnq(z, "END_REQ")
      <3>1. y = BwEnq(u, "BEGIN_RESP")
        BY <1>8, <2>6 DEF RequestReturns, Err
      <3>2. BwEnqueued(u, z, Msg("END_REQ", z.bv, z.resp))
        BY <2>2, Enqueues DEF Phases
      <3> HIDE DEF u
      <3>3. BwEnqueued(y, u, Msg("BEGIN_RESP", u.bv, u.resp))
        BY <3>1, <3>2, Enqueues DEF Phases, BwEnqueued
      <3>4. u.bwq = <<Msg("END_REQ", 0, "ok")>> /\ u.bv = 0 /\ u.resp = "ok"
        BY <2>2, <2>6, <3>2, Fifo DEF BwEnqueued, BwKeeps
      <3>5. y.bwq = <<Msg("END_REQ", 0, "ok"), Msg("BEGIN_RESP", 0, "ok")>>
        BY <3>3, <3>4, Fifo DEF BwEnqueued
      <3>6. /\ y.mu = "req" /\ y.fwq = <<>> /\ ~y.mc /\ y.su = "respwait" /\ y.sout = "ok" /\ ~IsWrite(y)
            /\ y.assert /\ y.legal /\ y \in Txn
        BY <2>1, <2>2, <2>6, <3>2, <3>3 DEF BwEnqueued, BwKeeps, IsWrite
      <3>7. TargetAnswered(y)
        BY <1>4, <2>6, <3>5, <3>6 DEF TargetAnswered, Queues
      <3> QED BY <3>6, <3>7 DEF Good, Stage, TargetStage
    <2>7. CASE /\ r.ret = "UPDATED" /\ r.ph = "BEGIN_RESP" /\ z.su = "respwait"
               /\ z.resp = "error" /\ z.sout = "error"
      <3>1. PICK q \in TargetReceives(z, "END_RESP") : y = BwEnq(q.x, "BEGIN_RESP")
        BY <1>8, <2>2, <2>7 DEF RequestReturns, Err, Sent, FwSend
      <3> DEFINE u == q.x
      <3>2. TargetKeeps(u, z) /\ u.resp = "error" /\ u.su = "done" /\ u.sout = "error"
        BY <2>2, <2>7, TargetEnds DEF Err
      <3> HIDE DEF u
      <3>3. BwEnqueued(y, u, Msg("BEGIN_RESP", u.bv, u.resp))
        BY <3>1, <3>2, Enqueues DEF Phases, TargetKeeps, u
      <3>4. y.bwq = <<Msg("BEGIN_RESP", 0, "error")>>
        BY <2>2, <3>2, <3>3, Fifo DEF BwEnqueued, TargetKeeps
      <3>5. /\ y.mu = "req" /\ y.fwq = <<>> /\ y.su = "done" /\ y.sout = "error" /\ ~IsWrite(y)
            /\ y.assert /\ y.legal /\ y \in Txn
        BY <2>1, <2>2, <3>2, <3>3 DEF BwEnqueued, BwKeeps, IsWrite, TargetKeeps
      <3>6. TargetFailed(y)
        BY <1>4, <3>4, <3>5 DEF TargetFailed, Queues
      <3> QED BY <3>5, <3>6 DEF Good, Stage, TargetStage
    <2>8. \/ r.ret = "ACCEPTED" /\ z.su = "req" /\ z.resp = w.resp
          \/ r.ret = "UPDATED" /\ r.ph = "END_REQ" /\ z.su = "work" /\ z.resp = w.resp
          \/ /\ r.ret = "UPDATED" /\ r.ph = "END_REQ"
             /\ z.su = "done" /\ z.resp = "error" /\ z.sout = "error"
          \/ /\ r.ret = "COMPLETED" /\ z.su = "done"
             /\ z.resp = z.sout /\ z.sout \in {"ok", "error"}
          \/ /\ r.ret = "UPDATED" /\ r.ph = "BEGIN_RESP" /\ z.su = "respwait"
             /\ z.resp = z.sout /\ z.sout \in {"ok", "error"}
      BY <1>5, <1>8, TargetAnswers
    <2> HIDE DEF z
    <2> QED BY <2>3, <2>4, <2>5, <2>6, <2>7, <2>8
  <1> QED BY <1>3, <1>6, <1>7, <1>8 DEF FwSend

(* Two phases are queued one after the other. *)
LEMMA Twice ==
  ASSUME NEW x \in Txn, x.bwq = <<>>, NEW ph \in Phases, NEW qh \in Phases,
         NEW y, y = BwEnq(BwEnq(x, ph), qh)
  PROVE  /\ y \in Txn /\ y.bwq = <<Msg(ph, x.bv, x.resp), Msg(qh, x.bv, x.resp)>>
         /\ BwKeeps(y, x) /\ y.mc = x.mc /\ y.req = x.req
  <1> DEFINE u == BwEnq(x, ph)
             m == Msg(ph, x.bv, x.resp)
             n == Msg(qh, x.bv, x.resp)
  <1>1. BwEnqueued(u, x, m)
    BY Enqueues
  <1> HIDE DEF u, m
  <1>2. u.bwq = <<m>> /\ u.bv = x.bv /\ u.resp = x.resp /\ u \in Txn
    BY <1>1, Fifo DEF BwEnqueued, BwKeeps
  <1>3. BwEnqueued(y, u, Msg(qh, u.bv, u.resp))
    BY <1>2, Enqueues DEF u
  <1>4. Msg(qh, u.bv, u.resp) = n
    BY <1>2
  <1> HIDE DEF n
  <1>5. y.bwq = <<m, n>>
    BY <1>2, <1>3, <1>4, Fifo DEF BwEnqueued
  <1>6. BwKeeps(y, x) /\ y.mc = x.mc /\ y.req = x.req /\ y \in Txn
    BY <1>1, <1>3 DEF BwEnqueued, BwKeeps
  <1> QED BY <1>5, <1>6 DEF m, n

(* The acknowledge of data that SendData makes up for a target that answers:
   END_DATA, and BEGIN_RESP when the user waits for a response *)
LEMMA Acknowledged ==
  ASSUME NEW x \in Txn, x.bwq = <<>>, x.bv = Burst, x.resp \in {"ok", "error"}, conf.wr_resp \in BOOLEAN,
         NEW y, y = IF conf.wr_resp /\ ~Err(x) THEN BwEnq(BwEnq(x, "END_DATA"), "BEGIN_RESP")
                    ELSE BwEnq(x, "END_DATA")
  PROVE  /\ y \in Txn /\ BwKeeps(y, x) /\ y.mc = x.mc /\ y.req = x.req
         /\ y.bwq = IF conf.wr_resp /\ ~Err(x)
                    THEN <<Msg("END_DATA", Burst, "ok"), Msg("BEGIN_RESP", Burst, "ok")>>
                    ELSE <<Msg("END_DATA", Burst, x.resp)>>
  <1>1. CASE conf.wr_resp /\ ~Err(x)
    <2>1. y = BwEnq(BwEnq(x, "END_DATA"), "BEGIN_RESP") /\ x.resp = "ok"
      BY <1>1 DEF Err
    <2> QED BY <1>1, <2>1, Twice DEF Phases
  <1>2. CASE ~(conf.wr_resp /\ ~Err(x))
    <2>1. BwEnqueued(y, x, Msg("END_DATA", x.bv, x.resp))
      BY <1>2, Enqueues DEF Phases
    <2> QED BY <1>2, <2>1, Fifo DEF BwEnqueued
  <1> QED BY <1>1, <1>2

(* The user of the master sends data to a base protocol target. *)
LEMMA TargetSendsData ==
  ASSUME conf \in Confs, conf.link = "target", NEW x, Good(x), x.mu = "send",
         NEW y \in SendData([x EXCEPT !.mu = "data", !.sent = @ + 1], x.sent + 1)
  PROVE  Good(y)
  <1>1. x \in Txn /\ x.assert /\ x.legal /\ TargetStage(x)
    BY DEF Good, Stage
  <1>2. /\ IsWrite(x) /\ x.resp = "incomplete" /\ ~x.mc /\ x.su = "idle" /\ Quiet(x) /\ x.sent < Burst
    BY <1>1 DEF TargetStage, TargetRead, TargetWrite, TargetAnswered, TargetFailed, TargetEnded, TargetRefused, Resting, At
  <1>3. ~Gsgp /\ Burst \in 0 .. Burst /\ Burst \in Nat /\ conf.wr_resp \in BOOLEAN
    BY BurstAssumption DEF Gsgp, Confs
  <1> DEFINE c == x.sent + 1
             v == [x EXCEPT !.mu = "data", !.sent = c]
             u == Check(v, ~v.mc /\ IsWrite(v))
             w == [u EXCEPT !.bv = c]
  <1>4. c \in 1 .. Burst /\ c \in 0 .. Burst
    BY <1>1, <1>2, BurstAssumption DEF Txn
  <1> HIDE DEF c
  <1>5. /\ v \in Txn /\ v.mu = "data" /\ v.sent = c /\ v.assert /\ v.legal /\ v.su = "idle"
        /\ v.bwq = <<>> /\ v.fwq = <<>> /\ v.resp = "incomplete" /\ v.cmd = "write" /\ ~v.mc
    BY <1>1, <1>2, <1>4 DEF Txn, Quiet, Queues, IsWrite
  <1> HIDE DEF v
  <1>6. u = v
    <2>1. u = [v EXCEPT !.assert = TRUE]
      BY <1>5 DEF Check, IsWrite
    <2> QED BY <1>5, <2>1, Holding
  <1> HIDE DEF u
  <1>7. /\ w \in Txn /\ w.mu = "data" /\ w.sent = c /\ w.assert /\ w.legal /\ w.su = "idle"
        /\ w.bwq = <<>> /\ w.fwq = <<>> /\ w.resp = "incomplete" /\ w.cmd = "write" /\ ~w.mc /\ w.bv = c
    BY <1>4, <1>5, <1>6 DEF Txn
  <1> DEFINE b == [w EXCEPT !.req = TRUE]
  <1>8. y \in IF c < Burst THEN {BwEnq(w, "END_DATA")} ELSE UNION {SendDataReturns(r) : r \in FwSend(b, "BEGIN_REQ")}
    BY <1>3 DEF SendData, c, v, u, w
  <1> HIDE DEF w
  <1>9. CASE c < Burst
    <2>1. BwEnqueued(y, w, Msg("END_DATA", w.bv, w.resp))
      BY <1>7, <1>8, <1>9, Enqueues DEF Phases
    <2>2. y.bwq = <<Msg("END_DATA", c, "incomplete")>>
      BY <1>7, <2>1, Fifo DEF BwEnqueued
    <2>3. TargetWrite(y)
      BY <1>7, <1>9, <2>1, <2>2 DEF BwEnqueued, BwKeeps, TargetWrite, Queues, Quiet, At, IsWrite
    <2> QED BY <1>7, <2>1, <2>3 DEF Good, Stage, TargetStage, BwEnqueued, BwKeeps
  <1>10. CASE ~(c < Burst)
    <2>1. c = Burst
      BY <1>3, <1>4, <1>10
    <2>2. /\ b \in Txn /\ b.mu = "data" /\ b.sent = Burst /\ b.assert /\ b.legal /\ b.su = "idle"
          /\ b.bwq = <<>> /\ b.fwq = <<>> /\ b.resp = "incomplete" /\ b.cmd = "write" /\ ~b.mc /\ b.bv = Burst
      BY <1>7, <2>1 DEF Txn
    <2> HIDE DEF b
    <2>3. PICK r \in TargetReceives(b, "BEGIN_REQ") : y \in SendDataReturns(r)
      BY <1>8, <1>10 DEF FwSend
    <2> DEFINE z == r.x
               more == conf.wr_resp /\ ~Err(z)
               Ack(p) == IF more THEN BwEnq(BwEnq(p, "END_DATA"), "BEGIN_RESP") ELSE BwEnq(p, "END_DATA")
    <2>4. TargetKeeps(z, b) /\ IsWrite(b)
      BY <2>2, TargetAnswers DEF IsWrite
    <2>5. \/ r.ret = "ACCEPTED" /\ z.su = "req" /\ z.resp = "incomplete"
          \/ r.ret = "UPDATED" /\ r.ph = "END_REQ" /\ z.su = "work" /\ z.resp = "incomplete"
          \/ r.ret = "COMPLETED" /\ z.su = "done" /\ z.resp = z.sout /\ z.sout \in {"ok", "error"}
          \/ /\ r.ret = "UPDATED" /\ r.ph = "BEGIN_RESP" /\ z.su = "respwait"
             /\ z.resp = z.sout /\ z.sout \in {"ok", "error"}
          \/ r.ret = "UPDATED" /\ r.ph = "END_REQ" /\ z.su = "done" /\ z.resp = "error" /\ z.sout = "error"
      BY <2>2, <2>4, TargetAnswers
    <2>6. /\ z \in Txn /\ z.mu = "data" /\ z.sent = Burst /\ z.assert /\ z.legal
          /\ z.bwq = <<>> /\ z.fwq = <<>> /\ IsWrite(z) /\ ~z.mc /\ z.bv = Burst
      BY <2>2, <2>4 DEF TargetKeeps, IsWrite
    <2>7. CASE r.ret = "ACCEPTED" /\ z.su = "req" /\ z.resp = "incomplete"
      <3>1. y = z
        BY <2>3, <2>7 DEF SendDataReturns
      <3>2. TargetWrite(z)
        BY <2>6, <2>7 DEF TargetWrite, Queues, Quiet, At
      <3> QED BY <2>6, <3>1, <3>2 DEF Good, Stage, TargetStage
    <2>8. CASE r.ret = "UPDATED" /\ r.ph = "END_REQ" /\ z.su = "work" /\ z.resp = "incomplete"
      <3>1. y = [z EXCEPT !.req = FALSE]
        BY <2>3, <2>8 DEF SendDataReturns
      <3>2. /\ y \in Txn /\ y.mu = "data" /\ y.sent = Burst /\ y.assert /\ y.legal /\ y.su = "work"
            /\ y.bwq = <<>> /\ y.fwq = <<>> /\ y.cmd = z.cmd /\ ~y.mc /\ y.resp = "incomplete"
        BY <2>6, <2>8, <3>1 DEF Txn
      <3>3. TargetWrite(y)
        BY <2>6, <3>2 DEF TargetWrite, Queues, Quiet, At, IsWrite
      <3> QED BY <3>2, <3>3 DEF Good, Stage, TargetStage
    <2>9. CASE r.ret = "COMPLETED" /\ z.su = "done" /\ z.resp = z.sout /\ z.sout \in {"ok", "error"}
      <3> DEFINE a == [z EXCEPT !.mc = TRUE]
      <3>1. y = Ack(a)
        BY <2>3, <2>9 DEF SendDataReturns
      <3>2. /\ a \in Txn /\ a.mu = "data" /\ a.sent = Burst /\ a.assert /\ a.legal /\ a.su = "done"
            /\ a.bwq = <<>> /\ a.fwq = <<>> /\ a.cmd = z.cmd /\ a.mc /\ a.resp = z.sout /\ a.sout = z.sout
            /\ a.bv = Burst
        BY <2>6, <2>9 DEF Txn
      <3>3. Err(a) <=> Err(z)
        BY <2>9, <3>2 DEF Err
      <3> HIDE DEF a
      <3>4. /\ y \in Txn /\ BwKeeps(y, a) /\ y.mc = a.mc
            /\ y.bwq = IF conf.wr_resp /\ ~Err(a)
                       THEN <<Msg("END_DATA", Burst, "ok"), Msg("BEGIN_RESP", Burst, "ok")>>
                       ELSE <<Msg("END_DATA", Burst, a.resp)>>
        BY <1>3, <2>9, <3>1, <3>2, <3>3, Acknowledged
      <3>5. /\ y.mu = "data" /\ y.sent = Burst /\ y.assert /\ y.legal /\ y.su = "done"
            /\ y.fwq = <<>> /\ IsWrite(y) /\ y.mc /\ y.sout = z.sout
        BY <2>6, <3>2, <3>4 DEF BwKeeps, IsWrite
      <3>6. CASE conf.wr_resp /\ z.sout = "ok"
        <4>1. y.bwq = <<Msg("END_DATA", Burst, "ok"), Msg("BEGIN_RESP", Burst, "ok")>>
          BY <2>9, <3>3, <3>4, <3>6 DEF Err
        <4>2. TargetAnswered(y)
          BY <1>3, <3>5, <3>6, <4>1 DEF TargetAnswered, AllSent, Queues
        <4> QED BY <3>4, <3>5, <4>2 DEF Good, Stage, TargetStage
      <3>7. CASE ~(conf.wr_resp /\ z.sout = "ok")
        <4>1. y.bwq = <<Msg("END_DATA", Burst, z.sout)>>
          BY <2>9, <3>2, <3>3, <3>4, <3>7 DEF Err
        <4>2. TargetEnded(y)
          BY <2>9, <3>5, <3>7, <4>1 DEF TargetEnded, At, Queues
        <4> QED BY <3>4, <3>5, <4>2 DEF Good, Stage, TargetStage
      <3> QED BY <3>6, <3>7
    <2>10. CASE /\ r.ret = "UPDATED" /\ r.ph = "BEGIN_RESP" /\ z.su = "respwait"
                /\ z.resp = z.sout /\ z.sout \in {"ok", "error"}
      <3> DEFINE a == Check(z, ~Gsgp)
                 k == Ack(a)
      <3>1. a = z
        <4>1. a = [z EXCEPT !.assert = TRUE]
          BY <1>3, <2>6 DEF Check
        <4> QED BY <2>6, <4>1, Holding
      <3>2. y \in IF more THEN {k} ELSE Sent(FwSend(k, "END_RESP"))
        BY <2>3, <2>10 DEF SendDataReturns
      <3> HIDE DEF a
      <3>3. k = Ack(z)
        BY <3>1
      <3> HIDE DEF k
      <3>4. /\ k \in Txn /\ BwKeeps(k, z) /\ k.mc = z.mc
            /\ k.bwq = IF conf.wr_resp /\ ~Err(z)
                       THEN <<Msg("END_DATA", Burst, "ok"), Msg("BEGIN_RESP", Burst, "ok")>>
                       ELSE <<Msg("END_DATA", Burst, z.resp)>>
        BY <1>3, <2>6, <2>10, <3>3, Acknowledged
      <3>5. /\ k.mu = "data" /\ k.sent = Burst /\ k.assert /\ k.legal /\ k.su = "respwait"
            /\ k.fwq = <<>> /\ IsWrite(k) /\ ~k.mc /\ k.sout = z.sout /\ k.resp = z.sout
        BY <2>6, <2>10, <3>4 DEF BwKeeps, IsWrite
      <3>6. CASE conf.wr_resp /\ z.sout = "ok"
        <4>1. /\ k.bwq = <<Msg("END_DATA", Burst, "ok"), Msg("BEGIN_RESP", Burst, "ok")>>
              /\ y = k
          BY <2>10, <3>2, <3>4, <3>6 DEF Err
        <4>2. TargetAnswered(k)
          BY <1>3, <3>5, <3>6, <4>1 DEF TargetAnswered, AllSent, Queues
        <4> QED BY <3>4, <3>5, <4>1, <4>2 DEF Good, Stage, TargetStage
      <3>7. CASE ~(conf.wr_resp /\ z.sout = "ok")
        <4>1. k.bwq = <<Msg("END_DATA", Burst, z.sout)>> /\ y \in Sent(FwSend(k, "END_RESP"))
          BY <1>3, <2>10, <3>2, <3>4, <3>7 DEF Err
        <4>2. PICK q \in TargetReceives(k, "END_RESP") : y = q.x
          BY <4>1 DEF Sent, FwSend
        <4>3. TargetKeeps(y, k) /\ y.su = "done" /\ y.sout = IF Err(k) THEN "error" ELSE k.sout
          BY <2>10, <3>4, <3>5, <4>2, TargetEnds
        <4>4. y.sout = z.sout
          BY <2>10, <3>5, <4>3 DEF Err
        <4>5. TargetEnded(y)
          BY <2>10, <3>5, <3>7, <4>1, <4>3, <4>4 DEF TargetEnded, TargetKeeps, At, Queues, IsWrite
        <4> QED BY <3>5, <4>3, <4>5 DEF Good, Stage, TargetStage, TargetKeeps
      <3> QED BY <3>6, <3>7
    <2>11. CASE r.ret = "UPDATED" /\ r.ph = "END_REQ" /\ z.su = "done" /\ z.resp = "error" /\ z.sout = "error"
      <3>1. y = [z EXCEPT !.req = FALSE]
        BY <2>3, <2>11 DEF SendDataReturns
      <3>2. /\ y \in Txn /\ y.mu = "data" /\ y.sent = Burst /\ y.assert /\ y.legal /\ y.su = "done"
            /\ y.bwq = <<>> /\ y.fwq = <<>> /\ y.cmd = z.cmd /\ y.resp = "error" /\ y.sout = "error"
        BY <2>6, <2>11, <3>1 DEF Txn
      <3>3. TargetRefused(y)
        BY <2>6, <3>2 DEF TargetRefused, Queues, Quiet, At, IsWrite
      <3> QED BY <3>2, <3>3 DEF Good, Stage, TargetStage
    <2> HIDE DEF z
    <2> QED BY <2>5, <2>7, <2>8, <2>9, <2>10, <2>11
  <1> QED BY <1>9, <1>10

(* AckResponse and ErrorResponse at a base protocol target *)
LEMMA TargetEndResp ==
  ASSUME conf.link = "target", NEW w \in Txn, w.sout # "none" \/ Err(w),
         NEW y \in Completes(FwSend(w, "END_RESP"))
  PROVE  /\ y \in Txn /\ y.mu = w.mu /\ y.mout = w.mout /\ y.su = "done" /\ y.bwq = w.bwq /\ y.fwq = w.fwq
         /\ y.cmd = w.cmd /\ y.assert = w.assert /\ y.legal = w.legal
         /\ y.sout = IF Err(w) THEN "error" ELSE w.sout
  <1>1. PICK r \in TargetReceives(w, "END_RESP") : y = IF r.ret = "COMPLETED" THEN [r.x EXCEPT !.mc = TRUE] ELSE r.x
    BY DEF Completes, FwSend
  <1> DEFINE z == r.x
  <1>2. TargetKeeps(z, w) /\ z.su = "done" /\ z.sout = IF Err(w) THEN "error" ELSE w.sout
    BY TargetEnds
  <1>3. y = z \/ y = [z EXCEPT !.mc = TRUE]
    BY <1>1
  <1> HIDE DEF z
  <1>4. /\ y \in Txn /\ y.mu = z.mu /\ y.mout = z.mout /\ y.su = z.su /\ y.bwq = z.bwq /\ y.fwq = z.fwq
        /\ y.cmd = z.cmd /\ y.assert = z.assert /\ y.legal = z.legal /\ y.sout = z.sout
    <2>1. z \in Txn
      BY <1>2 DEF TargetKeeps
    <2>2. CASE y = z
      BY <2>1, <2>2
    <2>3. CASE y = [z EXCEPT !.mc = TRUE]
      <3>1. y \in Txn
        BY <2>1, <2>3 DEF Txn
      <3> QED BY <2>1, <2>3, <3>1 DEF Txn
    <2> QED BY <1>3, <2>2, <2>3
  <1> QED BY <1>2, <1>4 DEF TargetKeeps

(* The user of the master answers the response of a base protocol target. *)
LEMMA TargetAcks ==
  ASSUME conf \in Confs, conf.link = "target", NEW x, Good(x), x.mu = "ack",
         NEW z, z = IF ~IsWrite(x) /\ ~Err(x) /\ x.bv < Burst THEN [x EXCEPT !.mu = "resp"]
                    ELSE MasterDone(x, x.resp),
         NEW y \in AckResponse(z) \cup ErrorResponse(MasterDone(x, "rejected"))
  PROVE  Good(y)
  <1>1. x \in Txn /\ x.assert /\ x.legal /\ TargetStage(x)
    BY DEF Good, Stage
  <1>2. /\ Quiet(x) /\ x.resp = x.sout /\ x.sout \in {"ok", "error"}
        /\ \/ x.su = "respwait" /\ ~x.mc
           \/ x.su = "done" /\ x.mc /\ (x.sout = "ok" => x.bv = Burst)
           \/ x.su = "done" /\ x.sout = "error"
    BY <1>1 DEF TargetStage, TargetRead, TargetWrite, TargetAnswered, TargetFailed, TargetEnded, TargetRefused, Resting, At, Txn
  <1>3. x.bv \in 0 .. Burst /\ Burst \in Nat
    BY <1>1, BurstAssumption DEF Txn
  <1>4. CASE y \in AckResponse(z)
    <2>1. /\ z \in Txn /\ z.resp = x.resp /\ z.fwq = <<>> /\ z.bwq = <<>> /\ z.mc = x.mc
          /\ z.su = x.su /\ z.sout = x.sout /\ z.cmd = x.cmd /\ z.assert /\ z.legal
          /\ IF ~IsWrite(x) /\ ~Err(x) /\ x.bv < Burst THEN z.mu = "resp" ELSE z.mu = "done" /\ z.mout = x.resp
      <3>1. CASE ~IsWrite(x) /\ ~Err(x) /\ x.bv < Burst
        <4>1. z = [x EXCEPT !.mu = "resp"]
          BY <3>1
        <4> QED BY <4>1, <3>1, <1>1, <1>2 DEF Txn, Quiet, Queues
      <3>2. CASE ~(~IsWrite(x) /\ ~Err(x) /\ x.bv < Burst)
        <4>1. z = [x EXCEPT !.mu = "done", !.mout = x.resp]
          BY <3>2 DEF MasterDone
        <4> QED BY <4>1, <3>2, <1>1, <1>2, ZenonT(60) DEF Txn, Quiet, Queues
      <3> QED BY <3>1, <3>2
    <2>2. Err(z) <=> z.sout = "error"
      BY <1>2, <2>1 DEF Err
    <2>3. CASE x.mc
      <3>1. y = z
        BY <1>4, <2>1, <2>3 DEF AckResponse
      <3>2. z.su = "done" /\ z.mu = "done" /\ z.mout = z.sout
        BY <1>2, <1>3, <2>1, <2>3 DEF Err
      <3>3. Resting(z)
        BY <1>2, <2>1, <3>2 DEF Resting, Quiet, Queues, At, Agree
      <3> QED BY <2>1, <3>1, <3>3 DEF Good, Stage, TargetStage
    <2>4. CASE ~x.mc
      <3>1. y \in Completes(FwSend(z, "END_RESP"))
        BY <1>4, <2>1, <2>4 DEF AckResponse
      <3>2. /\ y \in Txn /\ y.mu = z.mu /\ y.mout = z.mout /\ y.su = "done" /\ y.bwq = z.bwq /\ y.fwq = z.fwq
            /\ y.cmd = z.cmd /\ y.assert = z.assert /\ y.legal = z.legal
            /\ y.sout = IF Err(z) THEN "error" ELSE z.sout
        BY <1>2, <2>1, <3>1, TargetEndResp
      <3>3. y.sout = x.sout
        BY <2>1, <2>2, <3>2
      <3>4. CASE ~IsWrite(x) /\ ~Err(x) /\ x.bv < Burst
        <4>1. TargetRead(y)
          BY <2>1, <3>2, <3>4 DEF TargetRead, At, Quiet, Queues, IsWrite
        <4> QED BY <2>1, <3>2, <4>1 DEF Good, Stage, TargetStage
      <3>5. CASE ~(~IsWrite(x) /\ ~Err(x) /\ x.bv < Burst)
        <4>1. Resting(y)
          BY <1>2, <2>1, <3>2, <3>3, <3>5 DEF Resting, Quiet, Queues, At, Agree
        <4> QED BY <2>1, <3>2, <4>1 DEF Good, Stage, TargetStage
      <3> QED BY <3>4, <3>5
    <2> QED BY <2>3, <2>4
  <1>5. CASE y \in ErrorResponse(MasterDone(x, "rejected"))
    <2> DEFINE v == MasterDone(x, "rejected")
               w == [v EXCEPT !.resp = "error"]
    <2>1. /\ v \in Txn /\ v.fwq = <<>> /\ v.bwq = <<>> /\ v.mc = x.mc /\ v.su = x.su /\ v.assert /\ v.legal
          /\ v.mu = "done" /\ v.mout = "rejected"
      BY <1>1, <1>2 DEF Txn, Quiet, Queues, MasterDone
    <2>2. y \in IF v.mc THEN {v} ELSE Completes(FwSend(w, "END_RESP"))
      BY <1>5 DEF ErrorResponse
    <2> HIDE DEF v
    <2>3. CASE v.mc
      <3>1. v.su = "done"
        BY <1>2, <2>1, <2>3
      <3>2. Resting(v)
        BY <2>1, <2>3, <3>1 DEF Resting, Quiet, Queues, At, Agree
      <3> QED BY <2>1, <2>2, <2>3, <3>2 DEF Good, Stage, TargetStage
    <2>4. CASE ~v.mc
      <3>1. /\ w \in Txn /\ w.fwq = <<>> /\ w.bwq = <<>> /\ w.assert /\ w.legal
            /\ w.mu = "done" /\ w.mout = "rejected" /\ w.resp = "error"
        BY <2>1 DEF Txn, Statuses
      <3> HIDE DEF w
      <3>2. /\ y \in Txn /\ y.mu = w.mu /\ y.mout = w.mout /\ y.su = "done" /\ y.bwq = w.bwq /\ y.fwq = w.fwq
            /\ y.cmd = w.cmd /\ y.assert = w.assert /\ y.legal = w.legal
            /\ y.sout = IF Err(w) THEN "error" ELSE w.sout
        BY <2>2, <2>4, <3>1, TargetEndResp DEF Err
      <3>3. y.sout = "error"
        BY <3>1, <3>2 DEF Err
      <3>4. Resting(y)
        BY <3>1, <3>2, <3>3 DEF Resting, Quiet, Queues, At, Agree
      <3> QED BY <3>1, <3>2, <3>4 DEF Good, Stage, TargetStage
    <2> QED BY <2>3, <2>4
  <1> QED BY <1>4, <1>5

(* The target sends END_REQ. *)
LEMMA TargetSendsEndReq ==
  ASSUME conf \in Confs, conf.link = "target", NEW x, Good(x), x.su = "req",
         NEW y \in Sent({MasterReceives([x EXCEPT !.su = "work"], "END_REQ")})
  PROVE  Good(y)
  <1>1. x \in Txn /\ x.assert /\ x.legal /\ TargetStage(x)
    BY DEF Good, Stage
  <1>2. /\ x.resp = "incomplete" /\ Quiet(x) /\ ~x.mc
        /\ IF IsWrite(x) THEN x.mu = "data" /\ x.sent = Burst ELSE x.mu = "req" /\ x.bv = 0
    BY <1>1 DEF TargetStage, TargetRead, TargetWrite, TargetAnswered, TargetFailed, TargetEnded, TargetRefused, Resting, At
  <1> DEFINE w == [x EXCEPT !.su = "work"]
             z == MasterSees(w, "END_REQ")
  <1>3. /\ z \in Txn /\ z.cmd = x.cmd /\ z.mu = x.mu /\ z.su = "work" /\ z.resp = "incomplete" /\ z.bwq = <<>>
        /\ z.fwq = <<>> /\ ~z.mc /\ ~z.req /\ z.sent = x.sent /\ z.bv = x.bv /\ z.assert /\ z.legal
        /\ w.cmd = x.cmd
    <2>1. /\ w \in Txn /\ w.cmd = x.cmd /\ w.mu = x.mu /\ w.su = "work" /\ w.resp = "incomplete" /\ w.bwq = <<>>
          /\ w.fwq = <<>> /\ w.sent = x.sent /\ w.bv = x.bv /\ w.assert /\ w.legal
      BY <1>1, <1>2 DEF Txn, Quiet, Queues
    <2> HIDE DEF w
    <2> QED BY <2>1 DEF Txn, MasterSees
  <1>4. y = IF IsWrite(x) THEN z ELSE BwEnq(z, "END_REQ")
    <2> DEFINE q == IF IsWrite(x) THEN z ELSE BwEnq(z, "END_REQ")
    <2>1. IsWrite(w) <=> IsWrite(x)
      BY <1>3 DEF IsWrite
    <2>2. MasterReceives(w, "END_REQ") = Return(q, FALSE)
      BY <2>1 DEF MasterReceives, Gsgp
    <2> HIDE DEF q, w
    <2>3. y = MasterReceives(w, "END_REQ").x
      BY DEF Sent, w
    <2> QED BY <2>2, <2>3 DEF q, Return, Result
  <1> HIDE DEF z
  <1>5. CASE IsWrite(x)
    <2>1. TargetWrite(z)
      BY <1>2, <1>3, <1>5 DEF TargetWrite, At, Quiet, Queues, IsWrite
    <2> QED BY <1>3, <1>4, <1>5, <2>1 DEF Good, Stage, TargetStage
  <1>6. CASE ~IsWrite(x)
    <2>1. BwEnqueued(y, z, Msg("END_REQ", z.bv, z.resp))
      BY <1>3, <1>4, <1>6, Enqueues DEF Phases
    <2>2. y.bwq = <<Msg("END_REQ", 0, "incomplete")>>
      BY <1>2, <1>3, <1>6, <2>1, Fifo DEF BwEnqueued
    <2>3. TargetRead(y)
      BY <1>2, <1>3, <1>6, <2>1, <2>2 DEF TargetRead, At, Quiet, Queues, IsWrite, BwEnqueued, BwKeeps
    <2> QED BY <1>3, <2>1, <2>3 DEF Good, Stage, TargetStage, BwEnqueued, BwKeeps
  <1> QED BY <1>5, <1>6

(* The target sends BEGIN_RESP. *)
LEMMA TargetSendsResp ==
  ASSUME conf \in Confs, conf.link = "target", NEW x, Good(x), x.su \in {"req", "work"}, NEW r \in {"ok", "error"},
         NEW q, q = MasterReceives([x EXCEPT !.resp = r, !.sout = r, !.su = "respwait"], "BEGIN_RESP"),
         NEW y, y = IF q.ret = "COMPLETED" THEN SlaveDone(q.x, r) ELSE q.x
  PROVE  Good(y)
  <1> DEFINE endreq == Msg("END_REQ", 0, "incomplete")
  <1>1. x \in Txn /\ x.assert /\ x.legal /\ TargetStage(x)
    BY DEF Good, Stage
  <1>2. /\ x.fwq = <<>>
        /\ IF IsWrite(x) THEN x.mu = "data" /\ x.sent = Burst /\ x.bwq = <<>>
           ELSE \/ x.mu = "req" /\ x.req /\ x.bwq = <<>>
                \/ x.mu = "req" /\ ~x.req /\ x.bwq = <<endreq>>
                \/ x.mu = "resp" /\ ~x.req /\ x.bwq = <<>>
    BY <1>1 DEF TargetStage, TargetRead, TargetWrite, TargetAnswered, TargetFailed, TargetEnded, TargetRefused, Resting, At, Quiet, Queues
  <1>3. Burst \in 0 .. Burst /\ Burst \in Nat /\ 0 \in 0 .. Burst /\ conf.wr_resp \in BOOLEAN /\ ~Gsgp
    BY BurstAssumption DEF Confs, Gsgp
  <1> DEFINE w == [x EXCEPT !.resp = r, !.sout = r, !.su = "respwait"]
             z == MasterSees(w, "BEGIN_RESP")
             early == z.req /\ r # "ok"
  <1>4. /\ w \in Txn /\ w.cmd = x.cmd /\ w.mu = x.mu /\ w.su = "respwait" /\ w.resp = r /\ w.sout = r
        /\ w.bwq = x.bwq /\ w.fwq = <<>> /\ w.req = x.req /\ w.sent = x.sent /\ w.assert /\ w.legal
    BY <1>1, <1>2 DEF Txn, Statuses
  <1>5. q = MasterReceives(w, "BEGIN_RESP") /\ (IsWrite(w) <=> IsWrite(x))
    BY <1>4 DEF IsWrite
  <1> HIDE DEF w
  <1>6. /\ z \in Txn /\ z.cmd = x.cmd /\ z.mu = x.mu /\ z.su = "respwait" /\ z.resp = r /\ z.sout = r
        /\ z.bwq = x.bwq /\ z.fwq = <<>> /\ ~z.mc /\ z.req = x.req /\ z.sent = x.sent /\ z.assert /\ z.legal
        /\ z.bv = Burst
    BY <1>3, <1>4 DEF Txn, MasterSees
  <1>7. q = IF ~IsWrite(x) THEN Return(BwEnq(EndReqFirst(z), "BEGIN_RESP"), early)
            ELSE IF conf.wr_resp /\ z.resp = "ok" THEN Return(BwEnq(BwEnq(z, "END_DATA"), "BEGIN_RESP"), early)
            ELSE Return(BwEnq(z, "END_DATA"), TRUE)
    BY <1>3, <1>5, <1>6 DEF MasterReceives
  <1> HIDE DEF z
  <1>8. \A v : /\ Return(v, TRUE).x = v /\ Return(v, TRUE).ret = "COMPLETED"
               /\ Return(v, early).x = v /\ (Return(v, early).ret = "COMPLETED" <=> early)
    BY DEF Return, Result
  <1>9. ASSUME NEW v \in Txn
        PROVE  LET d == SlaveDone(v, r) IN
               /\ d \in Txn /\ d.cmd = v.cmd /\ d.mu = v.mu /\ d.su = "done" /\ d.sout = r /\ d.bwq = v.bwq
               /\ d.fwq = v.fwq /\ d.sent = v.sent /\ d.mc = v.mc /\ d.assert = v.assert /\ d.legal = v.legal
    BY DEF Txn, SlaveDone
  <1>10. CASE IsWrite(x) /\ conf.wr_resp /\ r = "ok"
    <2> DEFINE v == BwEnq(BwEnq(z, "END_DATA"), "BEGIN_RESP")
    <2>1. q = Return(v, early) /\ ~early
      BY <1>6, <1>7, <1>10
    <2> HIDE DEF early
    <2>2. y = v
      BY <1>8, <2>1
    <2>3. /\ y \in Txn /\ y.bwq = <<Msg("END_DATA", Burst, "ok"), Msg("BEGIN_RESP", Burst, "ok")>>
          /\ BwKeeps(y, z) /\ y.mc = z.mc
      <3>1. z.bwq = <<>> /\ z.resp = "ok" /\ z.bv = Burst
        BY <1>2, <1>6, <1>10
      <3> HIDE DEF v
      <3>2. /\ v \in Txn /\ v.bwq = <<Msg("END_DATA", z.bv, z.resp), Msg("BEGIN_RESP", z.bv, z.resp)>>
            /\ BwKeeps(v, z) /\ v.mc = z.mc
        BY <1>6, <3>1, Twice DEF v, Phases
      <3> QED BY <2>2, <3>1, <3>2
    <2>4. TargetAnswered(y)
      BY <1>2, <1>3, <1>6, <1>10, <2>3, SMTT(30) DEF TargetAnswered, BwKeeps, AllSent, Queues, IsWrite
    <2> QED BY <1>6, <2>3, <2>4 DEF Good, Stage, TargetStage, BwKeeps
  <1>11. CASE IsWrite(x) /\ ~(conf.wr_resp /\ r = "ok")
    <2> DEFINE v == BwEnq(z, "END_DATA")
    <2>1. q = Return(v, TRUE)
      BY <1>6, <1>7, <1>11
    <2>2. y = SlaveDone(v, r)
      <3> HIDE DEF v
      <3>1. q.x = v /\ q.ret = "COMPLETED"
        BY <2>1 DEF Return, Result
      <3> QED BY <3>1
    <2>3. BwEnqueued(v, z, Msg("END_DATA", z.bv, z.resp))
      BY <1>6, Enqueues DEF Phases
    <2> HIDE DEF v
    <2>4. v.bwq = <<Msg("END_DATA", Burst, r)>> /\ v \in Txn
      BY <1>2, <1>6, <1>11, <2>3, Fifo DEF BwEnqueued
    <2>5. /\ y \in Txn /\ y.cmd = v.cmd /\ y.mu = v.mu /\ y.su = "done" /\ y.sout = r /\ y.bwq = v.bwq
          /\ y.fwq = v.fwq /\ y.sent = v.sent /\ y.assert = v.assert /\ y.legal = v.legal
      BY <1>9, <2>2, <2>4
    <2>6. TargetEnded(y)
      BY <1>2, <1>6, <1>11, <2>3, <2>4, <2>5 DEF TargetEnded, BwEnqueued, BwKeeps, At, Queues, IsWrite
    <2> QED BY <1>6, <2>3, <2>5, <2>6 DEF Good, Stage, TargetStage, BwEnqueued, BwKeeps
  <1>12. CASE ~IsWrite(x)
    <2> DEFINE e == EndReqFirst(z)
               v == BwEnq(e, "BEGIN_RESP")
               answer == Msg("BEGIN_RESP", Burst, r)
    <2>1. q = Return(v, early)
      BY <1>7, <1>12
    <2>2. y = IF early THEN SlaveDone(v, r) ELSE v
      BY <1>8, <2>1
    <2>3. /\ e \in Txn /\ BwKeeps(e, z) /\ e.mc = z.mc /\ e.req = z.req
          /\ IF z.req THEN e.bwq = Append(z.bwq, Msg("END_REQ", Burst, r)) ELSE e.bwq = z.bwq
      <3>1. CASE z.req
        <4>1. BwEnqueued(e, z, Msg("END_REQ", z.bv, z.resp))
          BY <1>6, <3>1, Enqueues DEF Phases, EndReqFirst
        <4> HIDE DEF e
        <4> QED BY <1>6, <3>1, <4>1 DEF BwEnqueued
      <3>2. CASE ~z.req
        <4>1. e = z
          BY <3>2 DEF EndReqFirst
        <4> QED BY <1>6, <3>2, <4>1 DEF BwKeeps
      <3> QED BY <3>1, <3>2
    <2> HIDE DEF e
    <2>4. BwEnqueued(v, e, answer)
      <3>1. BwEnqueued(v, e, Msg("BEGIN_RESP", e.bv, e.resp))
        BY <2>3, Enqueues DEF Phases
      <3>2. e.bv = Burst /\ e.resp = r
        BY <1>6, <2>3 DEF BwKeeps
      <3> QED BY <3>1, <3>2
    <2> HIDE DEF v, answer, endreq
    <2>5. /\ v \in Txn /\ ~v.mc /\ v.req = x.req /\ v.mu = x.mu /\ v.su = "respwait" /\ v.sout = r /\ v.fwq = <<>>
          /\ v.cmd = x.cmd /\ v.assert /\ v.legal
      BY <1>6, <2>3, <2>4 DEF BwEnqueued, BwKeeps
    <2>6. \/ x.mu = "req" /\ x.req /\ v.bwq = <<Msg("END_REQ", Burst, r), answer>>
          \/ x.mu = "req" /\ ~x.req /\ v.bwq = <<endreq, answer>>
          \/ x.mu = "resp" /\ ~x.req /\ v.bwq = <<answer>>
      <3>1. CASE x.mu = "req" /\ x.req /\ x.bwq = <<>>
        <4> DEFINE m == Msg("END_REQ", Burst, r)
        <4> HIDE DEF m
        <4>1. e.bwq = <<m>>
          BY <1>6, <2>3, <3>1, Fifo DEF m
        <4>2. v.bwq = <<m, answer>>
          BY <2>4, <4>1, Fifo DEF BwEnqueued
        <4> QED BY <3>1, <4>2 DEF m
      <3>2. CASE x.mu = "req" /\ ~x.req /\ x.bwq = <<endreq>>
        <4>1. e.bwq = <<endreq>>
          BY <1>6, <2>3, <3>2
        <4>2. v.bwq = <<endreq, answer>>
          BY <2>4, <4>1, Fifo DEF BwEnqueued
        <4> QED BY <3>2, <4>2
      <3>3. CASE x.mu = "resp" /\ ~x.req /\ x.bwq = <<>>
        <4>1. e.bwq = <<>>
          BY <1>6, <2>3, <3>3
        <4>2. v.bwq = <<answer>>
          BY <2>4, <4>1, Fifo DEF BwEnqueued
        <4> QED BY <3>3, <4>2
      <3> QED BY <1>2, <1>12, <3>1, <3>2, <3>3 DEF endreq
    <2>7. CASE early
      <3>1. x.req /\ x.mu = "req" /\ r = "error"
        BY <1>2, <1>6, <1>12, <2>7
      <3>2. v.bwq = <<Msg("END_REQ", Burst, "error"), Msg("BEGIN_RESP", Burst, "error")>>
        BY <2>6, <3>1 DEF answer
      <3>3. /\ y \in Txn /\ y.cmd = v.cmd /\ y.mu = v.mu /\ y.su = "done" /\ y.sout = r /\ y.bwq = v.bwq
            /\ y.fwq = v.fwq /\ y.assert = v.assert /\ y.legal = v.legal
        <4> DEFINE d == SlaveDone(v, r)
        <4>1. /\ d \in Txn /\ d.cmd = v.cmd /\ d.mu = v.mu /\ d.su = "done" /\ d.sout = r /\ d.bwq = v.bwq
              /\ d.fwq = v.fwq /\ d.sent = v.sent /\ d.mc = v.mc /\ d.assert = v.assert /\ d.legal = v.legal
          BY <1>9, <2>5
        <4>2. y = d
          BY <2>2, <2>7
        <4> HIDE DEF d
        <4> QED BY <4>1, <4>2
      <3>4. TargetFailed(y)
        BY <1>3, <1>12, <2>5, <3>1, <3>2, <3>3 DEF TargetFailed, Queues, IsWrite
      <3> QED BY <2>5, <3>3, <3>4 DEF Good, Stage, TargetStage
    <2>8. CASE ~early
      <3>1. y = v
        BY <2>2, <2>8
      <3>2. x.req => r = "ok"
        BY <1>6, <2>8
      <3>3. \/ /\ y.mu = "req"
               /\ \E c \in 0 .. Burst, s \in {"incomplete", "ok"} : y.bwq = <<Msg("END_REQ", c, s), answer>>
            \/ y.mu = "resp" /\ ~y.req /\ y.bwq = <<answer>>
        <4>1. CASE x.mu = "req" /\ x.req /\ v.bwq = <<Msg("END_REQ", Burst, r), answer>>
          BY <1>3, <2>5, <3>1, <3>2, <4>1
        <4>2. CASE x.mu = "req" /\ ~x.req /\ v.bwq = <<endreq, answer>>
          BY <1>3, <2>5, <3>1, <4>2 DEF endreq
        <4>3. CASE x.mu = "resp" /\ ~x.req /\ v.bwq = <<answer>>
          BY <2>5, <3>1, <4>3
        <4> QED BY <2>6, <4>1, <4>2, <4>3
      <3>4. TargetAnswered(y)
        BY <1>3, <1>12, <2>5, <3>1, <3>3 DEF TargetAnswered, Queues, IsWrite, answer
      <3> QED BY <2>5, <3>1, <3>4 DEF Good, Stage, TargetStage
    <2> QED BY <2>7, <2>8
  <1> QED BY <1>10, <1>11, <1>12

(* bw_peq_cb at a base protocol target *)
LEMMA TargetMasterPeq ==
  ASSUME conf \in Confs, conf.link = "target", NEW x, Good(x), x.bwq # <<>>
  PROVE  Good(BwPeq(x))
  <1> DEFINE y == BwPeq(x)
  <1>1. x \in Txn /\ x.assert /\ x.legal /\ TargetStage(x)
    BY DEF Good, Stage
  <1>2. conf.wr_resp \in BOOLEAN
    BY DEF Confs
  <1>3. x.sent \in 0 .. Burst /\ Burst \in 0 .. Burst /\ 0 \in 0 .. Burst /\ Burst \in Nat /\ Burst > 0
    BY <1>1, BurstAssumption DEF Txn
  <1>4. CASE TargetRead(x)
    <2>1. /\ x.bwq = <<Msg("END_REQ", 0, "incomplete")>> /\ x.fwq = <<>> /\ ~IsWrite(x) /\ x.mu = "req" /\ x.su = "work" /\ ~x.mc
      BY <1>4 DEF TargetRead, Queues, Quiet, At
    <2>2. Head(x.bwq) = Msg("END_REQ", 0, "incomplete") /\ Tail(x.bwq) = <<>>
      BY <2>1, Fifo
    <2>3. MasterTook(y, x, "END_REQ", 0, "incomplete")
      BY <1>1, <1>2, <1>3, <2>1, <2>2, MasterHears DEF Phases, Statuses
    <2> HIDE DEF y
    <2>4. y.legal = x.legal /\ y.mu = "resp"
      BY <2>1, <2>3 DEF MasterTook, MasterMoves, GreenBusPhase
    <2>5. TargetRead(y)
      BY <2>1, <2>2, <2>3, <2>4 DEF MasterTook, MasterKeeps, TargetRead, Queues, Quiet, At, IsWrite
    <2> QED BY <1>1, <2>3, <2>4, <2>5 DEF Good, Stage, TargetStage, MasterTook, MasterKeeps, y
  <1>5. CASE TargetWrite(x) /\ x.mu = "req"
    <2>1. /\ x.bwq = <<Msg("END_REQ", 0, "incomplete")>> /\ x.fwq = <<>> /\ IsWrite(x) /\ x.su = "idle" /\ ~x.mc /\ x.sent = 0
      BY <1>5 DEF TargetWrite, Queues, Quiet, At
    <2>2. Head(x.bwq) = Msg("END_REQ", 0, "incomplete") /\ Tail(x.bwq) = <<>>
      BY <2>1, Fifo
    <2>3. MasterTook(y, x, "END_REQ", 0, "incomplete")
      BY <1>1, <1>2, <1>3, <2>1, <2>2, MasterHears DEF Phases, Statuses
    <2> HIDE DEF y
    <2>4. y.legal = x.legal /\ y.mu = "send"
      BY <1>5, <2>1, <2>3 DEF MasterTook, MasterMoves, GreenBusPhase
    <2>5. TargetWrite(y)
      BY <1>3, <2>1, <2>2, <2>3, <2>4 DEF MasterTook, MasterKeeps, TargetWrite, Queues, Quiet, At, IsWrite
    <2> QED BY <1>1, <2>3, <2>4, <2>5 DEF Good, Stage, TargetStage, MasterTook, MasterKeeps, y
  <1>6. CASE TargetWrite(x) /\ x.mu = "data"
    <2>1. /\ x.bwq = <<Msg("END_DATA", x.sent, "incomplete")>> /\ x.fwq = <<>> /\ IsWrite(x) /\ x.su = "idle" /\ ~x.mc
          /\ x.sent < Burst
      BY <1>6 DEF TargetWrite, Queues, Quiet, At
    <2>2. Head(x.bwq) = Msg("END_DATA", x.sent, "incomplete") /\ Tail(x.bwq) = <<>>
      BY <2>1, Fifo
    <2>3. MasterTook(y, x, "END_DATA", x.sent, "incomplete")
      <3> DEFINE b == x.sent
      <3>1. b \in 0 .. Burst /\ Head(x.bwq) = Msg("END_DATA", b, "incomplete") /\ x.bwq # <<>>
        BY <1>3, <2>2
      <3> HIDE DEF b, y
      <3>2. "END_DATA" \in Phases /\ "incomplete" \in Statuses /\ ("END_DATA" # "END_REQ" \/ "incomplete" # "error")
        BY DEF Phases, Statuses
      <3>3. MasterTook(BwPeq(x), x, "END_DATA", b, "incomplete")
        BY <1>1, <1>2, <3>1, <3>2, MasterHears
      <3> QED BY <3>3 DEF b, y
    <2> HIDE DEF y
    <2>4. y.legal = x.legal /\ y.mu = "send"
      BY <1>6, <2>1, <2>3 DEF MasterTook, MasterMoves, GreenBusPhase
    <2>5. TargetWrite(y)
      BY <1>3, <2>1, <2>2, <2>3, <2>4 DEF MasterTook, MasterKeeps, TargetWrite, Queues, Quiet, At, IsWrite
    <2> QED BY <1>1, <2>3, <2>4, <2>5 DEF Good, Stage, TargetStage, MasterTook, MasterKeeps, y
  <1>7. CASE TargetAnswered(x)
    <2>1. PICK b \in 0 .. Burst :
            /\ x.su = "done" \/ IsWrite(x) => b = Burst
            /\ \/ /\ x.mu = "req" /\ ~IsWrite(x)
                  /\ \E c \in 0 .. Burst, r \in {"incomplete", "ok"} :
                       Queues(x, <<Msg("END_REQ", c, r), Msg("BEGIN_RESP", b, x.sout)>>, <<>>)
               \/ /\ x.mu = "data" /\ IsWrite(x)
                  /\ Queues(x, <<Msg("END_DATA", Burst, "ok"), Msg("BEGIN_RESP", b, x.sout)>>, <<>>)
               \/ x.mu = "resp" /\ ~x.req /\ Queues(x, <<Msg("BEGIN_RESP", b, x.sout)>>, <<>>)
      BY <1>7 DEF TargetAnswered, Quiet, Queues
    <2>2. /\ (x.su = "respwait" /\ ~x.mc) \/ (x.su = "done" /\ x.mc /\ x.sout = "ok")
          /\ IF IsWrite(x) THEN AllSent(x) /\ x.sout = "ok" ELSE x.sout # "none"
          /\ x.sout \in {"ok", "error"}
      BY <1>1, <1>7 DEF TargetAnswered, Txn
    <2> DEFINE answer == Msg("BEGIN_RESP", b, x.sout)
    <2>3. CASE x.mu = "req"
      <3>1. PICK c \in 0 .. Burst, r \in {"incomplete", "ok"} : Queues(x, <<Msg("END_REQ", c, r), answer>>, <<>>)
        BY <2>1, <2>3
      <3>2. Head(x.bwq) = Msg("END_REQ", c, r) /\ Tail(x.bwq) = <<answer>> /\ x.fwq = <<>> /\ ~IsWrite(x)
        BY <2>1, <2>3, <3>1, Fifo DEF Queues
      <3>3. MasterTook(y, x, "END_REQ", c, r)
        <4>1. "END_REQ" \in Phases /\ r \in Statuses /\ ("END_REQ" # "END_REQ" \/ r # "error")
          BY DEF Phases, Statuses
        <4> HIDE DEF y
        <4>2. MasterTook(BwPeq(x), x, "END_REQ", c, r)
          BY <1>1, <1>2, <3>2, <4>1, MasterHears
        <4> QED BY <4>2 DEF y
      <3> HIDE DEF y, answer
      <3>4. y.legal = x.legal /\ y.mu = "resp"
        BY <2>3, <3>2, <3>3 DEF MasterTook, MasterMoves, GreenBusPhase
      <3>5. TargetAnswered(y)
        BY <2>1, <2>2, <3>2, <3>3, <3>4 DEF MasterTook, MasterKeeps, TargetAnswered, Queues, Quiet, IsWrite, AllSent, answer
      <3> QED BY <1>1, <3>3, <3>4, <3>5 DEF Good, Stage, TargetStage, MasterTook, MasterKeeps, y
    <2>4. CASE x.mu = "data"
      <3>1. x.bwq = <<Msg("END_DATA", Burst, "ok"), answer>> /\ x.fwq = <<>> /\ IsWrite(x)
        BY <2>1, <2>4 DEF Queues
      <3>2. Head(x.bwq) = Msg("END_DATA", Burst, "ok") /\ Tail(x.bwq) = <<answer>>
        BY <3>1, Fifo
      <3>3. MasterTook(y, x, "END_DATA", Burst, "ok")
        BY <1>1, <1>2, <1>3, <3>2, MasterHears DEF Phases, Statuses
      <3> HIDE DEF y, answer
      <3>4. y.legal = x.legal /\ y.mu = "resp"
        BY <1>3, <2>2, <2>4, <3>1, <3>3 DEF MasterTook, MasterMoves, GreenBusPhase, AllSent
      <3>5. TargetAnswered(y)
        BY <2>1, <2>2, <3>1, <3>2, <3>3, <3>4 DEF MasterTook, MasterKeeps, TargetAnswered, Queues, Quiet, IsWrite, AllSent, answer
      <3> QED BY <1>1, <3>3, <3>4, <3>5 DEF Good, Stage, TargetStage, MasterTook, MasterKeeps, y
    <2>5. CASE x.mu = "resp"
      <3>1. x.bwq = <<answer>> /\ x.fwq = <<>> /\ ~x.req
        BY <2>1, <2>5 DEF Queues
      <3>2. Head(x.bwq) = answer /\ Tail(x.bwq) = <<>>
        BY <3>1, Fifo
      <3> DEFINE r == x.sout
      <3>3. MasterTook(y, x, "BEGIN_RESP", b, r)
        <4>1. "BEGIN_RESP" \in Phases /\ r \in Statuses /\ ("BEGIN_RESP" # "END_REQ" \/ r # "error")
          BY <2>2 DEF Phases, Statuses
        <4>2. Head(x.bwq) = Msg("BEGIN_RESP", b, r)
          BY <3>2
        <4> HIDE DEF y, r
        <4>3. MasterTook(BwPeq(x), x, "BEGIN_RESP", b, r)
          BY <1>1, <1>2, <4>1, <4>2, MasterHears
        <4> QED BY <4>3 DEF y
      <3> HIDE DEF y
      <3>4. y.legal = x.legal /\ y.mu = "ack"
        BY <2>5, <3>1, <3>3 DEF MasterTook, MasterMoves, GreenBusPhase
      <3>5. TargetAnswered(y)
        BY <2>1, <2>2, <3>1, <3>2, <3>3, <3>4 DEF MasterTook, MasterKeeps, TargetAnswered, Queues, Quiet, IsWrite, AllSent
      <3> QED BY <1>1, <3>3, <3>4, <3>5 DEF Good, Stage, TargetStage, MasterTook, MasterKeeps, y
    <2> QED BY <2>1, <2>3, <2>4, <2>5
  <1>8. CASE TargetFailed(x)
    <2>1. x.su = "done" /\ x.sout = "error" /\ ~IsWrite(x) /\ x.mu = "req"
      BY <1>8 DEF TargetFailed, Quiet, Queues
    <2>2. CASE \E b \in 0 .. Burst : Queues(x, <<Msg("BEGIN_RESP", b, "error")>>, <<>>)
      <3>1. PICK b \in 0 .. Burst : x.bwq = <<Msg("BEGIN_RESP", b, "error")>> /\ x.fwq = <<>>
        BY <2>2 DEF Queues
      <3>2. Head(x.bwq) = Msg("BEGIN_RESP", b, "error") /\ Tail(x.bwq) = <<>>
        BY <3>1, Fifo
      <3>3. MasterTook(y, x, "BEGIN_RESP", b, "error")
        BY <1>1, <1>2, <3>2, MasterHears DEF Phases, Statuses
      <3> HIDE DEF y
      <3>4. /\ y.legal = x.legal
            /\ IF x.req THEN y.mu = "done" /\ y.mout = "error" ELSE y.mu = "ack"
        BY <2>1, <3>3 DEF MasterTook, MasterMoves, GreenBusPhase, Err
      <3>5. Resting(y) \/ TargetFailed(y)
        BY <2>1, <3>1, <3>2, <3>3, <3>4
        DEF MasterTook, MasterKeeps, Resting, Agree, At, TargetFailed, Queues, Quiet, IsWrite
      <3> QED BY <1>1, <3>3, <3>4, <3>5 DEF Good, Stage, TargetStage, MasterTook, MasterKeeps, y
    <2>3. CASE \E b, c \in 0 .. Burst :
                 Queues(x, <<Msg("END_REQ", c, "error"), Msg("BEGIN_RESP", b, "error")>>, <<>>)
      <3>1. PICK b, c \in 0 .. Burst :
              x.bwq = <<Msg("END_REQ", c, "error"), Msg("BEGIN_RESP", b, "error")>> /\ x.fwq = <<>>
        BY <2>3 DEF Queues
      <3>2. Head(x.bwq) = Msg("END_REQ", c, "error") /\ Tail(x.bwq) = <<Msg("BEGIN_RESP", b, "error")>>
        BY <3>1, Fifo
      <3>3. /\ y \in Txn /\ MasterKeeps(y, x) /\ y.bwq = Tail(x.bwq) /\ y.resp = "error" /\ y.bv = c
            /\ y.req = TRUE /\ y.mu = x.mu /\ y.mout = x.mout /\ y.legal = x.legal
        BY <1>1, <1>2, <3>2, MasterTakes DEF Phases, Statuses
      <3> HIDE DEF y
      <3>4. TargetFailed(y)
        BY <2>1, <3>1, <3>2, <3>3 DEF MasterKeeps, TargetFailed, Queues, Quiet, IsWrite
      <3> QED BY <1>1, <3>3, <3>4 DEF Good, Stage, TargetStage, MasterKeeps, y
    <2> QED BY <1>8, <2>1, <2>2, <2>3 DEF TargetFailed
  <1>9. CASE TargetEnded(x)
    <2>1. /\ x.mu = "data" /\ x.su = "done" /\ x.sent = Burst /\ x.fwq = <<>>
          /\ x.sout = "error" \/ (x.sout = "ok" /\ ~conf.wr_resp)
      BY <1>9 DEF TargetEnded, At, Queues
    <2> DEFINE r == x.sout
    <2>2. Head(x.bwq) = Msg("END_DATA", Burst, r) /\ Tail(x.bwq) = <<>>
      BY <1>9, Fifo DEF TargetEnded, Queues
    <2>3. MasterTook(y, x, "END_DATA", Burst, r)
      <3>1. "END_DATA" \in Phases /\ r \in Statuses /\ ("END_DATA" # "END_REQ" \/ r # "error")
        BY <2>1 DEF Phases, Statuses
      <3> HIDE DEF y, r
      <3>2. MasterTook(BwPeq(x), x, "END_DATA", Burst, r)
        BY <1>1, <1>2, <1>3, <2>2, <3>1, MasterHears
      <3> QED BY <3>2 DEF y
    <2> HIDE DEF y
    <2>4. y.legal = x.legal /\ y.mu = "done" /\ y.mout = x.sout
      BY <1>3, <2>1, <2>3 DEF MasterTook, MasterMoves, GreenBusPhase
    <2>5. Resting(y)
      BY <2>1, <2>2, <2>3, <2>4 DEF MasterTook, MasterKeeps, Resting, Agree, At, Queues, Quiet
    <2> QED BY <1>1, <2>3, <2>4, <2>5 DEF Good, Stage, TargetStage, MasterTook, MasterKeeps, y
  <1>10. TargetWrite(x) => x.mu = "req" \/ x.mu = "data"
    BY DEF TargetWrite, Quiet, Queues, At
  <1> QED BY <1>1, <1>4, <1>5, <1>6, <1>7, <1>8, <1>9, <1>10 DEF TargetStage, TargetRefused, Resting, Quiet, Queues
-----------------------------------------------------------------------------
(* What a base protocol initiator leaves alone *)
InitiatorKeeps(y, x) ==
  /\ y \in Txn /\ y.cmd = x.cmd /\ y.resp = x.resp /\ y.bv = x.bv /\ y.sc = x.sc /\ y.serr = x.serr
  /\ y.bwq = x.bwq /\ y.fwq = x.fwq /\ y.su = x.su /\ y.sent = x.sent /\ y.sout = x.sout
  /\ y.assert = x.assert

(* It takes the end of its request. *)
LEMMA InitiatorHears ==
  ASSUME conf.link = "initiator", NEW x \in Txn, x.mu = "req", NEW r \in BwSend(x, "END_REQ")
  PROVE  InitiatorKeeps(r.x, x) /\ r.x.mu = "resp" /\ r.x.legal = x.legal
  <1> DEFINE y == [x EXCEPT !.mu = "resp", !.legal = @ /\ x.mu = "req"]
  <1>1. InitiatorKeeps(y, x) /\ y.mu = "resp" /\ y.legal = x.legal
    BY DEF Txn, InitiatorKeeps
  <1>2. r = Result(y, "ACCEPTED", "none")
    BY DEF BwSend, InitiatorReceives, Accepted
  <1> HIDE DEF y
  <1>3. r.x = y
    BY <1>2 DEF Result
  <1> QED BY <1>1, <1>3

(* It takes a response, and may end it at once. *)
LEMMA InitiatorAnswers ==
  ASSUME conf.link = "initiator", NEW x \in Txn, x.mu \in {"req", "resp"}, x.resp \in {"ok", "error"},
         NEW r \in BwSend(x, "BEGIN_RESP")
  PROVE  /\ InitiatorKeeps(r.x, x) /\ r.x.mout = x.resp /\ r.x.legal = x.legal
         /\ IF Ended(r) THEN r.x.mu = "done" ELSE r.x.mu = "ack" /\ r.ret # "COMPLETED"
  <1> DEFINE y == [x EXCEPT !.legal = @ /\ x.mu \in {"req", "resp"}, !.mout = x.resp]
             a == [y EXCEPT !.mu = "ack"]
             d == MasterDone(y, y.resp)
  <1>1. InitiatorKeeps(y, x) /\ y.legal = x.legal /\ y.mout = x.resp /\ y.resp = x.resp
    BY ZenonT(60) DEF Txn, InitiatorKeeps
  <1>2. \/ r = Result(a, "ACCEPTED", "none")
        \/ r = Result(d, "COMPLETED", "none")
        \/ r = Result(d, "UPDATED", "END_RESP")
    BY DEF BwSend, InitiatorReceives, Accepted
  <1> HIDE DEF y
  <1>3. InitiatorKeeps(a, x) /\ a.legal = x.legal /\ a.mout = x.resp /\ a.mu = "ack"
    BY <1>1 DEF Txn, InitiatorKeeps
  <1>4. InitiatorKeeps(d, x) /\ d.legal = x.legal /\ d.mout = x.resp /\ d.mu = "done"
    <2>1. ASSUME NEW p \in Txn, NEW e \in {"ok", "error"}
          PROVE  LET q == MasterDone(p, e) IN
                 InitiatorKeeps(q, p) /\ q.legal = p.legal /\ q.mout = e /\ q.mu = "done"
      BY ZenonT(60) DEF Txn, InitiatorKeeps, MasterDone
    <2>2. y \in Txn /\ y.resp \in {"ok", "error"}
      BY <1>1 DEF InitiatorKeeps
    <2>3. InitiatorKeeps(d, y) /\ d.legal = y.legal /\ d.mout = y.resp /\ d.mu = "done"
      BY <2>1, <2>2
    <2> HIDE DEF d
    <2> QED BY <1>1, <2>3 DEF InitiatorKeeps
  <1> HIDE DEF a, d
  <1>5. \/ r.x = a /\ r.ret = "ACCEPTED" /\ r.ph = "none"
        \/ r.x = d /\ r.ret = "COMPLETED" /\ r.ph = "none"
        \/ r.x = d /\ r.ret = "UPDATED" /\ r.ph = "END_RESP"
    BY <1>2 DEF Result
  <1> QED BY <1>3, <1>4, <1>5 DEF Ended

(* The initiator starts a transaction. *)
LEMMA InitiatorStarts ==
  ASSUME conf \in Confs, conf.link = "initiator", NEW x, Good(x), Free(x), NEW cmd \in {"read", "write"},
         NEW y \in Sent(SlaveReceives(Start(x, cmd), "BEGIN_REQ"))
  PROVE  Good(y)
  <1>1. x \in Txn /\ x.assert /\ x.legal /\ Burst \in 0 .. Burst
    BY BurstAssumption DEF Good
  <1> DEFINE v == Start(x, cmd)
             w == [v EXCEPT !.sc = FALSE, !.serr = @ /\ "BEGIN_REQ" # "BEGIN_REQ"]
             z == [w EXCEPT !.bv = Burst]
  <1>2. /\ v \in Txn /\ v.resp = "incomplete" /\ At(v, "req", "idle") /\ v.sent = 0
        /\ Quiet(v) /\ v.assert /\ v.legal
    BY <1>1, Starting
  <1>3. y = FwEnq(z, "BEGIN_REQ")
    BY DEF Sent, SlaveReceives, Accepted, Result, Gsgp
  <1> HIDE DEF v
  <1>4. /\ z \in Txn /\ z.resp = "incomplete" /\ z.mu = "req" /\ z.su = "idle" /\ z.sent = 0
        /\ z.bwq = <<>> /\ z.fwq = <<>> /\ z.assert /\ z.legal /\ ~z.sc /\ ~z.serr /\ z.bv = Burst
    <2>1. /\ w \in Txn /\ w.resp = "incomplete" /\ w.mu = "req" /\ w.su = "idle" /\ w.sent = 0
          /\ w.bwq = <<>> /\ w.fwq = <<>> /\ w.assert /\ w.legal /\ ~w.sc /\ ~w.serr
      BY <1>2, ZenonT(60) DEF Txn, At, Quiet, Queues
    <2> HIDE DEF w
    <2> QED BY <1>1, <2>1 DEF Txn
  <1> HIDE DEF z
  <1>5. FwEnqueued(y, z, Msg("BEGIN_REQ", z.bv, z.resp))
    BY <1>3, <1>4, Enqueues DEF Phases
  <1>6. y.fwq = <<Msg("BEGIN_REQ", Burst, "incomplete")>>
    BY <1>4, <1>5, Fifo DEF FwEnqueued
  <1>7. InitiatorRequest(y)
    BY <1>4, <1>5, <1>6 DEF InitiatorRequest, FwEnqueued, FwKeeps, Queues
  <1> QED BY <1>4, <1>5, <1>7 DEF Good, Stage, InitiatorStage, FwEnqueued, FwKeeps

(* The initiator ends the response it was given. *)
LEMMA InitiatorEndsResp ==
  ASSUME conf \in Confs, conf.link = "initiator", NEW x, Good(x), x.mu = "ack",
         NEW y \in Sent(SlaveReceives(MasterDone(x, x.mout), "END_RESP"))
  PROVE  Good(y)
  <1>1. x \in Txn /\ x.assert /\ x.legal /\ InitiatorStage(x)
    BY DEF Good, Stage
  <1>2. /\ Quiet(x) /\ x.resp = x.sout /\ x.mout = x.sout /\ x.sout \in {"ok", "error"}
        /\ \/ x.su = "respwait" /\ ~x.serr /\ (IsWrite(x) => conf.wr_resp)
           \/ /\ x.su = "done"
              /\ (x.sout = "error" /\ x.serr) \/ (x.sout = "ok" /\ IsWrite(x) /\ ~conf.wr_resp)
    BY <1>1 DEF InitiatorStage, InitiatorRequest, InitiatorResponse, InitiatorEnded, Resting, At, Txn
  <1>3. Burst \in 0 .. Burst /\ ~Gsgp
    BY BurstAssumption DEF Gsgp
  <1> DEFINE v == MasterDone(x, x.mout)
             w == [v EXCEPT !.sc = FALSE, !.serr = @ /\ "END_RESP" # "BEGIN_REQ"]
             z == [w EXCEPT !.bv = Burst]
             k == [z EXCEPT !.resp = "ok"]
  <1>4. /\ v \in Txn /\ v.resp = x.sout /\ v.mu = "done" /\ v.su = x.su /\ v.mout = x.sout /\ v.sout = x.sout
        /\ v.bwq = <<>> /\ v.fwq = <<>> /\ v.assert /\ v.legal /\ v.serr = x.serr /\ v.cmd = x.cmd
    BY <1>1, <1>2 DEF Txn, Quiet, Queues, MasterDone
  <1>5. SlaveReceives(v, "END_RESP") =
          IF Err(w) /\ w.serr THEN Accepted(w)
          ELSE IF IsWrite(v) THEN {Result(IF conf.wr_resp THEN FwEnq(k, "END_RESP") ELSE k, "COMPLETED", "none")}
          ELSE Accepted(FwEnq(z, "END_RESP"))
    BY <1>3 DEF SlaveReceives
  <1> HIDE DEF v
  <1>6. /\ w \in Txn /\ w.resp = x.sout /\ w.mu = "done" /\ w.su = x.su /\ w.mout = x.sout /\ w.sout = x.sout
        /\ w.bwq = <<>> /\ w.fwq = <<>> /\ w.assert /\ w.legal /\ w.serr = x.serr /\ w.cmd = x.cmd
    BY <1>4 DEF Txn
  <1> HIDE DEF w
  <1>7. /\ z \in Txn /\ z.resp = x.sout /\ z.mu = "done" /\ z.su = x.su /\ z.mout = x.sout /\ z.sout = x.sout
        /\ z.bwq = <<>> /\ z.fwq = <<>> /\ z.assert /\ z.legal /\ z.cmd = x.cmd /\ z.bv = Burst
    BY <1>3, <1>6 DEF Txn
  <1> HIDE DEF z
  <1>8. /\ k \in Txn /\ k.resp = "ok" /\ k.mu = "done" /\ k.su = x.su /\ k.mout = x.sout /\ k.sout = x.sout
        /\ k.bwq = <<>> /\ k.fwq = <<>> /\ k.assert /\ k.legal /\ k.cmd = x.cmd /\ k.bv = Burst
    BY <1>7 DEF Txn, Statuses
  <1> HIDE DEF k
  <1>9. /\ \A q : q.x \in Sent({q})
        /\ y = IF Err(w) /\ w.serr THEN w
               ELSE IF IsWrite(v) THEN IF conf.wr_resp THEN FwEnq(k, "END_RESP") ELSE k
               ELSE FwEnq(z, "END_RESP")
    BY <1>5 DEF Sent, Accepted, Result, v
  <1>10. ASSUME NEW p \in Txn, p.resp \in {"ok", x.sout}, p.mu = "done", p.su = "respwait", p.mout = x.sout, p.sout = x.sout,
                p.bwq = <<>>, p.fwq = <<>>, p.assert, p.legal, p.bv = Burst, p.cmd = x.cmd, y = FwEnq(p, "END_RESP"),
                IsWrite(x) => conf.wr_resp
         PROVE  Good(y)
    <2>1. FwEnqueued(y, p, Msg("END_RESP", p.bv, p.resp))
      BY <1>10, Enqueues DEF Phases
    <2>2. y.fwq = <<Msg("END_RESP", Burst, p.resp)>>
      BY <1>10, <2>1, Fifo DEF FwEnqueued
    <2>3. InitiatorResponse(y)
      BY <1>2, <1>10, <2>1, <2>2 DEF InitiatorResponse, FwEnqueued, FwKeeps, At, Queues, IsWrite
    <2> QED BY <1>10, <2>1, <2>3 DEF Good, Stage, InitiatorStage, FwEnqueued, FwKeeps
  <1>11. ASSUME NEW p \in Txn, p.mu = "done", p.su = "done", p.mout = x.sout, p.sout = x.sout,
                p.bwq = <<>>, p.fwq = <<>>, p.assert, p.legal, y = p
         PROVE  Good(y)
    <2>1. Resting(y)
      BY <1>2, <1>11 DEF Resting, Quiet, Queues, At, Agree
    <2> QED BY <1>11, <2>1 DEF Good, Stage, InitiatorStage
  <1>12. (Err(w) <=> x.sout = "error") /\ (IsWrite(v) <=> IsWrite(x))
    BY <1>4, <1>6 DEF Err, IsWrite
  <1>13. CASE x.su = "respwait"
    <2>1. ~w.serr
      BY <1>2, <1>6, <1>13
    <2>2. CASE IsWrite(x)
      <3>1. y = FwEnq(k, "END_RESP") /\ conf.wr_resp
        BY <1>2, <1>9, <1>12, <1>13, <2>1, <2>2
      <3> QED BY <1>8, <1>10, <1>13, <3>1
    <2>3. CASE ~IsWrite(x)
      <3>1. y = FwEnq(z, "END_RESP")
        BY <1>9, <1>12, <2>1, <2>3
      <3> QED BY <1>7, <1>10, <1>13, <2>3, <3>1
    <2> QED BY <2>2, <2>3
  <1>14. CASE x.su = "done"
    <2>1. CASE x.sout = "error" /\ x.serr
      <3>1. y = w
        BY <1>6, <1>9, <1>12, <2>1
      <3> QED BY <1>6, <1>11, <1>14, <3>1
    <2>2. CASE x.sout = "ok" /\ IsWrite(x) /\ ~conf.wr_resp
      <3>1. y = k
        BY <1>9, <1>12, <2>2
      <3> QED BY <1>8, <1>11, <1>14, <3>1
    <2> QED BY <1>2, <1>14, <2>1, <2>2
  <1> QED BY <1>2, <1>13, <1>14

(* The user of the slave accepts the request of a base protocol initiator. *)
LEMMA InitiatorAckRequest ==
  ASSUME conf \in Confs, conf.link = "initiator", NEW x, Good(x), x.su = "req",
         NEW y \in AckRequest(AfterRequest(x))
  PROVE  Good(y) /\ y.cmd = x.cmd /\ y.su = IF IsWrite(x) THEN "wait" ELSE "resp"
  <1>1. x \in Txn /\ x.assert /\ x.legal /\ InitiatorStage(x)
    BY DEF Good, Stage
  <1>2. x.resp = "incomplete" /\ x.mu = "req" /\ x.sent = 0 /\ ~x.sc /\ ~x.serr /\ Quiet(x)
    BY <1>1 DEF InitiatorStage, InitiatorRequest, InitiatorResponse, InitiatorEnded, Resting, At
  <1>3. Burst \in 0 .. Burst /\ ~Gsgp /\ Burst \in Nat /\ Burst > 0
    BY BurstAssumption DEF Gsgp
  <1> DEFINE w == AfterRequest(x)
             z == [w EXCEPT !.bv = Burst]
  <1>4. /\ w \in Txn /\ w.resp = "incomplete" /\ w.sent = 0 /\ w.mu = "req" /\ w.bwq = <<>> /\ ~w.sc /\ ~w.serr
        /\ w.fwq = <<>> /\ w.cmd = x.cmd /\ w.su = (IF IsWrite(x) THEN "wait" ELSE "resp") /\ w.assert /\ w.legal
    BY <1>1, <1>2 DEF Txn, AfterRequest, Quiet, Queues
  <1>5. y \in IF IsWrite(x) THEN {FwEnq(z, "BEGIN_DATA")} ELSE Sent(BwSend(w, "END_REQ"))
    <2>1. (IsWrite(w) <=> IsWrite(x)) /\ ~w.sc
      BY <1>4 DEF IsWrite
    <2>2. y \in AckRequest(w)
      OBVIOUS
    <2> HIDE DEF w
    <2> QED BY <1>3, <2>1, <2>2 DEF AckRequest
  <1> HIDE DEF w
  <1>6. CASE IsWrite(x)
    <2>1. /\ z \in Txn /\ z.resp = "incomplete" /\ z.sent = 0 /\ z.mu = "req" /\ z.bwq = <<>> /\ ~z.sc /\ ~z.serr
          /\ z.fwq = <<>> /\ z.cmd = x.cmd /\ z.su = "wait" /\ z.assert /\ z.legal /\ z.bv = Burst
      BY <1>3, <1>4, <1>6 DEF Txn
    <2> HIDE DEF z
    <2>2. FwEnqueued(y, z, Msg("BEGIN_DATA", z.bv, z.resp))
      BY <1>5, <1>6, <2>1, Enqueues DEF Phases
    <2>3. y.fwq = <<Msg("BEGIN_DATA", Burst, "incomplete")>>
      BY <2>1, <2>2, Fifo DEF FwEnqueued
    <2>4. InitiatorRequest(y)
      BY <1>6, <2>1, <2>2, <2>3 DEF InitiatorRequest, FwEnqueued, FwKeeps, Queues, IsWrite
    <2> QED BY <1>6, <2>1, <2>2, <2>4 DEF Good, Stage, InitiatorStage, FwEnqueued, FwKeeps
  <1>7. CASE ~IsWrite(x)
    <2>1. PICK r \in BwSend(w, "END_REQ") : y = r.x
      BY <1>5, <1>7 DEF Sent
    <2>2. InitiatorKeeps(y, w) /\ y.mu = "resp" /\ y.legal = w.legal
      BY <1>4, <2>1, InitiatorHears
    <2>3. InitiatorResponse(y)
      BY <1>3, <1>4, <1>7, <2>2 DEF InitiatorResponse, InitiatorKeeps, At, Quiet, Queues, IsWrite
    <2> QED BY <1>4, <1>7, <2>2, <2>3 DEF Good, Stage, InitiatorStage, InitiatorKeeps
  <1> QED BY <1>6, <1>7

(* The user of the slave accepts the data of a base protocol initiator. *)
LEMMA InitiatorAckData ==
  ASSUME conf \in Confs, conf.link = "initiator", NEW x, Good(x), x.su = "data",
         NEW y \in AckData(AfterData(x))
  PROVE  Good(y)
  <1>1. x \in Txn /\ x.assert /\ x.legal /\ InitiatorStage(x)
    BY DEF Good, Stage
  <1>2. /\ x.resp = "incomplete" /\ x.mu = "req" /\ x.sent = 0 /\ ~x.sc /\ ~x.serr /\ Quiet(x)
        /\ IsWrite(x) /\ x.bv = Burst
    BY <1>1 DEF InitiatorStage, InitiatorRequest, InitiatorResponse, InitiatorEnded, Resting, At
  <1>3. Burst \in 0 .. Burst /\ ~Gsgp /\ Burst \in Nat /\ Burst > 0
    BY BurstAssumption DEF Gsgp
  <1> DEFINE w == AfterData(x)
  <1>4. /\ w \in Txn /\ w.resp = "incomplete" /\ w.sent = 0 /\ w.mu = "req" /\ w.bwq = <<>> /\ ~w.sc /\ ~w.serr
        /\ w.fwq = <<>> /\ w.cmd = "write" /\ w.assert /\ w.legal
        /\ IF conf.wr_resp THEN w.su = "resp" ELSE w.su = "done" /\ w.sout = "ok"
    <2>1. CASE conf.wr_resp
      <3>1. w = [x EXCEPT !.su = "resp"]
        BY <1>2, <1>3, <2>1 DEF AfterData
      <3> QED BY <1>1, <1>2, <2>1, <3>1 DEF Txn, Quiet, Queues, IsWrite
    <2>2. CASE ~conf.wr_resp
      <3>1. w = [x EXCEPT !.su = "done", !.sout = "ok"]
        BY <1>2, <1>3, <2>2 DEF AfterData, SlaveDone
      <3> QED BY <1>1, <1>2, <2>2, <3>1, ZenonT(60) DEF Txn, Quiet, Queues, IsWrite
    <2> QED BY <2>1, <2>2
  <1>5. y \in AckData(w)
    OBVIOUS
  <1> HIDE DEF w
  <1>6. PICK r \in BwSend(w, "END_REQ") :
          y \in IF conf.wr_resp THEN {r.x}
                ELSE {[q.x EXCEPT !.sc = @ \/ q.ret = "COMPLETED"] : q \in BwSend([r.x EXCEPT !.resp = "ok"], "BEGIN_RESP")}
    BY <1>3, <1>4, <1>5 DEF AckData
  <1> DEFINE v == r.x
  <1>7. InitiatorKeeps(v, w) /\ v.mu = "resp" /\ v.legal = w.legal
    BY <1>4, InitiatorHears
  <1> HIDE DEF v
  <1>8. CASE conf.wr_resp
    <2>1. y = v
      BY <1>6, <1>8 DEF v
    <2>2. InitiatorResponse(y)
      BY <1>4, <1>7, <1>8, <2>1 DEF InitiatorResponse, InitiatorKeeps, At, Quiet, Queues, IsWrite
    <2> QED BY <1>4, <1>7, <2>1, <2>2 DEF Good, Stage, InitiatorStage, InitiatorKeeps
  <1>9. CASE ~conf.wr_resp
    <2> DEFINE k == [v EXCEPT !.resp = "ok"]
    <2>1. PICK q \in BwSend(k, "BEGIN_RESP") : y = [q.x EXCEPT !.sc = @ \/ q.ret = "COMPLETED"]
      BY <1>6, <1>9 DEF v
    <2>2. /\ k \in Txn /\ k.resp = "ok" /\ k.mu = "resp" /\ k.bwq = <<>> /\ k.fwq = <<>> /\ k.cmd = "write"
          /\ k.assert /\ k.legal /\ k.su = "done" /\ k.sout = "ok"
      <3>1. /\ v \in Txn /\ v.mu = "resp" /\ v.bwq = <<>> /\ v.fwq = <<>> /\ v.cmd = "write"
            /\ v.assert /\ v.legal /\ v.su = "done" /\ v.sout = "ok"
        BY <1>4, <1>7, <1>9 DEF InitiatorKeeps
      <3> QED BY <3>1 DEF Txn, Statuses
    <2> HIDE DEF k
    <2> DEFINE p == q.x
               s == p.sc \/ q.ret = "COMPLETED"
    <2>3. /\ InitiatorKeeps(p, k) /\ p.mout = "ok" /\ p.legal
          /\ p.mu = "done" \/ p.mu = "ack"
      BY <2>2, InitiatorAnswers
    <2>4. y = [p EXCEPT !.sc = s]
      BY <2>1
    <2>5. s \in BOOLEAN
      BY <2>3 DEF InitiatorKeeps, Txn
    <2> HIDE DEF p, s
    <2>6. /\ y \in Txn /\ y.mu = p.mu /\ y.su = p.su /\ y.mout = p.mout /\ y.sout = p.sout /\ y.bwq = p.bwq
          /\ y.fwq = p.fwq /\ y.resp = p.resp /\ y.cmd = p.cmd /\ y.assert = p.assert /\ y.legal = p.legal
      <3>1. p \in Txn
        BY <2>3 DEF InitiatorKeeps
      <3> QED BY <2>4, <2>5, <3>1 DEF Txn
    <2>7. InitiatorEnded(y) \/ Resting(y)
      BY <1>9, <2>2, <2>3, <2>6 DEF InitiatorEnded, Resting, Agree, InitiatorKeeps, At, Quiet, Queues, IsWrite
    <2> QED BY <2>2, <2>3, <2>6, <2>7 DEF Good, Stage, InitiatorStage, InitiatorKeeps
  <1> QED BY <1>8, <1>9

(* The user of the slave answers a request or data with an error. *)
LEMMA InitiatorErrors ==
  ASSUME conf \in Confs, conf.link = "initiator", NEW x, Good(x), x.su \in {"req", "data"},
         NEW y \in SendError(SlaveDone(x, "error"), "BEGIN_RESP")
  PROVE  Good(y)
  <1>1. x \in Txn /\ x.assert /\ x.legal /\ InitiatorStage(x)
    BY DEF Good, Stage
  <1>2. x.mu = "req" /\ ~x.sc /\ Quiet(x)
    BY <1>1 DEF InitiatorStage, InitiatorRequest, InitiatorResponse, InitiatorEnded, Resting, At
  <1> DEFINE u == SlaveDone(x, "error")
             v == Check(u, ~u.sc)
             w == [v EXCEPT !.resp = "error", !.serr = TRUE]
  <1>3. /\ u \in Txn /\ ~u.sc /\ u.sout = "error" /\ u.su = "done" /\ u.mu = "req" /\ u.bwq = <<>> /\ u.fwq = <<>>
        /\ u.assert /\ u.legal
    BY <1>1, <1>2 DEF Txn, SlaveDone, Quiet, Queues
  <1> HIDE DEF u
  <1>4. v = u
    <2>1. v = [u EXCEPT !.assert = TRUE]
      BY <1>3 DEF Check
    <2> QED BY <2>1, <1>3, Holding
  <1> HIDE DEF v
  <1>5. /\ w \in Txn /\ w.resp = "error" /\ w.sout = "error" /\ w.su = "done" /\ w.mu = "req" /\ w.bwq = <<>>
        /\ w.fwq = <<>> /\ w.assert /\ w.legal /\ w.serr
    BY <1>3, <1>4 DEF Txn, Statuses
  <1>6. PICK r \in BwSend(w, "BEGIN_RESP") : y = [r.x EXCEPT !.sc = @ \/ Ended(r)]
    BY DEF SendError, u, v, w
  <1> HIDE DEF w
  <1> DEFINE p == r.x
             s == p.sc \/ Ended(r)
  <1>7. /\ InitiatorKeeps(p, w) /\ p.mout = "error" /\ p.legal
        /\ p.mu = "done" \/ p.mu = "ack"
    BY <1>5, InitiatorAnswers
  <1>8. y = [p EXCEPT !.sc = s]
    BY <1>6
  <1>9. s \in BOOLEAN
    BY <1>7 DEF InitiatorKeeps, Txn, Ended
  <1> HIDE DEF p, s
  <1>10. /\ y \in Txn /\ y.mu = p.mu /\ y.su = p.su /\ y.mout = p.mout /\ y.sout = p.sout /\ y.bwq = p.bwq
         /\ y.fwq = p.fwq /\ y.resp = p.resp /\ y.serr = p.serr /\ y.assert = p.assert /\ y.legal = p.legal
    <2>1. p \in Txn
      BY <1>7 DEF InitiatorKeeps
    <2> QED BY <1>8, <1>9, <2>1 DEF Txn
  <1>11. InitiatorEnded(y) \/ Resting(y)
    BY <1>5, <1>7, <1>10 DEF InitiatorEnded, Resting, Agree, InitiatorKeeps, At, Quiet, Queues
  <1> QED BY <1>5, <1>7, <1>10, <1>11 DEF Good, Stage, InitiatorStage, InitiatorKeeps

(* The user of the slave responds. *)
LEMMA InitiatorResponds ==
  ASSUME conf \in Confs, conf.link = "initiator", NEW x, Good(x), x.su = "resp",
         NEW c \in 1 .. Burst, NEW e \in {"ok", "error"}, c < Burst => e = "ok" /\ ~IsWrite(x),
         NEW y \in Respond(x, c, e)
  PROVE  Good(y)
  <1>1. x \in Txn /\ x.assert /\ x.legal /\ InitiatorStage(x)
    BY DEF Good, Stage
  <1>2. x.mu = "resp" /\ ~x.sc /\ ~x.serr /\ Quiet(x) /\ (IsWrite(x) => conf.wr_resp)
    BY <1>1 DEF InitiatorStage, InitiatorRequest, InitiatorResponse, InitiatorEnded, Resting, At
  <1>3. c \in 0 .. Burst /\ Burst \in Nat /\ ~Gsgp
    BY BurstAssumption DEF Gsgp
  <1> DEFINE u == [x EXCEPT !.resp = e, !.sout = e, !.su = "respwait", !.sent = c]
             v == Check(u, ~u.sc /\ u.resp # "incomplete" /\ (IsWrite(u) => conf.wr_resp))
             w == [v EXCEPT !.bv = c]
  <1>4. /\ u \in Txn /\ ~u.sc /\ ~u.serr /\ u.resp = e /\ u.sout = e /\ u.sent = c /\ u.su = "respwait"
        /\ u.mu = "resp" /\ u.bwq = <<>> /\ u.fwq = <<>> /\ u.cmd = x.cmd /\ u.assert /\ u.legal
    BY <1>1, <1>2, <1>3 DEF Txn, Quiet, Queues, Statuses
  <1> HIDE DEF u
  <1>5. v = u
    <2>1. v = [u EXCEPT !.assert = TRUE]
      BY <1>2, <1>4 DEF Check, IsWrite
    <2> QED BY <1>4, <2>1, Holding
  <1> HIDE DEF v
  <1>6. /\ w \in Txn /\ ~w.sc /\ ~w.serr /\ w.resp = e /\ w.sout = e /\ w.sent = c /\ w.su = "respwait"
        /\ w.mu = "resp" /\ w.bwq = <<>> /\ w.fwq = <<>> /\ w.cmd = x.cmd /\ w.assert /\ w.legal /\ w.bv = c
    BY <1>3, <1>4, <1>5 DEF Txn
  <1>7. y \in IF c < Burst THEN {FwEnq(w, "END_RESP")}
              ELSE {IF Ended(r) THEN [FwEnq(r.x, "END_RESP") EXCEPT !.sc = @ \/ r.ret = "COMPLETED"] ELSE r.x :
                      r \in BwSend(w, "BEGIN_RESP")}
    BY <1>3 DEF Respond, Response, u, v, w
  <1> HIDE DEF w
  <1>8. CASE c < Burst
    <2>1. FwEnqueued(y, w, Msg("END_RESP", w.bv, w.resp))
      BY <1>6, <1>7, <1>8, Enqueues DEF Phases
    <2>2. y.fwq = <<Msg("END_RESP", c, "ok")>>
      BY <1>6, <1>8, <2>1, Fifo DEF FwEnqueued
    <2>3. InitiatorResponse(y)
      BY <1>6, <1>8, <2>1, <2>2 DEF InitiatorResponse, FwEnqueued, FwKeeps, At, Queues, IsWrite
    <2> QED BY <1>6, <2>1, <2>3 DEF Good, Stage, InitiatorStage, FwEnqueued, FwKeeps
  <1>9. CASE ~(c < Burst)
    <2>0. c = Burst
      BY <1>3, <1>9
    <2>1. PICK r \in BwSend(w, "BEGIN_RESP") :
            y = IF Ended(r) THEN [FwEnq(r.x, "END_RESP") EXCEPT !.sc = @ \/ r.ret = "COMPLETED"] ELSE r.x
      BY <1>7, <1>9
    <2> DEFINE p == r.x
               s == p.sc \/ r.ret = "COMPLETED"
               k == FwEnq(p, "END_RESP")
    <2>2. /\ InitiatorKeeps(p, w) /\ p.mout = e /\ p.legal
          /\ IF Ended(r) THEN p.mu = "done" ELSE p.mu = "ack"
      BY <1>6, InitiatorAnswers
    <2>3. /\ p \in Txn /\ ~p.sc /\ ~p.serr /\ p.resp = e /\ p.sout = e /\ p.su = "respwait"
          /\ p.bwq = <<>> /\ p.fwq = <<>> /\ p.cmd = x.cmd /\ p.assert /\ p.bv = Burst
      BY <1>6, <2>0, <2>2 DEF InitiatorKeeps
    <2> HIDE DEF p
    <2>4. CASE Ended(r)
      <3>1. FwEnqueued(k, p, Msg("END_RESP", p.bv, p.resp))
        BY <2>3, Enqueues DEF Phases
      <3>2. y = [k EXCEPT !.sc = k.sc \/ r.ret = "COMPLETED"]
        BY <2>1, <2>4 DEF p
      <3> DEFINE l == k.sc \/ r.ret = "COMPLETED"
      <3>3. l \in BOOLEAN
        BY <3>1 DEF FwEnqueued, Txn
      <3>4. y = [k EXCEPT !.sc = l]
        BY <3>2
      <3> HIDE DEF k, l
      <3>5. /\ y \in Txn /\ y.mu = k.mu /\ y.su = k.su /\ y.mout = k.mout /\ y.sout = k.sout /\ y.bwq = k.bwq
            /\ y.fwq = k.fwq /\ y.cmd = k.cmd /\ y.assert = k.assert /\ y.legal = k.legal
        <4>1. k \in Txn
          BY <3>1 DEF FwEnqueued
        <4> QED BY <3>3, <3>4, <4>1 DEF Txn
      <3>6. y.fwq = <<Msg("END_RESP", Burst, e)>>
        BY <2>3, <3>1, <3>5, Fifo DEF FwEnqueued
      <3>7. InitiatorResponse(y)
        BY <1>2, <2>2, <2>3, <2>4, <3>1, <3>5, <3>6 DEF InitiatorResponse, FwEnqueued, FwKeeps, At, Queues, IsWrite
      <3> QED BY <2>2, <2>3, <3>1, <3>5, <3>7 DEF Good, Stage, InitiatorStage, FwEnqueued, FwKeeps
    <2>5. CASE ~Ended(r)
      <3>1. y = p
        BY <2>1, <2>5 DEF p
      <3>2. InitiatorResponse(p)
        BY <1>2, <2>2, <2>3, <2>5 DEF InitiatorResponse, At, Quiet, Queues, IsWrite
      <3> QED BY <2>2, <2>3, <3>1, <3>2 DEF Good, Stage, InitiatorStage
    <2> QED BY <2>4, <2>5
  <1> QED BY <1>8, <1>9

(* fw_peq_cb behind a base protocol initiator *)
LEMMA InitiatorSlaveGets ==
  ASSUME conf \in Confs, conf.link = "initiator", NEW x, Good(x), x.fwq # <<>>
  PROVE  Good(SlaveGets(x))
  <1> DEFINE y == SlaveGets(x)
  <1>1. x \in Txn /\ x.assert /\ x.legal /\ InitiatorStage(x)
    BY DEF Good, Stage
  <1>2. ~Gsgp /\ conf.wr_resp \in BOOLEAN
    BY DEF Gsgp, Confs
  <1>3. x.sent \in 0 .. Burst /\ Burst \in 0 .. Burst /\ Burst \in Nat /\ Burst > 0
    BY <1>1, BurstAssumption DEF Txn
  <1>4. CASE InitiatorRequest(x) /\ x.su = "idle"
    <2>1. /\ x.fwq = <<Msg("BEGIN_REQ", Burst, "incomplete")>> /\ x.bwq = <<>> /\ x.mu = "req"
          /\ ~x.sc /\ ~x.serr /\ x.sent = 0
      BY <1>4 DEF InitiatorRequest, Queues, Quiet
    <2>2. Head(x.fwq) = Msg("BEGIN_REQ", Burst, "incomplete") /\ Tail(x.fwq) = <<>>
      BY <2>1, Fifo
    <2>3. SlaveTook(y, x, "BEGIN_REQ", Burst, "incomplete")
      BY <1>1, <1>3, <2>2, SlaveTakes DEF Phases, Statuses
    <2> HIDE DEF y
    <2>4. y.legal = x.legal /\ y.su = "req"
      BY <1>4, <2>3 DEF SlaveTook, SlaveMoves, GreenBusPhase
    <2>5. InitiatorRequest(y)
      BY <2>1, <2>2, <2>3, <2>4 DEF SlaveTook, SlaveKeeps, InitiatorRequest, Queues, Quiet
    <2> QED BY <1>1, <2>3, <2>4, <2>5 DEF Good, Stage, InitiatorStage, SlaveTook, SlaveKeeps, y
  <1>5. CASE InitiatorRequest(x) /\ x.su = "wait"
    <2>1. /\ x.fwq = <<Msg("BEGIN_DATA", Burst, "incomplete")>> /\ x.bwq = <<>> /\ x.mu = "req"
          /\ ~x.sc /\ ~x.serr /\ x.sent = 0 /\ IsWrite(x)
      BY <1>5 DEF InitiatorRequest, Queues, Quiet
    <2>2. Head(x.fwq) = Msg("BEGIN_DATA", Burst, "incomplete") /\ Tail(x.fwq) = <<>>
      BY <2>1, Fifo
    <2>3. SlaveTook(y, x, "BEGIN_DATA", Burst, "incomplete")
      BY <1>1, <1>3, <2>2, SlaveTakes DEF Phases, Statuses
    <2> HIDE DEF y
    <2>4. y.legal = x.legal /\ y.su = "data"
      BY <1>2, <1>5, <2>3 DEF SlaveTook, SlaveMoves, GreenBusPhase
    <2>5. InitiatorRequest(y)
      BY <2>1, <2>2, <2>3, <2>4 DEF SlaveTook, SlaveKeeps, InitiatorRequest, Queues, Quiet, IsWrite
    <2> QED BY <1>1, <2>3, <2>4, <2>5 DEF Good, Stage, InitiatorStage, SlaveTook, SlaveKeeps, y
  <1>6. CASE InitiatorResponse(x)
    <2>1. PICK b \in 0 .. Burst, r \in {"ok", "error"} :
            /\ x.fwq = <<Msg("END_RESP", b, r)>> /\ x.bwq = <<>> /\ x.su = "respwait"
            /\ \/ x.mu = "resp" /\ ~IsWrite(x) /\ x.sent < Burst /\ x.sout = "ok" /\ r = "ok" /\ b = x.sent
                  /\ ~x.sc /\ ~x.serr
               \/ x.mu = "done" /\ x.mout = x.sout /\ r \in {"ok", x.sout} /\ b = Burst
            /\ x.sout \in {"ok", "error"}
      <3>a. x.sout \in {"none", "ok", "error"}
        BY <1>1 DEF Txn
      <3>b. CASE /\ At(x, "resp", "respwait") /\ ~IsWrite(x) /\ x.sent < Burst /\ x.sout = "ok" /\ ~x.sc /\ ~x.serr
                 /\ Queues(x, <<>>, <<Msg("END_RESP", x.sent, "ok")>>)
        BY <1>3, <3>b DEF At, Queues
      <3>c. CASE /\ At(x, "done", "respwait") /\ x.sout # "none" /\ x.mout = x.sout
                 /\ \E r \in {"ok", x.sout} : Queues(x, <<>>, <<Msg("END_RESP", Burst, r)>>)
        <4>1. PICK r \in {"ok", x.sout} : Queues(x, <<>>, <<Msg("END_RESP", Burst, r)>>)
          BY <3>c
        <4>2. r \in {"ok", "error"}
          BY <3>a, <3>c, <4>1
        <4> QED BY <1>3, <3>a, <3>c, <4>1, <4>2 DEF At, Queues
      <3> QED BY <1>6, <3>b, <3>c DEF InitiatorResponse, Quiet, Queues
    <2>2. Head(x.fwq) = Msg("END_RESP", b, r) /\ Tail(x.fwq) = <<>>
      BY <2>1, Fifo
    <2> DEFINE gb == GreenBusPhase("END_RESP", r, FALSE)
    <2>3. gb \in {"ResponseError", "ResponseAccepted"} /\ (gb = "ResponseError" <=> r = "error")
      BY DEF GreenBusPhase
    <2>4. SlaveTook(y, x, "END_RESP", b, r)
      <3>1. "END_RESP" \in Phases /\ r \in Statuses
        BY DEF Phases, Statuses
      <3> QED BY <1>1, <2>2, <3>1, SlaveTakes, Zenon
    <2>5. /\ y \in Txn /\ SlaveKeeps(y, x) /\ y.fwq = Tail(x.fwq) /\ y.bv = b /\ SlaveMoves(y, x, gb)
      BY <2>4 DEF SlaveTook
    <2> HIDE DEF y, gb
    <2>6. /\ y.legal = x.legal
          /\ IF r = "error" \/ x.sout = "error" THEN y.su = "done" /\ y.sout = "error"
             ELSE IF b < Burst THEN y.su = "resp" ELSE y.su = "done" /\ y.sout = "ok"
      BY <2>1, <2>3, <2>5 DEF SlaveMoves
    <2>7. /\ y.mu = x.mu /\ y.mout = x.mout /\ Quiet(y) /\ y.sc = x.sc /\ y.serr = x.serr /\ y.cmd = x.cmd /\ y.sent = x.sent
      BY <2>1, <2>2, <2>5 DEF SlaveKeeps, Quiet, Queues
    <2>8. InitiatorResponse(y) \/ Resting(y)
      <3>1. CASE x.mu = "resp"
        BY <1>3, <2>1, <2>6, <2>7, <3>1 DEF InitiatorResponse, At, IsWrite
      <3>2. CASE x.mu = "done"
        BY <1>3, <2>1, <2>6, <2>7, <3>2 DEF Resting, Agree, At
      <3> QED BY <2>1, <3>1, <3>2
    <2> QED BY <1>1, <2>5, <2>6, <2>8 DEF Good, Stage, InitiatorStage, SlaveKeeps, y
  <1>7. InitiatorRequest(x) => x.su \in {"idle", "wait"}
    BY DEF InitiatorRequest, Quiet, Queues
  <1> QED BY <1>1, <1>4, <1>5, <1>6, <1>7 DEF InitiatorStage, InitiatorEnded, Resting, Quiet, Queues

(* fw_peq_cb and nb_from_f behind a base protocol initiator *)
LEMMA InitiatorSlavePeq ==
  ASSUME conf \in Confs, conf.link = "initiator", NEW x, Good(x), x.fwq # <<>>, NEW y \in FwPeq(x)
  PROVE  Good(y)
  <1> DEFINE z == SlaveGets(x)
  <1>1. Good(z)
    BY InitiatorSlaveGets
  <1>2. y \in IF conf.style = "f" THEN NbFromF(z) ELSE {z}
    BY DEF FwPeq, SlaveGets
  <1> HIDE DEF z
  <1>3. CASE y = z
    BY <1>1, <1>3
  <1>4. CASE z.su = "req" /\ y \in NbFromF(z)
    <2>1. PICK v \in AckRequest(AfterRequest(z)) : y \in IF IsWrite(v) THEN {v} ELSE Respond(v, Burst, "ok")
      BY <1>4 DEF NbFromF
    <2>2. Good(v) /\ v.cmd = z.cmd /\ v.su = IF IsWrite(z) THEN "wait" ELSE "resp"
      BY <1>1, <1>4, InitiatorAckRequest
    <2>3. CASE y = v
      BY <2>2, <2>3
    <2>4. CASE ~IsWrite(v) /\ y \in Respond(v, Burst, "ok")
      <3>1. v.su = "resp"
        BY <2>2, <2>4 DEF IsWrite
      <3>2. Burst \in 1 .. Burst /\ ~(Burst < Burst)
        BY BurstAssumption
      <3> QED BY <2>2, <2>4, <3>1, <3>2, InitiatorResponds
    <2> QED BY <2>1, <2>3, <2>4
  <1>5. CASE z.su = "data" /\ y \in NbFromF(z)
    <2>1. y \in AckData(AfterData(z))
      BY <1>5 DEF NbFromF
    <2> QED BY <1>1, <1>5, <2>1, InitiatorAckData
  <1>6. CASE z.su # "req" /\ z.su # "data" /\ y \in NbFromF(z)
    <2>1. y = z
      BY <1>6 DEF NbFromF
    <2> QED BY <2>1, <1>1
  <1> QED BY <1>2, <1>3, <1>4, <1>5, <1>6
-----------------------------------------------------------------------------
(* The pool starts with transactions nobody uses. *)
LEMMA SocketsInvInit == SocketsInit => SocketsInv
  <1> SUFFICES ASSUME SocketsInit PROVE SocketsInv
    OBVIOUS
  <1>1. conf \in Confs /\ conf.link \in {"gsgp", "target", "initiator"}
    BY DEF SocketsInit, Confs
  <1>2. Fresh \in Txn
    <2>1. 0 \in 0 .. Burst /\ <<>> \in Seq(Messages)
      BY BurstAssumption
    <2> QED BY <2>1 DEF Fresh, Txn, Statuses
  <1>3. Resting(Fresh) /\ Fresh.assert /\ Fresh.legal
    BY DEF Resting, Quiet, Queues, At, Fresh
  <1>4. Good(Fresh)
    BY <1>1, <1>2, <1>3 DEF Good, Stage, GsgpStage, TargetStage, InitiatorStage
  <1> QED BY <1>1, <1>4 DEF SocketsInit, SocketsInv

(* While the configuration is as it was, so are the stages of the transactions. *)
LEMMA SameConf ==
  ASSUME UNCHANGED conf, NEW x
  PROVE  Good(x) <=> Good(x)'
  BY DEF Good, Stage, GsgpStage, TargetStage, InitiatorStage, GsgpRequest, GsgpData, GsgpResponse,
         GsgpFailed, TargetRead, TargetWrite, TargetAnswered, TargetFailed, TargetEnded, TargetRefused,
         InitiatorRequest, InitiatorResponse, InitiatorEnded, AllSent

(* A handler that leaves one transaction at a stage of its link keeps the
   invariant. *)
LEMMA OneStep ==
  ASSUME SocketsInv, UNCHANGED conf, NEW t \in Txns, NEW ys, Step(t, ys), \A y \in ys : Good(y)
  PROVE  SocketsInv'
  <1>1. PICK y \in ys : txn' = [txn EXCEPT ![t] = y]
    BY DEF Step
  <1>2. \A x : Good(x) <=> Good(x)'
    BY SameConf
  <1>3. \A s \in Txns : txn'[s] = IF s = t THEN y ELSE txn[s]
    BY <1>1 DEF SocketsInv
  <1>4. DOMAIN txn' = Txns
    BY <1>1 DEF SocketsInv
  <1> QED BY <1>1, <1>2, <1>3, <1>4 DEF SocketsInv

(* A link is one of three. *)
LEMMA Links == conf \in Confs => conf.link \in {"gsgp", "target", "initiator"}
  BY DEF Confs

(* The queue of an idle side is empty: no phase goes the wrong way. *)
LEMMA OneWay ==
  ASSUME conf \in Confs, NEW x, Good(x)
  PROVE  /\ conf.link = "target" => x.fwq = <<>>
         /\ conf.link = "initiator" => x.bwq = <<>>
  <1>1. ASSUME conf.link = "target" PROVE x.fwq = <<>>
    BY <1>1 DEF Good, Stage, TargetStage, TargetRead, TargetWrite, TargetAnswered, TargetFailed, TargetEnded, TargetRefused,
                Resting, Quiet, Queues
  <1>2. ASSUME conf.link = "initiator" PROVE x.bwq = <<>>
    BY <1>2 DEF Good, Stage, InitiatorStage, InitiatorRequest, InitiatorResponse, InitiatorEnded,
                Resting, Quiet, Queues
  <1> QED BY <1>1, <1>2

(* The users of the master socket keep the invariant. *)
LEMMA MasterUsersKeep ==
  ASSUME SocketsInv, UNCHANGED conf, NEW t \in Txns,
         (\E cmd \in {"read", "write"} : UserRequests(t, cmd)) \/ UserSendsData(t) \/ UserAcks(t) \/ MasterPeq(t)
  PROVE  SocketsInv'
  <1> DEFINE x == txn[t]
  <1>1. conf \in Confs /\ Good(x) /\ conf.link \in {"gsgp", "target", "initiator"}
    BY Links DEF SocketsInv
  <1>2. ASSUME NEW cmd \in {"read", "write"}, UserRequests(t, cmd) PROVE SocketsInv'
    <2>1. conf.link \in {"gsgp", "target"} /\ Free(x) /\ Step(t, Request(Start(x, cmd)))
      BY <1>1, <1>2 DEF UserRequests
    <2> HIDE DEF x
    <2>2. \A y \in Request(Start(x, cmd)) : Good(y)
      BY <1>1, <2>1, GsgpRequests, TargetRequests
    <2> QED BY <2>1, <2>2, OneStep
  <1>3. CASE UserSendsData(t)
    <2> DEFINE ys == SendData([x EXCEPT !.mu = "data", !.sent = @ + 1], x.sent + 1)
    <2>1. conf.link \in {"gsgp", "target"} /\ x.mu = "send" /\ Step(t, ys)
      BY <1>1, <1>3 DEF UserSendsData
    <2> HIDE DEF x
    <2>2. \A y \in ys : Good(y)
      BY <1>1, <2>1, GsgpSendsData, TargetSendsData
    <2> HIDE DEF ys
    <2> QED BY <2>1, <2>2, OneStep
  <1>4. CASE UserAcks(t)
    <2> DEFINE z == IF ~IsWrite(x) /\ ~Err(x) /\ x.bv < Burst THEN [x EXCEPT !.mu = "resp"] ELSE MasterDone(x, x.resp)
               ys == AckResponse(z) \cup ErrorResponse(MasterDone(x, "rejected"))
    <2>1. conf.link \in {"gsgp", "target"} /\ x.mu = "ack" /\ Step(t, ys)
      BY <1>1, <1>4 DEF UserAcks
    <2> HIDE DEF x
    <2>2. z = IF ~IsWrite(x) /\ ~Err(x) /\ x.bv < Burst THEN [x EXCEPT !.mu = "resp"] ELSE MasterDone(x, x.resp)
      OBVIOUS
    <2> HIDE DEF z
    <2>3. \A y \in ys : Good(y)
      BY <1>1, <2>1, <2>2, GsgpAcks, TargetAcks
    <2> HIDE DEF ys
    <2> QED BY <2>1, <2>3, OneStep
  <1>5. CASE MasterPeq(t)
    <2>1. x.bwq # <<>> /\ Step(t, {BwPeq(x)})
      BY <1>5 DEF MasterPeq
    <2> HIDE DEF x
    <2>2. conf.link \in {"gsgp", "target"}
      BY <1>1, <2>1, OneWay
    <2>3. Good(BwPeq(x))
      BY <1>1, <2>1, <2>2, GsgpMasterPeq, TargetMasterPeq
    <2> QED BY <2>1, <2>3, OneStep
  <1> QED BY <1>2, <1>3, <1>4, <1>5

(* The base protocol initiator and the base protocol target keep the invariant. *)
LEMMA PeersKeep ==
  ASSUME SocketsInv, UNCHANGED conf, NEW t \in Txns,
         \/ \E cmd \in {"read", "write"} : InitiatorRequests(t, cmd)
         \/ InitiatorEnds(t) \/ TargetEndsReq(t)
         \/ \E r \in {"ok", "error"} : TargetResponds(t, r)
  PROVE  SocketsInv'
  <1> DEFINE x == txn[t]
  <1>1. conf \in Confs /\ Good(x)
    BY DEF SocketsInv
  <1>2. ASSUME NEW cmd \in {"read", "write"}, InitiatorRequests(t, cmd) PROVE SocketsInv'
    <2> DEFINE ys == Sent(SlaveReceives(Start(x, cmd), "BEGIN_REQ"))
    <2>1. conf.link = "initiator" /\ Free(x) /\ Step(t, ys)
      BY <1>2 DEF InitiatorRequests
    <2> HIDE DEF x
    <2>2. \A y \in ys : Good(y)
      BY <1>1, <2>1, InitiatorStarts
    <2> HIDE DEF ys
    <2> QED BY <2>1, <2>2, OneStep
  <1>3. CASE InitiatorEnds(t)
    <2> DEFINE ys == Sent(SlaveReceives(MasterDone(x, x.mout), "END_RESP"))
    <2>1. conf.link = "initiator" /\ x.mu = "ack" /\ Step(t, ys)
      BY <1>3 DEF InitiatorEnds
    <2> HIDE DEF x
    <2>2. \A y \in ys : Good(y)
      BY <1>1, <2>1, InitiatorEndsResp
    <2> HIDE DEF ys
    <2> QED BY <2>1, <2>2, OneStep
  <1>4. CASE TargetEndsReq(t)
    <2> DEFINE ys == Sent({MasterReceives([x EXCEPT !.su = "work"], "END_REQ")})
    <2>1. conf.link = "target" /\ x.su = "req" /\ Step(t, ys)
      BY <1>4 DEF TargetEndsReq
    <2> HIDE DEF x
    <2>2. \A y \in ys : Good(y)
      BY <1>1, <2>1, TargetSendsEndReq
    <2> HIDE DEF ys
    <2> QED BY <2>1, <2>2, OneStep
  <1>5. ASSUME NEW r \in {"ok", "error"}, TargetResponds(t, r) PROVE SocketsInv'
    <2> DEFINE q == MasterReceives([x EXCEPT !.resp = r, !.sout = r, !.su = "respwait"], "BEGIN_RESP")
               y == IF q.ret = "COMPLETED" THEN SlaveDone(q.x, r) ELSE q.x
    <2>1. conf.link = "target" /\ x.su \in {"req", "work"} /\ Step(t, {y})
      BY <1>5 DEF TargetResponds
    <2> HIDE DEF x
    <2>2. q = MasterReceives([x EXCEPT !.resp = r, !.sout = r, !.su = "respwait"], "BEGIN_RESP")
      OBVIOUS
    <2> HIDE DEF q
    <2>3. y = IF q.ret = "COMPLETED" THEN SlaveDone(q.x, r) ELSE q.x
      OBVIOUS
    <2> HIDE DEF y
    <2>4. Good(y)
      BY <1>1, <2>1, <2>2, <2>3, TargetSendsResp
    <2> QED BY <2>1, <2>4, OneStep
  <1> QED BY <1>2, <1>3, <1>4, <1>5

(* The users of the slave socket keep the invariant. *)
LEMMA SlaveUsersKeep ==
  ASSUME SocketsInv, UNCHANGED conf, NEW t \in Txns, UserAnswers(t) \/ SlavePeq(t)
  PROVE  SocketsInv'
  <1> DEFINE x == txn[t]
  <1>1. conf \in Confs /\ Good(x) /\ conf.link \in {"gsgp", "target", "initiator"}
    BY Links DEF SocketsInv
  <1>2. CASE UserAnswers(t)
    <2>1. /\ conf.link \in {"gsgp", "initiator"}
          /\ \/ /\ x.su = "req"
                /\ Step(t, AckRequest(AfterRequest(x)) \cup ErrorRequest(SlaveDone(x, "error")))
             \/ /\ x.su = "data"
                /\ Step(t, AckData(AfterData(x)) \cup ErrorData(SlaveDone(x, "error")))
             \/ /\ x.su = "resp"
                /\ Step(t, Respond(x, IF IsWrite(x) THEN Burst ELSE x.sent + 1, "ok") \cup Respond(x, Burst, "error"))
      BY <1>1, <1>2 DEF UserAnswers
    <2> HIDE DEF x
    <2>2. CASE /\ x.su = "req"
               /\ Step(t, AckRequest(AfterRequest(x)) \cup ErrorRequest(SlaveDone(x, "error")))
      <3> DEFINE ys == AckRequest(AfterRequest(x)) \cup ErrorRequest(SlaveDone(x, "error"))
      <3>1. ErrorRequest(SlaveDone(x, "error")) = SendError(SlaveDone(x, "error"), "BEGIN_RESP")
        BY DEF ErrorRequest
      <3>2. \A y \in AckRequest(AfterRequest(x)) : Good(y)
        BY <1>1, <2>1, <2>2, GsgpAckRequest, InitiatorAckRequest
      <3>3. \A y \in SendError(SlaveDone(x, "error"), "BEGIN_RESP") : Good(y)
        BY <1>1, <2>1, <2>2, GsgpErrors, InitiatorErrors
      <3>4. \A y \in ys : Good(y)
        BY <3>1, <3>2, <3>3
      <3> HIDE DEF ys
      <3> QED BY <2>2, <3>4, OneStep DEF ys
    <2>3. CASE /\ x.su = "data"
               /\ Step(t, AckData(AfterData(x)) \cup ErrorData(SlaveDone(x, "error")))
      <3> DEFINE ys == AckData(AfterData(x)) \cup ErrorData(SlaveDone(x, "error"))
      <3>1. ErrorData(SlaveDone(x, "error"))
              = SendError(SlaveDone(x, "error"), IF conf.link = "gsgp" THEN "END_DATA" ELSE "BEGIN_RESP")
        BY DEF ErrorData, Gsgp
      <3>2. \A y \in AckData(AfterData(x)) : Good(y)
        BY <1>1, <2>1, <2>3, GsgpAckData, InitiatorAckData
      <3>3. CASE conf.link = "gsgp"
        <4>1. \A y \in SendError(SlaveDone(x, "error"), "END_DATA") : Good(y)
          BY <1>1, <2>3, <3>3, GsgpErrors
        <4>2. \A y \in ys : Good(y)
          BY <3>1, <3>2, <3>3, <4>1
        <4> HIDE DEF ys
        <4> QED BY <2>3, <4>2, OneStep DEF ys
      <3>4. CASE conf.link = "initiator"
        <4>1. \A y \in SendError(SlaveDone(x, "error"), "BEGIN_RESP") : Good(y)
          BY <1>1, <2>3, <3>4, InitiatorErrors
        <4>2. \A y \in ys : Good(y)
          BY <3>1, <3>2, <3>4, <4>1
        <4> HIDE DEF ys
        <4> QED BY <2>3, <4>2, OneStep DEF ys
      <3> QED BY <2>1, <3>3, <3>4
    <2>4. CASE /\ x.su = "resp"
               /\ Step(t, Respond(x, IF IsWrite(x) THEN Burst ELSE x.sent + 1, "ok") \cup Respond(x, Burst, "error"))
      <3> DEFINE c == IF IsWrite(x) THEN Burst ELSE x.sent + 1
                 ys == Respond(x, c, "ok") \cup Respond(x, Burst, "error")
      <3>1. ~IsWrite(x) => x.sent < Burst
        <4>1. ASSUME conf.link = "gsgp", ~IsWrite(x) PROVE x.sent < Burst
          <5>1. GsgpRequest(x) \/ GsgpResponse(x)
            BY <1>1, <2>4, <4>1 DEF Good, Stage, GsgpStage, GsgpData, GsgpFailed, Resting, At
          <5>2. GsgpRequest(x) => x.sent < Burst
            BY BurstAssumption DEF GsgpRequest
          <5>3. GsgpResponse(x) => x.sent < Burst
            BY <2>4, <4>1 DEF GsgpResponse, At
          <5> QED BY <5>1, <5>2, <5>3
        <4>2. ASSUME conf.link = "initiator", ~IsWrite(x) PROVE x.sent < Burst
          BY <1>1, <2>4, <4>2
          DEF Good, Stage, InitiatorStage, InitiatorRequest, InitiatorResponse, InitiatorEnded, Resting, At
        <4> QED BY <2>1, <4>1, <4>2
      <3>2. c \in 1 .. Burst /\ Burst \in 1 .. Burst /\ (IsWrite(x) => c = Burst) /\ ~(Burst < Burst)
        <4>1. x.sent \in 0 .. Burst
          BY <1>1 DEF Good, Txn
        <4> QED BY <3>1, <4>1, BurstAssumption
      <3>3. c < Burst => ~IsWrite(x)
        BY <3>2
      <3> HIDE DEF c
      <3>4. \A y \in Respond(x, c, "ok") : Good(y)
        BY <1>1, <2>1, <2>4, <3>2, <3>3, GsgpResponds, InitiatorResponds
      <3>5. \A y \in Respond(x, Burst, "error") : Good(y)
        BY <1>1, <2>1, <2>4, <3>2, GsgpResponds, InitiatorResponds
      <3>6. \A y \in ys : Good(y)
        BY <3>4, <3>5
      <3>7. Step(t, ys)
        BY <2>4 DEF c
      <3> HIDE DEF ys
      <3> QED BY <3>6, <3>7, OneStep
    <2> QED BY <2>1, <2>2, <2>3, <2>4
  <1>3. CASE SlavePeq(t)
    <2>1. x.fwq # <<>> /\ Step(t, FwPeq(x))
      BY <1>3 DEF SlavePeq
    <2> HIDE DEF x
    <2>2. conf.link \in {"gsgp", "initiator"}
      BY <1>1, <2>1, OneWay
    <2>3. \A y \in FwPeq(x) : Good(y)
      BY <1>1, <2>1, <2>2, GsgpSlavePeq, InitiatorSlavePeq
    <2> QED BY <2>1, <2>3, OneStep
  <1> QED BY <1>2, <1>3

(* Every step of the sockets, their users and their peers keeps the invariant. *)
LEMMA SocketsInvNext == SocketsInv /\ [SocketsNext]_socketVars => SocketsInv'
  <1> SUFFICES ASSUME SocketsInv, [SocketsNext]_socketVars PROVE SocketsInv'
    OBVIOUS
  <1>1. ASSUME UNCHANGED <<conf, txn>> PROVE SocketsInv'
    BY <1>1, SameConf DEF SocketsInv
  <1>2. ASSUME NEW t \in Txns, UNCHANGED conf, Progress(t) PROVE SocketsInv'
    BY <1>2, MasterUsersKeep, PeersKeep, SlaveUsersKeep DEF Progress
  <1>3. ASSUME NEW t \in Txns, UNCHANGED conf, NEW cmd \in {"read", "write"},
               UserRequests(t, cmd) \/ InitiatorRequests(t, cmd)
        PROVE  SocketsInv'
    BY <1>3, MasterUsersKeep, PeersKeep
  <1>4. ASSUME NEW t \in Txns, SlavePeq(t) PROVE SocketsInv'
    <2>1. UNCHANGED conf
      BY <1>4 DEF SlavePeq
    <2> QED BY <1>4, <2>1, SlaveUsersKeep
  <1>5. CASE BlockingCall
    BY <1>1, <1>5 DEF BlockingCall
  <1>6. CASE UNCHANGED socketVars
    BY <1>1, <1>6 DEF socketVars
  <1> QED BY <1>2, <1>3, <1>4, <1>5, <1>6 DEF SocketsNext

(* What the three properties need of the invariant *)
LEMMA SocketsInvImplies == SocketsInv => SocketAsserts /\ UsersSeeProtocol /\ OutcomesAgree
  <1> SUFFICES ASSUME SocketsInv, NEW t \in Txns, NEW x, x = txn[t]
               PROVE  /\ x.assert /\ x.legal
                      /\ x.mu = "done" /\ x.su = "done" =>
                           IF x.mout = "rejected" THEN x.mc \/ x.sout = "error" ELSE x.mout = x.sout
    BY DEF SocketAsserts, UsersSeeProtocol, OutcomesAgree
  <1>1. Good(x) /\ conf.link \in {"gsgp", "target", "initiator"}
    BY Links DEF SocketsInv
  <1>2. ASSUME x.mu = "done", x.su = "done"
        PROVE  Resting(x)
    <2>1. ASSUME conf.link = "gsgp" PROVE Resting(x)
      BY <1>1, <1>2, <2>1 DEF Good, Stage, GsgpStage, GsgpRequest, GsgpData, GsgpResponse, GsgpFailed, At
    <2>2. ASSUME conf.link = "target" PROVE Resting(x)
      BY <1>1, <1>2, <2>2
      DEF Good, Stage, TargetStage, TargetRead, TargetWrite, TargetAnswered, TargetFailed, TargetEnded, TargetRefused, At
    <2>3. ASSUME conf.link = "initiator" PROVE Resting(x)
      BY <1>1, <1>2, <2>3
      DEF Good, Stage, InitiatorStage, InitiatorRequest, InitiatorResponse, InitiatorEnded, At
    <2> QED BY <1>1, <2>1, <2>2, <2>3
  <1> QED BY <1>1, <1>2 DEF Good, Resting, Agree, At

(* Every transaction is at a stage of its link, in every reachable state: what
   the two sides do, the phases still queued and the flags fit together. *)
THEOREM SocketsInvariant == SocketsSpec => []SocketsInv
  <1>1. SocketsSpec => SocketsInit /\ [][SocketsNext]_socketVars
    BY DEF SocketsSpec
  <1> QED BY <1>1, SocketsInvInit, SocketsInvNext, PTL

(* The assertions of the functors hold for every pool, every number of chunks
   and however the peers answer (SendData, Request, ErrorRequest, Response). *)
THEOREM AssertsHold == SocketsSpec => []SocketAsserts
  BY SocketsInvariant, SocketsInvImplies, PTL

(* The users on both sides get the phases of the generic protocol in its order,
   whatever a base protocol peer leaves out (bw_peq_cb, fw_peq_cb). *)
THEOREM ProtocolSeen == SocketsSpec => []UsersSeeProtocol
  BY SocketsInvariant, SocketsInvImplies, PTL

(* A transaction both sides are done with has ended the same way on both. *)
THEOREM SameOutcome == SocketsSpec => []OutcomesAgree
  BY SocketsInvariant, SocketsInvImplies, PTL
=============================================================================
