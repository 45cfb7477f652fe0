--------------------------- MODULE SparseMemProofs ---------------------------
(***************************************************************************)
(* Proofs about SparseMem, for every page size, memory size and value set: *)
(* its pages are sound and it implements the flat array.                   *)
(***************************************************************************)
EXTENDS SparseMem, FiniteSetTheorems, SequenceTheorems, TLAPS

Buffer == UNION {[S -> Value \cup {Junk}] : S \in SUBSET (0 .. Size)}
Page == [lo : 0 .. Size, hi : 0 .. Size, data : Buffer]

(* p is made of whole pages and has a buffer of its size. *)
Whole(p) == /\ p.lo < p.hi /\ p.lo % PageSize = 0 /\ p.hi % PageSize = 0
            /\ p.data \in [p.lo .. p.hi - 1 -> Value \cup {Junk}]

(* Sorted speaks of neighbours; this of any two pages. *)
Apart(ps) == \A j, k \in DOMAIN ps : j < k => ps[j].hi <= ps[k].lo

Sound(ps) == ps \in Seq(Page) /\ Apart(ps) /\ \A k \in DOMAIN ps : Whole(ps[k])

BlockType == block = <<>> \/ block \in [from : Addr, to : Addr, lo : Nat]

IInv == Sound(pages) /\ BlockType /\ BlockInOnePage

Covers(p, a) == p.lo <= a /\ a < p.hi
Holds(ps, a, v) == \E k \in DOMAIN ps : Covers(ps[k], a) /\ ps[k].data[a] = v
SameCells(ps, qs) == \A a \in Nat, v \in Value : Holds(ps, a, v) <=> Holds(qs, a, v)
KeepsPages(ps, qs) ==
  \A j \in DOMAIN ps : \E k \in DOMAIN qs : qs[k].lo = ps[j].lo /\ qs[k].hi = ps[j].hi
-----------------------------------------------------------------------------
(* Numbers: dividing by the page size, and the distance of page bounds. *)
LEMMA DivMod ==
  ASSUME NEW P \in Nat \ {0}, NEW a \in Nat
  PROVE  /\ a \div P \in Nat /\ a % P \in 0 .. P - 1
         /\ a = P * (a \div P) + (a % P)
  OBVIOUS

(* A multiple has no remainder. *)
LEMMA MulMod ==
  ASSUME NEW P \in Nat \ {0}, NEW q \in Nat
  PROVE  (q * P) % P = 0
  OBVIOUS

(* Without a remainder, it is a multiple. *)
LEMMA Multiple ==
  ASSUME NEW P \in Nat \ {0}, NEW x \in Nat, x % P = 0
  PROVE  \E q \in Nat : x = q * P
<1>1. x \div P \in Nat /\ x = P * (x \div P) + (x % P)
  BY DivMod
<1> DEFINE q == x \div P
<1>2. q \in Nat /\ x = P * q + 0
  BY <1>1
<1> HIDE DEF q
<1>3. x = q * P
  BY <1>2
<1> QED BY <1>2, <1>3

(* Two different multiples of the page size are at least a page apart. *)
LEMMA Gap ==
  ASSUME NEW P \in Nat \ {0}, NEW x \in Nat, NEW y \in Nat,
         x % P = 0, y % P = 0, x < y
  PROVE  x + P <= y
<1>1. PICK q \in Nat : x = q * P
  BY Multiple
<1>2. PICK r \in Nat : y = r * P
  BY Multiple
<1>3. q < r
  BY <1>1, <1>2
<1>4. PICK d \in Nat : r = q + 1 + d
  BY <1>3
<1>5. y = x + P + d * P
  BY <1>1, <1>2, <1>4
<1>6. d * P \in Nat
  OBVIOUS
<1> QED BY <1>5, <1>6

(* The bound after a bound is a bound. *)
LEMMA NextBound ==
  ASSUME NEW P \in Nat \ {0}, NEW x \in Nat, x % P = 0
  PROVE  (x + P) % P = 0
<1>1. PICK q \in Nat : x = q * P
  BY Multiple
<1>2. x + P = (q + 1) * P
  BY <1>1
<1>3. q + 1 \in Nat /\ ((q + 1) * P) % P = 0
  BY MulMod
<1> QED BY <1>2, <1>3

(* Floor() is the last page bound at or below an address, and the page that   *)
(* begins there ends before the addresses wrap (start + page_size).           *)
LEMMA FloorBound ==
  ASSUME NEW a \in Addr
  PROVE  /\ a \in Nat
         /\ Floor(a) \in Nat /\ Floor(a) <= a /\ a < Floor(a) + PageSize
         /\ Floor(a) % PageSize = 0 /\ (Floor(a) + PageSize) % PageSize = 0
         /\ Floor(a) + PageSize < Size
         /\ (Floor(a) + PageSize) % Size = Floor(a) + PageSize
         /\ \A x \in Nat : x % PageSize = 0 =>
              /\ x <= a => x <= Floor(a)
              /\ x > a => x >= Floor(a) + PageSize
<1>0. PageSize \in Nat \ {0} /\ Size \in Nat /\ Size % PageSize = 0 /\ Size >= 2 * PageSize
  BY Sizes
<1>1. a \in Nat /\ a < Size - PageSize
  BY <1>0 DEF Addr
<1>2. Floor(a) \in Nat /\ Floor(a) <= a /\ a < Floor(a) + PageSize
  <2> DEFINE q == a \div PageSize
             r == a % PageSize
  <2>1. q \in Nat /\ r \in 0 .. PageSize - 1 /\ a = PageSize * q + r
    BY <1>0, <1>1, DivMod
  <2>2. Floor(a) = q * PageSize
    BY DEF Floor
  <2> HIDE DEF q, r
  <2>3. PageSize * q = q * PageSize /\ q * PageSize \in Nat
    BY <1>0, <2>1
  <2> QED BY <1>0, <1>1, <2>1, <2>2, <2>3
<1>3. Floor(a) % PageSize = 0
  BY <1>0, <1>1, DivMod, MulMod DEF Floor
<1>4. (Floor(a) + PageSize) % PageSize = 0
  BY <1>0, <1>2, <1>3, NextBound
<1>5. \A x \in Nat : x % PageSize = 0 =>
        (x <= a => x <= Floor(a)) /\ (x > a => x >= Floor(a) + PageSize)
  <2> SUFFICES ASSUME NEW x \in Nat, x % PageSize = 0
               PROVE  (x <= a => x <= Floor(a)) /\ (x > a => x >= Floor(a) + PageSize)
    OBVIOUS
  <2>1. x <= a => x <= Floor(a)
    <3>1. x > Floor(a) => Floor(a) + PageSize <= x
      BY <1>0, <1>2, <1>3, Gap
    <3> QED BY <1>0, <1>1, <1>2, <3>1
  <2>2. x > a => x >= Floor(a) + PageSize
    <3>1. x > Floor(a) => Floor(a) + PageSize <= x
      BY <1>0, <1>2, <1>3, Gap
    <3> QED BY <1>0, <1>1, <1>2, <3>1
  <2> QED BY <2>1, <2>2
<1>6. Floor(a) + PageSize < Size
  <2> DEFINE y == Floor(a) + PageSize
  <2>1. y \in Nat /\ y % PageSize = 0
    BY <1>0, <1>2, <1>4
  <2>2. y < Size
    BY <1>0, <1>1, <1>2
  <2> QED BY <2>2
<1>7. (Floor(a) + PageSize) % Size = Floor(a) + PageSize
  <2> DEFINE y == Floor(a) + PageSize
  <2>1. y \in Nat /\ y < Size
    BY <1>0, <1>2, <1>6
  <2> HIDE DEF y
  <2>2. y % Size = y
    BY <1>0, <2>1
  <2> QED BY <2>2 DEF y
<1> QED BY <1>1, <1>2, <1>3, <1>4, <1>5, <1>6, <1>7
-----------------------------------------------------------------------------
(* Counting a prefix of the indices counts up to its last one: what           *)
(* std::lower_bound finds in a sorted vector.                                 *)
LEMMA Prefix ==
  ASSUME NEW n \in Nat, NEW S \in SUBSET (1 .. n),
         \A j, k \in 1 .. n : k \in S /\ j < k => j \in S
  PROVE  Cardinality(S) \in 0 .. n /\ S = 1 .. Cardinality(S)
<1>1. IsFiniteSet(1 .. n) /\ Cardinality(1 .. n) = n
  BY FS_Interval
<1>2. IsFiniteSet(S) /\ Cardinality(S) <= n
  BY <1>1, FS_Subset
<1>3. Cardinality(S) \in Nat
  BY <1>2, FS_CardinalityType
<1>4. \A k \in S : k <= Cardinality(S)
  <2> SUFFICES ASSUME NEW k \in S PROVE k <= Cardinality(S)
    OBVIOUS
  <2>1. 1 .. k \in SUBSET S
    OBVIOUS
  <2>2. Cardinality(1 .. k) <= Cardinality(S)
    BY <2>1, <1>2, FS_Subset
  <2>3. Cardinality(1 .. k) = k
    BY FS_Interval
  <2> QED BY <2>2, <2>3
<1>5. S \in SUBSET (1 .. Cardinality(S))
  BY <1>3, <1>4
<1>6. IsFiniteSet(1 .. Cardinality(S)) /\ Cardinality(1 .. Cardinality(S)) = Cardinality(S)
  BY <1>3, FS_Interval
<1>7. 1 .. Cardinality(S) = S
  BY <1>5, <1>6, FS_Subset
<1> QED BY <1>2, <1>3, <1>7
-----------------------------------------------------------------------------
(* The bounds of a page are numbers. *)
LEMMA PageBounds ==
  ASSUME NEW p \in Page
  PROVE  p.lo \in Nat /\ p.hi \in Nat /\ p.hi <= Size
<1>1. Size \in Nat
  BY Sizes
<1>2. p.lo \in 0 .. Size /\ p.hi \in 0 .. Size
  BY DEF Page
<1> QED BY <1>1, <1>2

(* The bounds of sound pages are numbers, in order. *)
LEMMA Bounds ==
  ASSUME NEW ps, Sound(ps)
  PROVE  /\ Len(ps) \in Nat /\ DOMAIN ps = 1 .. Len(ps)
         /\ \A k \in 1 .. Len(ps) :
              /\ ps[k] \in Page /\ ps[k].lo \in Nat /\ ps[k].hi \in Nat /\ ps[k].hi <= Size
              /\ ps[k].lo < ps[k].hi
              /\ ps[k].lo % PageSize = 0 /\ ps[k].hi % PageSize = 0
         /\ \A j, k \in 1 .. Len(ps) : j < k => ps[j].hi <= ps[k].lo
<1>1. ps \in Seq(Page)
  BY DEF Sound
<1>2. Len(ps) \in Nat /\ DOMAIN ps = 1 .. Len(ps) /\ \A k \in 1 .. Len(ps) : ps[k] \in Page
  BY <1>1
<1>3. \A p \in Page : p.lo \in Nat /\ p.hi \in Nat /\ p.hi <= Size
  BY PageBounds
<1>4. \A j, k \in 1 .. Len(ps) : j < k => ps[j].hi <= ps[k].lo
  BY <1>2 DEF Sound, Apart
<1>5. \A k \in 1 .. Len(ps) : /\ ps[k].lo < ps[k].hi
                             /\ ps[k].lo % PageSize = 0 /\ ps[k].hi % PageSize = 0
  BY <1>2 DEF Sound, Whole
<1> QED BY <1>2, <1>3, <1>4, <1>5

(* At most one page covers an address. *)
LEMMA OneCovers ==
  ASSUME NEW ps, Sound(ps), NEW a \in Nat, NEW j \in 1 .. Len(ps), NEW k \in 1 .. Len(ps),
         Covers(ps[j], a), Covers(ps[k], a)
  PROVE  j = k
<1>1. /\ ps[j].lo \in Nat /\ ps[j].hi \in Nat /\ ps[k].lo \in Nat /\ ps[k].hi \in Nat
      /\ Len(ps) \in Nat
      /\ j < k => ps[j].hi <= ps[k].lo
      /\ k < j => ps[k].hi <= ps[j].lo
  BY Bounds
<1>2. ps[j].lo <= a /\ a < ps[j].hi /\ ps[k].lo <= a /\ a < ps[k].hi
  BY DEF Covers
<1> QED BY <1>1, <1>2

(* The index lower_bound finds in ins separates the pages that begin at or    *)
(* before an address from those that begin after it.                          *)
LEMMA LowerBoundFinds ==
  ASSUME Sound(pages), NEW a \in Nat
  PROVE  /\ LowerBound(a) \in 0 .. Len(pages)
         /\ \A k \in 1 .. Len(pages) : k <= LowerBound(a) <=> pages[k].lo <= a
<1> DEFINE S == {k \in DOMAIN pages : pages[k].lo <= a}
<1>1. S \in SUBSET (1 .. Len(pages))
  BY Bounds
<1>2. \A j, k \in 1 .. Len(pages) : k \in S /\ j < k => j \in S
  BY Bounds
<1>3. \A k \in 1 .. Len(pages) : k \in S <=> pages[k].lo <= a
  BY Bounds
<1>4. LowerBound(a) = Cardinality(S)
  BY DEF LowerBound
<1>5. Len(pages) \in Nat
  BY Bounds
<1> HIDE DEF S
<1>6. Cardinality(S) \in 0 .. Len(pages) /\ S = 1 .. Cardinality(S)
  BY <1>1, <1>2, <1>5, Prefix
<1> QED BY <1>3, <1>4, <1>5, <1>6

(* The index lower_bound finds in outs is the first page that ends at or      *)
(* after a bound.                                                             *)
LEMMA EndIndexFinds ==
  ASSUME Sound(pages), NEW e \in Nat
  PROVE  /\ EndIndex(e) \in 1 .. Len(pages) + 1
         /\ \A k \in 1 .. Len(pages) : k < EndIndex(e) <=> pages[k].hi < e
<1> DEFINE S == {k \in DOMAIN pages : pages[k].hi < e}
<1>1. S \in SUBSET (1 .. Len(pages))
  BY Bounds
<1>2. \A j, k \in 1 .. Len(pages) : k \in S /\ j < k => j \in S
  BY Bounds
<1>3. \A k \in 1 .. Len(pages) : k \in S <=> pages[k].hi < e
  BY Bounds
<1>4. EndIndex(e) = 1 + Cardinality(S)
  BY DEF EndIndex
<1>5. Len(pages) \in Nat
  BY Bounds
<1> HIDE DEF S
<1>6. Cardinality(S) \in 0 .. Len(pages) /\ S = 1 .. Cardinality(S)
  BY <1>1, <1>2, <1>5, Prefix
<1> QED BY <1>3, <1>4, <1>5, <1>6

(* operator[] looks at the one page that covers the address; when it misses   *)
(* no page does.                                                              *)
LEMMA LookupFinds ==
  ASSUME Sound(pages), NEW a \in Nat
  PROVE  /\ Missing(a) => \A k \in 1 .. Len(pages) : ~ Covers(pages[k], a)
         /\ ~ Missing(a) => /\ LowerBound(a) \in 1 .. Len(pages)
                            /\ Covers(pages[LowerBound(a)], a)
         /\ \A k \in 1 .. Len(pages) : Covers(pages[k], a) => k = LowerBound(a)
<1> DEFINE n == LowerBound(a)
<1>1. n \in 0 .. Len(pages) /\ \A k \in 1 .. Len(pages) : k <= n <=> pages[k].lo <= a
  BY LowerBoundFinds
<1>2. Missing(a) <=> n = 0 \/ a >= pages[n].hi
  BY DEF Missing
<1> HIDE DEF n
<1>3. Len(pages) \in Nat
  BY Bounds
<1>4. ASSUME NEW k \in 1 .. Len(pages), Covers(pages[k], a) PROVE k = n
  <2>1. k <= n
    BY <1>1, <1>4 DEF Covers
  <2>2. k < n => pages[k].hi <= pages[n].lo /\ pages[n].lo <= a
    BY <1>1, <2>1, Bounds
  <2>3. pages[k].hi \in Nat /\ pages[k].hi > a
    BY <1>4, Bounds DEF Covers
  <2>4. k < n => pages[n].lo \in Nat
    BY <1>1, <2>1, Bounds
  <2> QED BY <1>1, <2>1, <2>2, <2>3, <2>4
<1>5. ~ Missing(a) => n \in 1 .. Len(pages) /\ Covers(pages[n], a)
  <2>1. n # 0 => n \in 1 .. Len(pages)
    BY <1>1
  <2>2. n # 0 => pages[n].lo <= a /\ pages[n].hi \in Nat
    BY <1>1, <2>1, Bounds
  <2> QED BY <1>2, <2>1, <2>2 DEF Covers
<1>6. Missing(a) => \A k \in 1 .. Len(pages) : ~ Covers(pages[k], a)
  <2> SUFFICES ASSUME Missing(a), NEW k \in 1 .. Len(pages), Covers(pages[k], a) PROVE FALSE
    OBVIOUS
  <2>1. k = n
    BY <1>4
  <2>2. pages[n].hi \in Nat /\ a < pages[n].hi /\ n # 0
    BY <2>1, Bounds DEF Covers
  <2> QED BY <1>2, <2>2
<1> QED BY <1>4, <1>5, <1>6 DEF n
-----------------------------------------------------------------------------
(* The element InsertAt puts in, and where it moves the others. *)
LEMMA Inserted ==
  ASSUME NEW S, NEW s \in Seq(S), NEW e \in S, NEW i \in 1 .. Len(s) + 1
  PROVE  /\ InsertAt(s, i, e) \in Seq(S)
         /\ Len(InsertAt(s, i, e)) = Len(s) + 1
         /\ \A k \in 1 .. Len(s) + 1 :
              InsertAt(s, i, e)[k] = IF k < i THEN s[k] ELSE IF k = i THEN e ELSE s[k - 1]
<1> DEFINE u == SubSeq(s, 1, i - 1)
           v == SubSeq(s, i, Len(s))
<1>0. Len(s) \in Nat /\ i \in Nat
  OBVIOUS
<1>1. /\ u \in Seq(S) /\ Len(u) = i - 1
      /\ \A k \in 1 .. i - 1 : u[k] = s[k]
  BY <1>0
<1>2. /\ v \in Seq(S) /\ Len(v) = Len(s) - i + 1
      /\ \A k \in 1 .. Len(s) - i + 1 : v[k] = s[i + k - 1]
  BY <1>0
<1>3. InsertAt(s, i, e) = (u \o <<e>>) \o v
  BY DEF InsertAt
<1> HIDE DEF u, v
<1>4. /\ u \o <<e>> \in Seq(S) /\ Len(u \o <<e>>) = i
      /\ \A k \in 1 .. i : (u \o <<e>>)[k] = IF k < i THEN s[k] ELSE e
  BY <1>0, <1>1
<1> DEFINE w == u \o <<e>>
<1>5. w \in Seq(S) /\ Len(w) = i /\ \A k \in 1 .. i : w[k] = IF k < i THEN s[k] ELSE e
  BY <1>4
<1> HIDE DEF w
<1>6. /\ w \o v \in Seq(S) /\ Len(w \o v) = Len(s) + 1
      /\ \A k \in 1 .. Len(s) + 1 : (w \o v)[k] = IF k <= i THEN w[k] ELSE v[k - i]
  <2>1. w \in Seq(S) /\ v \in Seq(S) /\ Len(w) = i /\ i + Len(v) = Len(s) + 1
    BY <1>0, <1>2, <1>5
  <2>2. /\ w \o v \in Seq(S) /\ Len(w \o v) = Len(w) + Len(v)
        /\ \A k \in 1 .. Len(w) + Len(v) :
             (w \o v)[k] = IF k <= Len(w) THEN w[k] ELSE v[k - Len(w)]
    BY <2>1, ConcatProperties
  <2> QED BY <2>1, <2>2
<1>7. \A k \in 1 .. Len(s) + 1 : k > i => v[k - i] = s[k - 1]
  <2> SUFFICES ASSUME NEW k \in 1 .. Len(s) + 1, k > i PROVE v[k - i] = s[k - 1]
    OBVIOUS
  <2>1. k - i \in 1 .. Len(s) - i + 1
    BY <1>0
  <2>2. v[k - i] = s[i + (k - i) - 1]
    BY <1>2, <2>1
  <2>3. i + (k - i) - 1 = k - 1
    BY <1>0
  <2> QED BY <2>2, <2>3
<1>8. InsertAt(s, i, e) = w \o v
  BY <1>3 DEF w
<1> QED BY <1>0, <1>5, <1>6, <1>7, <1>8

(* A page put between its neighbours leaves the pages sound, keeps them all,  *)
(* and adds no cell but unwritten ones.                                       *)
LEMMA InsertSound ==
  ASSUME NEW ps, Sound(ps), NEW i \in 1 .. Len(ps) + 1, NEW p \in Page, Whole(p),
         \A a \in p.lo .. p.hi - 1 : p.data[a] = Junk,
         \A k \in 1 .. Len(ps) : k < i => ps[k].hi <= p.lo,
         \A k \in 1 .. Len(ps) : k >= i => p.hi <= ps[k].lo
  PROVE  /\ Sound(InsertAt(ps, i, p))
         /\ Len(InsertAt(ps, i, p)) = Len(ps) + 1 /\ InsertAt(ps, i, p)[i] = p
         /\ KeepsPages(ps, InsertAt(ps, i, p))
         /\ SameCells(ps, InsertAt(ps, i, p))
<1> DEFINE qs == InsertAt(ps, i, p)
           at(j) == IF j < i THEN j ELSE j + 1
<1>0. Len(ps) \in Nat /\ DOMAIN ps = 1 .. Len(ps) /\ ps \in Seq(Page)
  BY Bounds DEF Sound
<1>1. /\ qs \in Seq(Page) /\ Len(qs) = Len(ps) + 1
      /\ \A k \in 1 .. Len(ps) + 1 :
           qs[k] = IF k < i THEN ps[k] ELSE IF k = i THEN p ELSE ps[k - 1]
  BY <1>0, Inserted
<1> HIDE DEF qs
<1>2. DOMAIN qs = 1 .. Len(ps) + 1
  BY <1>1
<1>3. \A j \in 1 .. Len(ps) : at(j) \in 1 .. Len(ps) + 1 /\ qs[at(j)] = ps[j]
  BY <1>0, <1>1
<1>4. \A k \in 1 .. Len(ps) + 1 : k = i \/ \E j \in 1 .. Len(ps) : k = at(j)
  <2> SUFFICES ASSUME NEW k \in 1 .. Len(ps) + 1, k # i PROVE \E j \in 1 .. Len(ps) : k = at(j)
    OBVIOUS
  <2>1. k < i => k \in 1 .. Len(ps) /\ k = at(k)
    BY <1>0
  <2>2. k > i => k - 1 \in 1 .. Len(ps) /\ k = at(k - 1)
    BY <1>0
  <2> QED BY <1>0, <2>1, <2>2
<1>5. qs[i] = p
  BY <1>0, <1>1
<1>6. \A k \in DOMAIN qs : Whole(qs[k])
  <2>1. \A j \in 1 .. Len(ps) : Whole(ps[j])
    BY <1>0 DEF Sound
  <2> SUFFICES ASSUME NEW k \in 1 .. Len(ps) + 1 PROVE Whole(qs[k])
    BY <1>2
  <2>2. k # i => \E j \in 1 .. Len(ps) : qs[k] = ps[j]
    BY <1>3, <1>4
  <2> QED BY <1>5, <2>1, <2>2
<1>7. Apart(qs)
  <2> SUFFICES ASSUME NEW j \in 1 .. Len(ps) + 1, NEW k \in 1 .. Len(ps) + 1, j < k
               PROVE  qs[j].hi <= qs[k].lo
    BY <1>2 DEF Apart
  <2>1. \A m, n \in 1 .. Len(ps) : m < n => ps[m].hi <= ps[n].lo
    BY Bounds
  <2>2. CASE j = i
    <3>1. k - 1 \in 1 .. Len(ps) /\ k - 1 >= i /\ qs[k] = ps[k - 1]
      BY <1>0, <1>1, <2>2
    <3> QED BY <3>1, <2>2, <1>5
  <2>3. CASE k = i
    <3>1. j \in 1 .. Len(ps) /\ j < i /\ qs[j] = ps[j]
      BY <1>0, <1>1, <2>3
    <3> QED BY <3>1, <2>3, <1>5
  <2>4. CASE j # i /\ k # i
    <3>1. PICK m \in 1 .. Len(ps) : j = at(m)
      BY <1>4, <2>4
    <3>2. PICK n \in 1 .. Len(ps) : k = at(n)
      BY <1>4, <2>4
    <3>3. m < n
      BY <1>0, <3>1, <3>2
    <3>4. ps[m].hi <= ps[n].lo
      BY <2>1, <3>3
    <3> QED BY <1>3, <3>1, <3>2, <3>4
  <2> QED BY <2>2, <2>3, <2>4
<1>8. Sound(qs)
  BY <1>1, <1>6, <1>7 DEF Sound
<1>9. KeepsPages(ps, qs)
  BY <1>0, <1>2, <1>3 DEF KeepsPages
<1>10. SameCells(ps, qs)
  <2> SUFFICES ASSUME NEW a \in Nat, NEW v \in Value
               PROVE  Holds(ps, a, v) <=> Holds(qs, a, v)
    BY DEF SameCells
  <2>1. Holds(ps, a, v) => Holds(qs, a, v)
    BY <1>0, <1>2, <1>3 DEF Holds
  <2>2. ASSUME Holds(qs, a, v) PROVE Holds(ps, a, v)
    <3>1. PICK k \in 1 .. Len(ps) + 1 : Covers(qs[k], a) /\ qs[k].data[a] = v
      BY <1>2, <2>2 DEF Holds
    <3>2. k # i
      <4>1. p.lo \in Int /\ p.hi \in Int
        BY Sizes DEF Page
      <4> SUFFICES ASSUME k = i PROVE FALSE
        OBVIOUS
      <4>2. a \in p.lo .. p.hi - 1
        BY <3>1, <4>1, <1>5 DEF Covers
      <4>3. p.data[a] = Junk
        BY <4>2
      <4> QED BY <3>1, <4>3, <1>5, Sizes
    <3>3. PICK j \in 1 .. Len(ps) : k = at(j)
      BY <1>4, <3>2
    <3> QED BY <1>0, <1>3, <3>1, <3>3 DEF Holds
  <2> QED BY <2>1, <2>2
<1> QED BY <1>1, <1>5, <1>8, <1>9, <1>10 DEF qs
-----------------------------------------------------------------------------
(* The cells between two bounds are a buffer. *)
LEMMA IsBuffer ==
  ASSUME NEW lo \in 0 .. Size, NEW hi \in 0 .. Size,
         NEW d \in [lo .. hi - 1 -> Value \cup {Junk}]
  PROVE  d \in Buffer
<1> DEFINE S == lo .. hi - 1
<1>1. S \in SUBSET (0 .. Size)
  BY Sizes
<1>2. d \in [S -> Value \cup {Junk}]
  OBVIOUS
<1> HIDE DEF S
<1> QED BY <1>1, <1>2 DEF Buffer

(* A new page begins unwritten. *)
LEMMA NewPage ==
  ASSUME NEW lo \in Nat, NEW hi \in Nat, lo < hi, hi <= Size,
         lo % PageSize = 0, hi % PageSize = 0
  PROVE  /\ PageOf(lo, hi) \in Page /\ Whole(PageOf(lo, hi))
         /\ PageOf(lo, hi).lo = lo /\ PageOf(lo, hi).hi = hi
         /\ \A a \in lo .. hi - 1 : PageOf(lo, hi).data[a] = Junk
<1> DEFINE d == [a \in lo .. hi - 1 |-> Junk]
<1>1. PageOf(lo, hi) = [lo |-> lo, hi |-> hi, data |-> d]
  BY DEF PageOf
<1>2. d \in [lo .. hi - 1 -> Value \cup {Junk}]
  OBVIOUS
<1>3. lo \in 0 .. Size /\ hi \in 0 .. Size
  BY Sizes
<1> HIDE DEF d
<1>4. d \in Buffer
  BY <1>2, <1>3, IsBuffer
<1>5. PageOf(lo, hi) \in Page
  BY <1>1, <1>3, <1>4 DEF Page
<1>6. Whole(PageOf(lo, hi))
  BY <1>1, <1>2 DEF Whole
<1>7. \A a \in lo .. hi - 1 : d[a] = Junk
  BY DEF d
<1> QED BY <1>1, <1>5, <1>6, <1>7

(* operator[]: afterwards the page at Index(a) covers the address, the pages  *)
(* are sound, all old ones are there and no cell has changed.                 *)
LEMMA TouchSound ==
  ASSUME Sound(pages), NEW a \in Addr
  PROVE  /\ Sound(Touched(a))
         /\ Index(a) \in 1 .. Len(Touched(a)) /\ Covers(Touched(a)[Index(a)], a)
         /\ KeepsPages(pages, Touched(a)) /\ SameCells(pages, Touched(a))
<1>0. a \in Nat /\ Len(pages) \in Nat /\ DOMAIN pages = 1 .. Len(pages)
  BY FloorBound, Bounds
<1>1. CASE ~ Missing(a)
  <2>1. Touched(a) = pages /\ Index(a) = LowerBound(a)
    <3>1. LowerBound(a) \in 0 .. Len(pages)
      BY <1>0, LowerBoundFinds
    <3> QED BY <1>0, <1>1, <3>1 DEF Touched, Index
  <2>2. LowerBound(a) \in 1 .. Len(pages) /\ Covers(pages[LowerBound(a)], a)
    BY <1>0, <1>1, LookupFinds
  <2>3. KeepsPages(pages, pages) /\ SameCells(pages, pages)
    BY DEF KeepsPages, SameCells
  <2> QED BY <2>1, <2>2, <2>3
<1>2. CASE Missing(a)
  <2> DEFINE n == LowerBound(a)
             f == Floor(a)
             p == PageOf(f, f + PageSize)
  <2>1. n \in 0 .. Len(pages) /\ \A k \in 1 .. Len(pages) : k <= n <=> pages[k].lo <= a
    BY <1>0, LowerBoundFinds
  <2>2. /\ f \in Nat /\ f <= a /\ a < f + PageSize /\ f + PageSize < Size
        /\ f % PageSize = 0 /\ (f + PageSize) % PageSize = 0
        /\ (f + PageSize) % Size = f + PageSize
        /\ \A x \in Nat : x % PageSize = 0 => (x <= a => x <= f) /\ (x > a => x >= f + PageSize)
    BY FloorBound
  <2>3. Touched(a) = InsertAt(pages, n + 1, p) /\ Index(a) = n + 1
    BY <1>2, <2>2 DEF Touched, Index, InsertPage
  <2>4. \A k \in 1 .. Len(pages) : ~ Covers(pages[k], a)
    BY <1>0, <1>2, LookupFinds
  <2> HIDE DEF n, f
  <2>5. f + PageSize \in Nat /\ f < f + PageSize
    BY <2>2, Sizes
  <2>6. /\ p \in Page /\ Whole(p) /\ p.lo = f /\ p.hi = f + PageSize
        /\ \A b \in f .. f + PageSize - 1 : p.data[b] = Junk
    <3>1. f + PageSize <= Size
      BY <2>2, <2>5, Sizes
    <3> DEFINE y == f + PageSize
    <3>2. /\ f \in Nat /\ y \in Nat /\ f < y /\ y <= Size
          /\ f % PageSize = 0 /\ y % PageSize = 0
      BY <2>2, <2>5, <3>1
    <3> HIDE DEF y
    <3>3. /\ PageOf(f, y) \in Page /\ Whole(PageOf(f, y))
          /\ PageOf(f, y).lo = f /\ PageOf(f, y).hi = y
          /\ \A b \in f .. y - 1 : PageOf(f, y).data[b] = Junk
      BY <3>2, NewPage
    <3> QED BY <2>2, <3>2, <3>3, Sizes DEF y
  <2> HIDE DEF p
  <2>7. ASSUME NEW k \in 1 .. Len(pages), k < n + 1 PROVE pages[k].hi <= p.lo
    <3>1. pages[k].lo <= a
      BY <1>0, <2>1, <2>7
    <3>2. pages[k].hi \in Nat /\ pages[k].hi % PageSize = 0
      BY Bounds
    <3>3. pages[k].hi <= a
      BY <1>0, <2>4, <3>1, <3>2 DEF Covers
    <3> QED BY <2>2, <2>6, <3>2, <3>3
  <2>8. ASSUME NEW k \in 1 .. Len(pages), k >= n + 1 PROVE p.hi <= pages[k].lo
    <3>1. ~ (pages[k].lo <= a)
      BY <1>0, <2>1, <2>8
    <3>2. pages[k].lo \in Nat /\ pages[k].lo % PageSize = 0
      BY Bounds
    <3> QED BY <1>0, <2>2, <2>6, <3>1, <3>2
  <2>9. n + 1 \in 1 .. Len(pages) + 1
    BY <1>0, <2>1
  <2> DEFINE i == n + 1
  <2>10. /\ i \in 1 .. Len(pages) + 1
         /\ \A k \in 1 .. Len(pages) : k < i => pages[k].hi <= p.lo
         /\ \A k \in 1 .. Len(pages) : k >= i => p.hi <= pages[k].lo
    BY <2>7, <2>8, <2>9
  <2>11. Touched(a) = InsertAt(pages, i, p) /\ Index(a) = i
    BY <2>3
  <2> HIDE DEF i
  <2>12. \A b \in p.lo .. p.hi - 1 : p.data[b] = Junk
    BY <2>2, <2>5, <2>6, Sizes
  <2>13. /\ Sound(InsertAt(pages, i, p))
         /\ Len(InsertAt(pages, i, p)) = Len(pages) + 1 /\ InsertAt(pages, i, p)[i] = p
         /\ KeepsPages(pages, InsertAt(pages, i, p))
         /\ SameCells(pages, InsertAt(pages, i, p))
    BY <2>6, <2>10, <2>12, InsertSound
  <2>14. Covers(p, a)
    BY <2>2, <2>6 DEF Covers
  <2> QED BY <2>10, <2>11, <2>13, <2>14
<1> QED BY <1>1, <1>2

(* Writing a cell of a page changes this cell and nothing else. *)
LEMMA PutSound ==
  ASSUME NEW ps, Sound(ps), NEW i \in 1 .. Len(ps), NEW a \in Nat, Covers(ps[i], a),
         NEW v \in Value
  PROVE  LET qs == [ps EXCEPT ![i].data[a] = v]
         IN /\ Sound(qs) /\ KeepsPages(ps, qs)
            /\ \A b \in Nat, w \in Value :
                 Holds(qs, b, w) <=> IF b = a THEN w = v ELSE Holds(ps, b, w)
<1> DEFINE q == [ps[i] EXCEPT !.data = [ps[i].data EXCEPT ![a] = v]]
           qs == [ps EXCEPT ![i] = q]
<1>0. Len(ps) \in Nat /\ DOMAIN ps = 1 .. Len(ps) /\ ps \in Seq(Page)
  BY Bounds DEF Sound
<1>1. [ps EXCEPT ![i].data[a] = v] = qs
  OBVIOUS
<1>2. /\ ps[i] \in Page /\ Whole(ps[i]) /\ ps[i].lo \in Nat /\ ps[i].hi \in Nat
  BY <1>0, Bounds DEF Sound
<1>3. ps[i].data \in [ps[i].lo .. ps[i].hi - 1 -> Value \cup {Junk}]
  BY <1>2 DEF Whole
<1>4. a \in ps[i].lo .. ps[i].hi - 1
  BY <1>2 DEF Covers
<1> DEFINE d == [ps[i].data EXCEPT ![a] = v]
<1>5. /\ d \in [ps[i].lo .. ps[i].hi - 1 -> Value \cup {Junk}]
      /\ \A b : b \in ps[i].lo .. ps[i].hi - 1 => d[b] = IF b = a THEN v ELSE ps[i].data[b]
  BY <1>3, <1>4
<1>6. q = [ps[i] EXCEPT !.data = d]
  OBVIOUS
<1> HIDE DEF d
<1>7. q.lo = ps[i].lo /\ q.hi = ps[i].hi /\ q.data = d
  BY <1>2, <1>6 DEF Page
<1>8. q \in Page
  <2>1. ps[i].lo \in 0 .. Size /\ ps[i].hi \in 0 .. Size
    BY <1>2 DEF Page
  <2>2. d \in Buffer
    BY <1>5, <2>1, IsBuffer
  <2> QED BY <1>2, <1>6, <2>2 DEF Page
<1>9. Whole(q)
  BY <1>2, <1>5, <1>7 DEF Whole
<1> HIDE DEF q
<1>10. /\ qs \in Seq(Page) /\ Len(qs) = Len(ps) /\ DOMAIN qs = 1 .. Len(ps)
       /\ \A k \in 1 .. Len(ps) : qs[k] = IF k = i THEN q ELSE ps[k]
  BY <1>0, <1>8
<1> HIDE DEF qs
<1>11. \A k \in 1 .. Len(ps) : qs[k].lo = ps[k].lo /\ qs[k].hi = ps[k].hi
  BY <1>7, <1>10
<1>12. Apart(qs)
  BY <1>0, <1>10, <1>11 DEF Sound, Apart
<1>13. \A k \in DOMAIN qs : Whole(qs[k])
  BY <1>0, <1>9, <1>10 DEF Sound
<1>14. Sound(qs)
  BY <1>10, <1>12, <1>13 DEF Sound
<1>15. KeepsPages(ps, qs)
  BY <1>0, <1>10, <1>11 DEF KeepsPages
<1>16. ASSUME NEW b \in Nat, NEW w \in Value
       PROVE  Holds(qs, b, w) <=> IF b = a THEN w = v ELSE Holds(ps, b, w)
  <2>1. CASE b = a
    <3>1. Covers(qs[i], a) /\ qs[i].data[a] = v
      BY <1>4, <1>5, <1>7, <1>10 DEF Covers
    <3>2. ASSUME NEW k \in 1 .. Len(ps), Covers(qs[k], a) PROVE k = i
      <4>1. ps[k].lo <= a /\ a < ps[k].hi /\ ps[i].lo <= a /\ a < ps[i].hi
        BY <1>11, <3>2 DEF Covers
      <4>2. /\ k < i => ps[k].hi <= ps[i].lo
            /\ i < k => ps[i].hi <= ps[k].lo
            /\ ps[k].hi \in Nat /\ ps[k].lo \in Nat
        BY Bounds
      <4> QED BY <1>2, <4>1, <4>2
    <3> QED BY <1>0, <1>10, <2>1, <3>1, <3>2 DEF Holds
  <2>2. CASE b # a
    <3>1. ASSUME NEW k \in 1 .. Len(ps)
          PROVE  Covers(qs[k], b) /\ qs[k].data[b] = w <=> Covers(ps[k], b) /\ ps[k].data[b] = w
      <4>1. Covers(qs[k], b) <=> Covers(ps[k], b)
        BY <1>11 DEF Covers
      <4>2. Covers(ps[k], b) => qs[k].data[b] = ps[k].data[b]
        <5>1. CASE k # i
          BY <1>10, <5>1
        <5>2. CASE k = i
          <6>1. Covers(ps[k], b) => b \in ps[i].lo .. ps[i].hi - 1
            BY <1>2, <5>2 DEF Covers
          <6> QED BY <1>5, <1>7, <1>10, <2>2, <5>2, <6>1
        <5> QED BY <5>1, <5>2
      <4> QED BY <4>1, <4>2
    <3> QED BY <1>0, <1>10, <2>2, <3>1 DEF Holds
  <2> QED BY <2>1, <2>2
<1> QED BY <1>1, <1>14, <1>15, <1>16
-----------------------------------------------------------------------------
Splice(s, i, c, e) == SubSeq(s, 1, i - 1) \o <<e>> \o SubSeq(s, c + 1, Len(s))

(* What is left when elements i .. c of a sequence become the one element e. *)
LEMMA Spliced ==
  ASSUME NEW S, NEW s \in Seq(S), NEW e \in S, NEW i \in 1 .. Len(s), NEW c \in i .. Len(s)
  PROVE  /\ Splice(s, i, c, e) \in Seq(S) /\ Len(Splice(s, i, c, e)) = i + (Len(s) - c)
         /\ \A k \in 1 .. i + (Len(s) - c) :
              Splice(s, i, c, e)[k] = IF k < i THEN s[k] ELSE IF k = i THEN e ELSE s[k - i + c]
<1> DEFINE u == SubSeq(s, 1, i - 1)
           v == SubSeq(s, c + 1, Len(s))
           w == u \o <<e>>
<1>0. Len(s) \in Nat /\ i \in Nat /\ c \in Nat /\ i <= c /\ c <= Len(s)
  OBVIOUS
<1>1. /\ u \in Seq(S) /\ Len(u) = i - 1
      /\ \A k \in 1 .. i - 1 : u[k] = s[k]
  BY <1>0
<1>2. /\ v \in Seq(S) /\ Len(v) = Len(s) - c
      /\ \A k \in 1 .. Len(s) - c : v[k] = s[c + k]
  BY <1>0
<1> HIDE DEF u, v
<1>5. w \in Seq(S) /\ Len(w) = i /\ \A k \in 1 .. i : w[k] = IF k < i THEN s[k] ELSE e
  BY <1>0, <1>1
<1> HIDE DEF w
<1>6. /\ w \o v \in Seq(S) /\ Len(w \o v) = i + (Len(s) - c)
      /\ \A k \in 1 .. i + (Len(s) - c) : (w \o v)[k] = IF k <= i THEN w[k] ELSE v[k - i]
  <2>1. w \in Seq(S) /\ v \in Seq(S) /\ Len(w) = i /\ Len(v) = Len(s) - c
    BY <1>2, <1>5
  <2>2. /\ w \o v \in Seq(S) /\ Len(w \o v) = Len(w) + Len(v)
        /\ \A k \in 1 .. Len(w) + Len(v) :
             (w \o v)[k] = IF k <= Len(w) THEN w[k] ELSE v[k - Len(w)]
    BY <2>1, ConcatProperties
  <2> QED BY <2>1, <2>2
<1>7. \A k \in 1 .. i + (Len(s) - c) : k > i => v[k - i] = s[k - i + c]
  <2> SUFFICES ASSUME NEW k \in 1 .. i + (Len(s) - c), k > i PROVE v[k - i] = s[k - i + c]
    OBVIOUS
  <2>1. k - i \in 1 .. Len(s) - c
    BY <1>0
  <2>2. v[k - i] = s[c + (k - i)]
    BY <1>2, <2>1
  <2>3. c + (k - i) = k - i + c
    BY <1>0
  <2> QED BY <2>2, <2>3
<1>8. Splice(s, i, c, e) = w \o v
  BY DEF Splice, u, v, w
<1>9. \A k \in 1 .. i + (Len(s) - c) :
        (w \o v)[k] = IF k < i THEN s[k] ELSE IF k = i THEN e ELSE s[k - i + c]
  BY <1>0, <1>5, <1>6, <1>7
<1> QED BY <1>6, <1>8, <1>9

(* The pages the new one swallows: those from its own on that end inside.     *)
LEMMA SwallowedRange ==
  ASSUME NEW s \in Seq(Page), NEW i \in 1 .. Len(s),
         \A j, k \in 1 .. Len(s) : i < j /\ j < k => s[j].hi <= s[k].hi
  PROVE  \E c \in i .. Len(s) :
           /\ Swallowed(s, i) = i + 1 .. c
           /\ Cardinality(Swallowed(s, i)) = c - i
           /\ \A k \in i + 1 .. Len(s) : k <= c <=> s[k].hi <= s[i].hi
<1> DEFINE stops == {k \in i + 1 .. Len(s) : s[k].hi > s[i].hi}
           D == {k \in 1 .. Len(s) : k \notin stops}
           c == Cardinality(D)
<1>0. Len(s) \in Nat /\ i \in Nat /\ \A k \in 1 .. Len(s) : s[k].hi \in Nat
  BY PageBounds
<1>1. D \in SUBSET (1 .. Len(s))
  OBVIOUS
<1>2. ASSUME NEW j \in 1 .. Len(s), NEW k \in 1 .. Len(s), k \in D, j < k PROVE j \in D
  <2>1. CASE j <= i
    BY <1>0, <2>1
  <2>2. CASE j > i
    <3>1. s[j].hi <= s[k].hi /\ s[k].hi <= s[i].hi
      BY <1>0, <1>2, <2>2
    <3> QED BY <1>0, <3>1
  <2> QED BY <1>0, <2>1, <2>2
<1>3. \A k \in 1 .. Len(s) : k \in D <=> k \notin stops
  OBVIOUS
<1>4. i \in D
  BY <1>0
<1>5. \A k \in i + 1 .. Len(s) : k \in stops <=> ~ (s[k].hi <= s[i].hi)
  BY <1>0
<1>6. stops \in SUBSET (i + 1 .. Len(s))
  OBVIOUS
<1>7. Swallowed(s, i) =
        i + 1 .. (IF stops = {} THEN Len(s) ELSE (CHOOSE k \in stops : \A j \in stops : k <= j) - 1)
  BY DEF Swallowed
<1> HIDE DEF stops, D
<1>8. c \in 0 .. Len(s) /\ D = 1 .. c
  BY <1>0, <1>1, <1>2, Prefix
<1> HIDE DEF c
<1>9. c \in i .. Len(s) /\ i <= c
  BY <1>0, <1>4, <1>8
<1>10. \A k \in i + 1 .. Len(s) : k <= c <=> s[k].hi <= s[i].hi
  BY <1>0, <1>3, <1>5, <1>8
<1>11. Swallowed(s, i) = i + 1 .. c
  <2>1. CASE stops = {}
    <3>1. Len(s) \in D
      BY <1>0, <1>3, <2>1
    <3>2. c = Len(s)
      BY <1>0, <1>8, <3>1
    <3> QED BY <1>7, <2>1, <3>2
  <2>2. CASE stops # {}
    <3>1. \A k \in stops : k \in 1 .. Len(s) /\ k \in Nat /\ c + 1 <= k
      BY <1>0, <1>3, <1>6, <1>8
    <3>2. c + 1 <= Len(s)
      <4>1. PICK k \in stops : TRUE
        BY <2>2
      <4>2. k \in 1 .. Len(s) /\ c + 1 <= k
        BY <3>1
      <4> QED BY <1>0, <1>8, <4>2
    <3>3. c + 1 \in stops
      BY <1>0, <1>3, <1>8, <3>2
    <3> DEFINE m == CHOOSE k \in stops : \A j \in stops : k <= j
    <3>4. m \in stops /\ \A j \in stops : m <= j
      BY <3>1, <3>3
    <3>5. m = c + 1
      <4> HIDE DEF m
      <4>1. c + 1 <= m /\ m <= c + 1 /\ m \in Nat
        BY <3>1, <3>3, <3>4
      <4> QED BY <1>8, <4>1, <1>0
    <3>6. Swallowed(s, i) = i + 1 .. m - 1
      BY <1>7, <2>2
    <3> HIDE DEF m
    <3>7. m - 1 = c
      BY <1>0, <1>8, <3>5
    <3> QED BY <3>6, <3>7
  <2> QED BY <2>1, <2>2
<1>12. Cardinality(i + 1 .. c) = c - i
  <2>1. c \in Nat
    BY <1>0, <1>8
  <2>2. Cardinality(i + 1 .. c) = IF i + 1 > c THEN 0 ELSE c - (i + 1) + 1
    BY <1>0, <2>1, FS_Interval
  <2> QED BY <1>0, <1>9, <2>1, <2>2
<1> QED BY <1>9, <1>10, <1>11, <1>12
-----------------------------------------------------------------------------
(* An address is in the buffer of a whole page when the page covers it. *)
LEMMA InBuffer ==
  ASSUME NEW p \in Page, Whole(p), NEW a \in Nat
  PROVE  /\ a \in DOMAIN p.data <=> Covers(p, a)
         /\ Covers(p, a) => p.data[a] \in Value \cup {Junk}
<1>1. p.lo \in Nat /\ p.hi \in Nat
  BY PageBounds
<1>2. p.data \in [p.lo .. p.hi - 1 -> Value \cup {Junk}]
  BY DEF Whole
<1>3. a \in p.lo .. p.hi - 1 <=> Covers(p, a)
  BY <1>1 DEF Covers
<1> QED BY <1>2, <1>3

(* A joined page has, at each address, what a page it was copied from had     *)
(* there, and what it had itself where there was none.                        *)
LEMMA Copied ==
  ASSUME NEW page \in Page, Whole(page), NEW old \in SUBSET Page, \A p \in old : Whole(p)
  PROVE  /\ CopyInto(page, old) \in Page /\ Whole(CopyInto(page, old))
         /\ CopyInto(page, old).lo = page.lo /\ CopyInto(page, old).hi = page.hi
         /\ \A a \in Nat : Covers(page, a) =>
              \/ \E p \in old : Covers(p, a) /\ CopyInto(page, old).data[a] = p.data[a]
              \/ /\ \A p \in old : ~ Covers(p, a)
                 /\ CopyInto(page, old).data[a] = page.data[a]
<1> DEFINE D == DOMAIN page.data
           from(a) == CHOOSE p \in old : a \in DOMAIN p.data
           d == [a \in D |-> IF \E p \in old : a \in DOMAIN p.data
                             THEN from(a).data[a] ELSE page.data[a]]
           q == CopyInto(page, old)
<1>1. q = [page EXCEPT !.data = d]
  BY DEF CopyInto
<1>2. page.lo \in 0 .. Size /\ page.hi \in 0 .. Size /\ page.lo \in Nat /\ page.hi \in Nat
  BY PageBounds DEF Page
<1>3. D = page.lo .. page.hi - 1
  BY DEF Whole
<1>4. ASSUME NEW a \in D
      PROVE  /\ a \in Nat /\ d[a] \in Value \cup {Junk}
             /\ \/ \E p \in old : Covers(p, a) /\ d[a] = p.data[a]
                \/ (\A p \in old : ~ Covers(p, a)) /\ d[a] = page.data[a]
  <2>0. a \in Nat
    BY <1>2, <1>3
  <2>1. \A p \in old : (a \in DOMAIN p.data <=> Covers(p, a))
                       /\ (Covers(p, a) => p.data[a] \in Value \cup {Junk})
    BY <2>0, InBuffer
  <2>2. CASE \E p \in old : a \in DOMAIN p.data
    <3>1. d[a] = from(a).data[a]
      BY <2>2
    <3>2. from(a) \in old /\ a \in DOMAIN from(a).data
      BY <2>2
    <3> HIDE DEF from, d
    <3> QED BY <2>0, <2>1, <3>1, <3>2
  <2>3. CASE ~ \E p \in old : a \in DOMAIN p.data
    <3>1. d[a] = page.data[a]
      BY <2>3
    <3>2. page.data[a] \in Value \cup {Junk}
      BY DEF Whole
    <3> HIDE DEF from, d
    <3> QED BY <2>0, <2>1, <2>3, <3>1, <3>2
  <2> QED BY <2>2, <2>3
<1>5. d = [a \in D |-> d[a]]
  OBVIOUS
<1> HIDE DEF d, D, q
<1>6. d \in [D -> Value \cup {Junk}]
  BY <1>4, <1>5
<1>7. d \in [page.lo .. page.hi - 1 -> Value \cup {Junk}]
  BY <1>3, <1>6
<1>8. d \in Buffer
  BY <1>2, <1>7, IsBuffer
<1>9. q \in Page /\ q.lo = page.lo /\ q.hi = page.hi /\ q.data = d
  BY <1>1, <1>8 DEF Page
<1>10. Whole(q)
  BY <1>7, <1>9 DEF Whole
<1>11. \A a \in Nat : Covers(page, a) => a \in D
  BY <1>2, <1>3 DEF Covers
<1> QED BY <1>4, <1>9, <1>10, <1>11 DEF q

(* get_block's join: a page lo .. hi that begins where or after the pages     *)
(* before it end, and that cuts no page at hi, takes the place of the pages   *)
(* it covers; the pages stay sound and every cell keeps its value.            *)
LEMMA JoinSound ==
  ASSUME Sound(pages), NEW i \in 1 .. Len(pages) + 1,
         NEW lo \in Nat, NEW hi \in Nat, lo < hi, hi <= Size,
         lo % PageSize = 0, hi % PageSize = 0,
         \A k \in 1 .. Len(pages) : k < i => pages[k].hi <= lo,
         \A k \in 1 .. Len(pages) : k >= i => lo <= pages[k].lo,
         \A k \in 1 .. Len(pages) : pages[k].lo < hi => pages[k].hi <= hi
  PROVE  /\ Sound(JoinPages(i, lo, hi)) /\ i \in DOMAIN JoinPages(i, lo, hi)
         /\ JoinPages(i, lo, hi)[i].lo = lo /\ JoinPages(i, lo, hi)[i].hi = hi
         /\ SameCells(pages, JoinPages(i, lo, hi))
<1> DEFINE n == Len(pages)
           p == PageOf(lo, hi)
           s == InsertAt(pages, i, p)
           r == JoinPages(i, lo, hi)
<1>0. n \in Nat /\ DOMAIN pages = 1 .. n /\ pages \in Seq(Page) /\ i \in Nat
  BY Bounds DEF Sound
<1>1. /\ p \in Page /\ Whole(p) /\ p.lo = lo /\ p.hi = hi
      /\ \A a \in lo .. hi - 1 : p.data[a] = Junk
  BY NewPage
<1>2. /\ \A k \in 1 .. n : /\ pages[k].lo \in Nat /\ pages[k].hi \in Nat
                           /\ pages[k].lo < pages[k].hi /\ Whole(pages[k]) /\ pages[k] \in Page
      /\ \A j, k \in 1 .. n : j < k => pages[j].hi <= pages[k].lo
  <2>1. \A k \in 1 .. n : Whole(pages[k])
    BY <1>0 DEF Sound
  <2> QED BY <2>1, Bounds
<1> HIDE DEF p
<1>3. /\ s \in Seq(Page) /\ Len(s) = n + 1
      /\ \A k \in 1 .. n + 1 :
           s[k] = IF k < i THEN pages[k] ELSE IF k = i THEN p ELSE pages[k - 1]
  BY <1>0, <1>1, Inserted
<1>4. r = SubSeq(s, 1, i - 1) \o <<CopyInto(s[i], {s[k] : k \in Swallowed(s, i)})>>
           \o SubSeq(s, i + 1 + Cardinality(Swallowed(s, i)), Len(s))
  BY DEF JoinPages, p
<1> HIDE DEF s, r
<1>5. s[i] = p /\ i \in 1 .. n + 1
  BY <1>0, <1>3
<1>6. \A j \in 1 .. n : j >= i => s[j + 1] = pages[j] /\ j + 1 \in i + 1 .. n + 1
  BY <1>0, <1>3
<1>7. \A k \in i + 1 .. n + 1 : s[k] = pages[k - 1] /\ k - 1 \in 1 .. n /\ k - 1 >= i
  BY <1>0, <1>3
<1>8. PICK c \in i .. n + 1 :
        /\ Swallowed(s, i) = i + 1 .. c
        /\ Cardinality(Swallowed(s, i)) = c - i
        /\ \A k \in i + 1 .. n + 1 : k <= c <=> s[k].hi <= hi
  <2>1. ASSUME NEW j \in 1 .. n + 1, NEW k \in 1 .. n + 1, i < j, j < k
        PROVE  s[j].hi <= s[k].hi
    <3>1. j - 1 \in 1 .. n /\ k - 1 \in 1 .. n /\ j - 1 < k - 1
          /\ s[j] = pages[j - 1] /\ s[k] = pages[k - 1]
      BY <1>0, <1>7, <2>1
    <3>2. /\ pages[j - 1].hi <= pages[k - 1].lo /\ pages[k - 1].lo < pages[k - 1].hi
          /\ pages[j - 1].hi \in Nat /\ pages[k - 1].lo \in Nat /\ pages[k - 1].hi \in Nat
      BY <1>2, <3>1
    <3>3. pages[j - 1].hi <= pages[k - 1].hi
      BY <3>2
    <3> QED BY <3>1, <3>3
  <2> QED BY <1>1, <1>3, <1>5, <2>1, SwallowedRange
<1> DEFINE old == {s[k] : k \in i + 1 .. c}
           q == CopyInto(p, old)
<1>9. \A k \in i + 1 .. c : s[k] = pages[k - 1] /\ k - 1 \in 1 .. n /\ k - 1 >= i
  BY <1>0, <1>7, <1>8
<1>10. old \in SUBSET Page /\ \A x \in old : Whole(x)
  BY <1>2, <1>9
<1>11. /\ q \in Page /\ Whole(q) /\ q.lo = lo /\ q.hi = hi
       /\ \A a \in Nat : Covers(p, a) =>
            \/ \E x \in old : Covers(x, a) /\ q.data[a] = x.data[a]
            \/ (\A x \in old : ~ Covers(x, a)) /\ q.data[a] = p.data[a]
  <2> HIDE DEF old
  <2> QED BY <1>1, <1>10, Copied
<1>12. r = SubSeq(s, 1, i - 1) \o <<q>> \o SubSeq(s, c + 1, Len(s))
  <2>1. i + 1 + Cardinality(Swallowed(s, i)) = c + 1
    BY <1>0, <1>8
  <2>2. {s[k] : k \in Swallowed(s, i)} = old
    BY <1>8
  <2> HIDE DEF old
  <2> QED BY <1>4, <1>5, <2>1, <2>2
<1>13. \A x : x \in old <=> \E k \in i + 1 .. c : x = s[k]
  OBVIOUS
<1> HIDE DEF q, old
<1> DEFINE m == i + (n + 1 - c)
<1>14. /\ r \in Seq(Page) /\ Len(r) = m
       /\ \A k \in 1 .. m : r[k] = IF k < i THEN s[k] ELSE IF k = i THEN q ELSE s[k - i + c]
  <2>1. s \in Seq(Page) /\ i \in 1 .. Len(s) /\ c \in i .. Len(s) /\ q \in Page
    BY <1>3, <1>5, <1>8, <1>11
  <2>2. /\ r = Splice(s, i, c, q)
        /\ r \in Seq(Page) /\ Len(r) = i + (Len(s) - c)
        /\ \A k \in 1 .. i + (Len(s) - c) :
             r[k] = IF k < i THEN s[k] ELSE IF k = i THEN q ELSE s[k - i + c]
    <3>1. r = Splice(s, i, c, q)
      BY <1>12 DEF Splice
    <3>2. /\ Splice(s, i, c, q) \in Seq(Page) /\ Len(Splice(s, i, c, q)) = i + (Len(s) - c)
          /\ \A k \in 1 .. i + (Len(s) - c) :
               Splice(s, i, c, q)[k] = IF k < i THEN s[k] ELSE IF k = i THEN q ELSE s[k - i + c]
      BY <2>1, Spliced
    <3> QED BY <3>1, <3>2
  <2>3. i + (Len(s) - c) = m
    BY <1>0, <1>3, <2>1
  <2> HIDE DEF m
  <2> QED BY <2>2, <2>3
<1>15. m \in Nat /\ i <= m /\ DOMAIN r = 1 .. m /\ c \in Nat /\ i <= c /\ c <= n + 1
  BY <1>0, <1>8, <1>14
<1> HIDE DEF m
<1>16. \A k \in 1 .. m : k < i => k \in 1 .. n /\ r[k] = pages[k]
  BY <1>0, <1>3, <1>14, <1>15
<1>17. r[i] = q /\ i \in 1 .. m
  BY <1>0, <1>14, <1>15
<1>18. ASSUME NEW k \in 1 .. m, k > i
       PROVE  /\ k - i + c \in c + 1 .. n + 1
              /\ k - i + c - 1 \in 1 .. n /\ k - i + c - 1 >= i
              /\ r[k] = pages[k - i + c - 1] /\ hi <= r[k].lo
  <2>1. k - i + c \in i + 1 .. n + 1 /\ ~ (k - i + c <= c)
    BY <1>0, <1>15, <1>18 DEF m
  <2>2. r[k] = s[k - i + c]
    BY <1>14, <1>18, <1>0
  <2> DEFINE t == k - i + c
  <2>3. t \in i + 1 .. n + 1 /\ ~ (t <= c) /\ r[k] = s[t]
    BY <2>1, <2>2
  <2>4. t \in c + 1 .. n + 1
    BY <1>0, <1>15, <2>3
  <2> HIDE DEF t
  <2>5. s[t] = pages[t - 1] /\ t - 1 \in 1 .. n /\ t - 1 >= i
    BY <1>7, <2>3
  <2>6. ~ (s[t].hi <= hi)
    BY <1>8, <2>3
  <2>7. hi <= pages[t - 1].lo
    BY <1>2, <2>5, <2>6
  <2> QED BY <2>3, <2>4, <2>5, <2>7 DEF t
<1>19. \A k \in 1 .. m : Whole(r[k])
  <2> SUFFICES ASSUME NEW k \in 1 .. m PROVE Whole(r[k])
    OBVIOUS
  <2>1. CASE k < i
    BY <1>2, <1>16, <2>1
  <2>2. CASE k = i
    BY <1>11, <1>17, <2>2
  <2>3. CASE k > i
    BY <1>2, <1>18, <2>3
  <2> QED BY <1>0, <2>1, <2>2, <2>3
<1>20. Apart(r)
  <2> SUFFICES ASSUME NEW j \in 1 .. m, NEW k \in 1 .. m, j < k
               PROVE  r[j].hi <= r[k].lo
    BY <1>15 DEF Apart
  <2>1. CASE k < i
    <3>1. j < i
      BY <1>0, <2>1
    <3> QED BY <1>2, <1>16, <2>1, <3>1
  <2>2. CASE k = i
    BY <1>11, <1>16, <1>17, <2>2
  <2>3. CASE k > i
    <3>1. k - i + c - 1 \in 1 .. n /\ k - i + c - 1 >= i /\ r[k] = pages[k - i + c - 1]
          /\ hi <= r[k].lo
      BY <1>18, <2>3
    <3>2. CASE j < i
      <4>1. j \in 1 .. n /\ r[j] = pages[j] /\ j < k - i + c - 1
        BY <1>0, <1>15, <1>16, <3>1, <3>2
      <4> QED BY <1>2, <3>1, <4>1
    <3>3. CASE j = i
      BY <1>11, <1>17, <3>1, <3>3
    <3>4. CASE j > i
      <4>1. j - i + c - 1 \in 1 .. n /\ r[j] = pages[j - i + c - 1]
        BY <1>18, <3>4
      <4>2. j - i + c - 1 < k - i + c - 1
        BY <1>0, <1>15
      <4> QED BY <1>2, <3>1, <4>1, <4>2
    <3> QED BY <1>0, <3>2, <3>3, <3>4
  <2> QED BY <1>0, <2>1, <2>2, <2>3
<1>21. Sound(r)
  BY <1>14, <1>15, <1>19, <1>20 DEF Sound
<1>22. ASSUME NEW a \in Nat, NEW v \in Value, NEW j \in 1 .. n,
              Covers(pages[j], a), pages[j].data[a] = v
       PROVE  Holds(r, a, v)
  <2>1. CASE j < i
    <3>1. j \in 1 .. m /\ r[j] = pages[j]
      BY <1>0, <1>15, <1>16, <2>1
    <3> QED BY <1>15, <1>22, <3>1 DEF Holds
  <2>2. CASE j >= i /\ j + 1 <= c
    <3>1. s[j + 1] = pages[j] /\ j + 1 \in i + 1 .. n + 1 /\ j + 1 \in i + 1 .. c
      BY <1>0, <1>6, <1>15, <2>2
    <3>2. pages[j].hi <= hi /\ lo <= pages[j].lo
      BY <1>8, <2>2, <3>1
    <3>3. Covers(p, a)
      BY <1>1, <1>2, <1>22, <3>2 DEF Covers
    <3>4. pages[j] \in old
      BY <1>13, <3>1
    <3>5. PICK x \in old : Covers(x, a) /\ q.data[a] = x.data[a]
      BY <1>11, <1>22, <3>3, <3>4
    <3>6. PICK k \in i + 1 .. c : x = s[k]
      BY <1>13
    <3>7. k - 1 \in 1 .. n /\ x = pages[k - 1]
      BY <1>9, <3>6
    <3>8. k - 1 = j
      <4> DEFINE g == k - 1
      <4>1. g \in 1 .. n /\ Covers(pages[g], a)
        BY <3>5, <3>7
      <4> HIDE DEF g
      <4>3. g = j
        BY <1>22, <4>1, OneCovers
      <4> QED BY <4>3 DEF g
    <3>9. q.data[a] = v /\ Covers(q, a)
      BY <1>1, <1>11, <1>22, <3>3, <3>5, <3>7, <3>8 DEF Covers
    <3> QED BY <1>15, <1>17, <3>9 DEF Holds
  <2>3. CASE j >= i /\ ~ (j + 1 <= c)
    <3> DEFINE k == j + 1 - c + i
    <3>1. k \in 1 .. m /\ k > i /\ k - i + c - 1 = j
      BY <1>0, <1>15, <2>3 DEF m
    <3> HIDE DEF k
    <3>2. r[k] = pages[j]
      BY <1>18, <3>1
    <3> QED BY <1>15, <1>22, <3>1, <3>2 DEF Holds
  <2> QED BY <1>0, <2>1, <2>2, <2>3
<1>23. ASSUME NEW a \in Nat, NEW v \in Value, NEW k \in 1 .. m,
              Covers(r[k], a), r[k].data[a] = v
       PROVE  Holds(pages, a, v)
  <2>1. CASE k < i
    BY <1>0, <1>16, <1>23, <2>1 DEF Holds
  <2>2. CASE k = i
    <3>1. Covers(p, a) /\ q.data[a] = v
      BY <1>1, <1>11, <1>17, <1>23, <2>2 DEF Covers
    <3>2. a \in lo .. hi - 1
      BY <1>1, <3>1 DEF Covers
    <3>3. p.data[a] # v
      BY <1>1, <3>2, Sizes
    <3>4. PICK x \in old : Covers(x, a) /\ q.data[a] = x.data[a]
      BY <1>11, <3>1, <3>3
    <3>5. PICK g \in i + 1 .. c : x = s[g]
      BY <1>13
    <3>6. g - 1 \in 1 .. n /\ x = pages[g - 1]
      BY <1>9, <3>5
    <3> QED BY <1>0, <3>1, <3>4, <3>6 DEF Holds
  <2>3. CASE k > i
    <3>1. k - i + c - 1 \in 1 .. n /\ r[k] = pages[k - i + c - 1]
      BY <1>18, <2>3
    <3> QED BY <1>0, <1>23, <3>1 DEF Holds
  <2> QED BY <1>0, <2>1, <2>2, <2>3
<1>24. SameCells(pages, r)
  <2> SUFFICES ASSUME NEW a \in Nat, NEW v \in Value
               PROVE  Holds(pages, a, v) <=> Holds(r, a, v)
    BY DEF SameCells
  <2>1. Holds(pages, a, v) => Holds(r, a, v)
    BY <1>0, <1>22 DEF Holds
  <2>2. Holds(r, a, v) => Holds(pages, a, v)
    BY <1>15, <1>23 DEF Holds
  <2> QED BY <2>1, <2>2
<1> QED BY <1>11, <1>15, <1>17, <1>21, <1>24 DEF r
-----------------------------------------------------------------------------
(* The end of a block is moved so that it cuts no page. *)
LEMMA BlockEndCutsNothing ==
  ASSUME Sound(pages), NEW end \in Nat, end <= Size, end % PageSize = 0
  PROVE  /\ BlockEnd(end) \in Nat /\ end <= BlockEnd(end) /\ BlockEnd(end) <= Size
         /\ BlockEnd(end) % PageSize = 0
         /\ \A k \in 1 .. Len(pages) :
              pages[k].lo < BlockEnd(end) => pages[k].hi <= BlockEnd(end)
<1> DEFINE e == EndIndex(end)
           h == BlockEnd(end)
<1>0. Len(pages) \in Nat /\ Size \in Nat
  BY Bounds, Sizes
<1>1. e \in 1 .. Len(pages) + 1 /\ \A k \in 1 .. Len(pages) : k < e <=> pages[k].hi < end
  BY EndIndexFinds
<1>2. h = IF e <= Len(pages) /\ pages[e].lo < end /\ end < pages[e].hi THEN pages[e].hi ELSE end
  BY DEF BlockEnd
<1>3. \A k \in 1 .. Len(pages) :
        /\ pages[k].lo \in Nat /\ pages[k].hi \in Nat /\ pages[k].hi <= Size
        /\ pages[k].lo < pages[k].hi /\ pages[k].hi % PageSize = 0
  BY Bounds
<1>4. \A j, k \in 1 .. Len(pages) : j < k => pages[j].hi <= pages[k].lo
  BY Bounds
<1> HIDE DEF e, h
<1>5. e <= Len(pages) => e \in 1 .. Len(pages)
  BY <1>0, <1>1
<1>6. h \in Nat /\ end <= h /\ h <= Size /\ h % PageSize = 0
  BY <1>0, <1>2, <1>3, <1>5
<1>7. ASSUME NEW k \in 1 .. Len(pages), pages[k].lo < h PROVE pages[k].hi <= h
  <2>1. CASE k < e
    BY <1>1, <1>3, <1>6, <2>1
  <2>2. CASE k = e
    <3>1. e <= Len(pages) /\ e \in 1 .. Len(pages)
      BY <1>0, <2>2
    <3> QED BY <1>2, <1>3, <1>7, <2>2, <3>1
  <2>3. CASE k > e
    <3>1. e \in 1 .. Len(pages) /\ e <= Len(pages)
      BY <1>0, <1>1, <2>3
    <3>2. pages[e].hi <= pages[k].lo /\ ~ (pages[e].hi < end)
      BY <1>1, <1>4, <2>3, <3>1
    <3>3. h <= pages[k].lo
      BY <1>2, <1>3, <3>1, <3>2
    <3> QED BY <1>3, <1>6, <1>7, <3>3
  <2> QED BY <1>0, <1>1, <2>1, <2>2, <2>3
<1> QED BY <1>6, <1>7 DEF h

(* get_block leaves sound pages and every cell's value, and the block it      *)
(* returns lies in one page.                                                  *)
LEMMA GetBlockSound ==
  ASSUME Sound(pages), NEW from \in Addr, NEW to \in Addr, GetBlock(from, to)
  PROVE  /\ Sound(pages') /\ SameCells(pages, pages')
         /\ \E k \in DOMAIN pages' : /\ block' = [from |-> from, to |-> to, lo |-> pages'[k].lo]
                                     /\ pages'[k].lo <= from /\ to <= pages'[k].hi
<1> DEFINE n == Len(pages)
           start == Floor(from)
           end == Floor(to) + PageSize
           s == LowerBound(start)
           e == EndIndex(end)
           h == BlockEnd(end)
           Goal(ps, i) == /\ Sound(ps) /\ SameCells(pages, ps) /\ i \in DOMAIN ps
                          /\ ps[i].lo <= from /\ to <= ps[i].hi
           Result(ps, i) == pages' = ps /\ block' = [from |-> from, to |-> to, lo |-> ps[i].lo]
<1>0. n \in Nat /\ DOMAIN pages = 1 .. n
  BY Bounds
<1>1. /\ from \in Nat /\ to \in Nat /\ start \in Nat /\ end \in Nat /\ end <= Size
      /\ start <= from /\ to < end /\ start % PageSize = 0 /\ end % PageSize = 0
      /\ (Floor(to) + PageSize) % Size = end
  <2>1. /\ from \in Nat /\ start \in Nat /\ start <= from /\ start % PageSize = 0
    BY FloorBound
  <2>2. /\ to \in Nat /\ Floor(to) \in Nat /\ to < end /\ end % PageSize = 0 /\ end < Size
        /\ (Floor(to) + PageSize) % Size = end
    BY FloorBound
  <2>3. end \in Nat /\ end <= Size
    BY <2>2, Sizes
  <2> QED BY <2>1, <2>2, <2>3
<1>2. /\ from < to
      /\ CASE s = 0 -> Result(JoinPages(1, start, h), 1)
           [] s = e -> Result(pages, s)
           [] OTHER -> IF start < pages[s].hi
                       THEN Result(JoinPages(s, pages[s].lo, h), s)
                       ELSE Result(JoinPages(s + 1, start, h), s + 1)
  BY <1>1 DEF GetBlock
<1> HIDE DEF start, end
<1>3. s \in 0 .. n /\ \A k \in 1 .. n : k <= s <=> pages[k].lo <= start
  BY <1>1, LowerBoundFinds
<1>4. e \in 1 .. n + 1 /\ \A k \in 1 .. n : k < e <=> pages[k].hi < end
  BY <1>1, EndIndexFinds
<1>5. /\ h \in Nat /\ end <= h /\ h <= Size /\ h % PageSize = 0
      /\ \A k \in 1 .. n : pages[k].lo < h => pages[k].hi <= h
  BY <1>1, BlockEndCutsNothing
<1> HIDE DEF s, e, h
<1>6. start < h /\ to <= h
  BY <1>1, <1>2, <1>5
<1>7. /\ \A k \in 1 .. n : /\ pages[k].lo \in Nat /\ pages[k].hi \in Nat
                           /\ pages[k].lo < pages[k].hi /\ pages[k].lo % PageSize = 0
      /\ \A j, k \in 1 .. n : j < k => pages[j].hi <= pages[k].lo
  BY Bounds
<1>8. SUFFICES \E ps, i : Goal(ps, i) /\ Result(ps, i)
  <2>1. ASSUME NEW ps, NEW i, Goal(ps, i), Result(ps, i)
        PROVE  /\ Sound(pages') /\ SameCells(pages, pages')
               /\ \E k \in DOMAIN pages' :
                    /\ block' = [from |-> from, to |-> to, lo |-> pages'[k].lo]
                    /\ pages'[k].lo <= from /\ to <= pages'[k].hi
    BY <2>1
  <2> QED BY <2>1
<1>9. ASSUME NEW i \in 1 .. n + 1, NEW lo \in Nat, lo <= start, lo % PageSize = 0,
             \A k \in 1 .. n : k < i => pages[k].hi <= lo,
             \A k \in 1 .. n : k >= i => lo <= pages[k].lo
      PROVE  Goal(JoinPages(i, lo, h), i)
  <2>1. lo < h
    BY <1>1, <1>6, <1>5, <1>9
  <2>2. /\ Sound(JoinPages(i, lo, h)) /\ i \in DOMAIN JoinPages(i, lo, h)
        /\ JoinPages(i, lo, h)[i].lo = lo /\ JoinPages(i, lo, h)[i].hi = h
        /\ SameCells(pages, JoinPages(i, lo, h))
    BY <1>5, <1>9, <2>1, JoinSound
  <2>3. lo <= from
    BY <1>1, <1>9
  <2> QED BY <1>6, <2>2, <2>3
<1>10. CASE s = 0
  <2>1. \A k \in 1 .. n : k >= 1 => start <= pages[k].lo
    BY <1>1, <1>3, <1>7, <1>10
  <2>2. \A k \in 1 .. n : k < 1 => pages[k].hi <= start
    BY <1>0
  <2>3. 1 \in 1 .. n + 1
    BY <1>0
  <2>4. Goal(JoinPages(1, start, h), 1)
    <3>1. start <= start
      BY <1>1
    <3> HIDE DEF Goal
    <3> QED BY <1>1, <1>9, <2>1, <2>2, <2>3, <3>1
  <2>5. Result(JoinPages(1, start, h), 1)
    <3>1. s # e
      BY <1>0, <1>4, <1>10
    <3> HIDE DEF Result
    <3> QED BY <1>2, <1>10, <3>1
  <2> HIDE DEF Goal, Result
  <2> QED BY <2>4, <2>5
<1>11. CASE s # 0 /\ s = e
  <2>1. s \in 1 .. n
    BY <1>0, <1>3, <1>11
  <2>2. pages[s].lo <= start /\ ~ (pages[s].hi < end)
    BY <1>0, <1>3, <1>4, <1>11, <2>1
  <2>3. pages[s].lo <= from /\ to <= pages[s].hi
    BY <1>1, <1>7, <2>1, <2>2
  <2>4. SameCells(pages, pages)
    BY DEF SameCells
  <2>5. Goal(pages, s)
    BY <1>0, <2>1, <2>3, <2>4
  <2>6. Result(pages, s)
    BY <1>2, <1>11
  <2> HIDE DEF Goal, Result
  <2> QED BY <2>5, <2>6
<1>12. CASE s # 0 /\ s # e /\ start < pages[s].hi
  <2>1. s \in 1 .. n /\ s \in 1 .. n + 1
    BY <1>0, <1>3, <1>12
  <2> DEFINE lo == pages[s].lo
  <2>2. lo \in Nat /\ lo <= start /\ lo % PageSize = 0
    BY <1>3, <1>7, <2>1, <1>0
  <2>3. \A k \in 1 .. n : k < s => pages[k].hi <= lo
    BY <1>7, <2>1
  <2>4. \A k \in 1 .. n : k >= s => lo <= pages[k].lo
    <3> SUFFICES ASSUME NEW k \in 1 .. n, k >= s PROVE pages[s].lo <= pages[k].lo
      OBVIOUS
    <3>1. CASE k = s
      BY <1>7, <2>1, <3>1
    <3>2. CASE k > s
      <4>1. /\ pages[s].hi <= pages[k].lo /\ pages[s].lo < pages[s].hi
            /\ pages[s].lo \in Nat /\ pages[s].hi \in Nat /\ pages[k].lo \in Nat
        BY <1>7, <2>1, <3>2
      <4> QED BY <4>1
    <3> QED BY <1>0, <2>1, <3>1, <3>2
  <2>5. Result(JoinPages(s, lo, h), s)
    BY <1>2, <1>12
  <2> HIDE DEF lo, Goal, Result
  <2>6. Goal(JoinPages(s, lo, h), s)
    BY <1>9, <2>1, <2>2, <2>3, <2>4
  <2> QED BY <2>5, <2>6
<1>13. CASE s # 0 /\ s # e /\ ~ (start < pages[s].hi)
  <2>1. s \in 1 .. n /\ s + 1 \in 1 .. n + 1
    BY <1>0, <1>3, <1>13
  <2> DEFINE i == s + 1
  <2>2. \A k \in 1 .. n : k < i => pages[k].hi <= start
    <3> SUFFICES ASSUME NEW k \in 1 .. n, k < s + 1 PROVE pages[k].hi <= start
      OBVIOUS
    <3>1. pages[s].hi \in Nat /\ pages[s].lo \in Nat /\ pages[s].hi <= start
      BY <1>1, <1>7, <1>13, <2>1
    <3>2. CASE k = s
      BY <3>1, <3>2
    <3>3. CASE k < s
      <4>1. /\ pages[k].hi <= pages[s].lo /\ pages[s].lo < pages[s].hi /\ pages[k].hi \in Nat
        BY <1>7, <2>1, <3>3
      <4> QED BY <1>1, <3>1, <4>1
    <3> QED BY <1>0, <2>1, <3>2, <3>3
  <2>3. \A k \in 1 .. n : k >= i => start <= pages[k].lo
    BY <1>0, <1>1, <1>3, <1>7, <2>1
  <2>4. i \in 1 .. n + 1
    BY <2>1
  <2>5. Result(JoinPages(i, start, h), i)
    BY <1>2, <1>13
  <2>6. start <= start
    BY <1>1
  <2> HIDE DEF i, Goal, Result
  <2>7. Goal(JoinPages(i, start, h), i)
    BY <1>1, <1>9, <2>2, <2>3, <2>4, <2>6
  <2> QED BY <2>5, <2>7
<1> QED BY <1>10, <1>11, <1>12, <1>13
-----------------------------------------------------------------------------
(* What the proofs below call the memory: the mapping of Flat. *)
Mem == [a \in Addr |-> IF Missing(a) THEN Junk ELSE pages[LowerBound(a)].data[a]]

(* The cells of Mem are those the pages hold. *)
LEMMA MemHolds ==
  Sound(pages) => \A a \in Addr : /\ Mem[a] \in Value \cup {Junk}
                                  /\ \A v \in Value : Mem[a] = v <=> Holds(pages, a, v)
<1> SUFFICES ASSUME Sound(pages), NEW a \in Addr
             PROVE  /\ Mem[a] \in Value \cup {Junk}
                    /\ \A v \in Value : Mem[a] = v <=> Holds(pages, a, v)
  OBVIOUS
<1>0. a \in Nat /\ DOMAIN pages = 1 .. Len(pages)
  BY FloorBound, Bounds
<1>1. Mem[a] = IF Missing(a) THEN Junk ELSE pages[LowerBound(a)].data[a]
  BY DEF Mem
<1>2. CASE Missing(a)
  <2>1. \A k \in 1 .. Len(pages) : ~ Covers(pages[k], a)
    BY <1>0, <1>2, LookupFinds
  <2> QED BY <1>0, <1>1, <1>2, <2>1, Sizes DEF Holds
<1>3. CASE ~ Missing(a)
  <2> DEFINE i == LowerBound(a)
  <2>1. /\ i \in 1 .. Len(pages) /\ Covers(pages[i], a)
        /\ \A k \in 1 .. Len(pages) : Covers(pages[k], a) => k = i
    BY <1>0, <1>3, LookupFinds
  <2>2. Mem[a] = pages[i].data[a]
    BY <1>1, <1>3
  <2> HIDE DEF i
  <2>3. pages[i] \in Page /\ Whole(pages[i])
    BY <1>0, <2>1, Bounds DEF Sound
  <2>4. pages[i].data[a] \in Value \cup {Junk}
    BY <1>0, <2>1, <2>3, InBuffer
  <2> QED BY <1>0, <2>1, <2>2, <2>4 DEF Holds
<1> QED BY <1>2, <1>3

(* The same after a step. *)
LEMMA MemHoldsNext ==
  Sound(pages)' => (\A a \in Addr : /\ Mem[a] \in Value \cup {Junk}
                                    /\ \A v \in Value : Mem[a] = v <=> Holds(pages, a, v))'
  BY MemHolds, PTL

(* A step that keeps the cells keeps the memory. *)
LEMMA SameMem ==
  ASSUME Sound(pages), Sound(pages)', SameCells(pages, pages')
  PROVE  Mem' = Mem
<1>1. \A a \in Addr : /\ Mem[a] \in Value \cup {Junk}
                      /\ \A v \in Value : Mem[a] = v <=> Holds(pages, a, v)
  BY MemHolds
<1>2. \A a \in Addr : /\ Mem'[a] \in Value \cup {Junk}
                      /\ \A v \in Value : Mem'[a] = v <=> Holds(pages', a, v)
  BY MemHoldsNext
<1>3. \A a \in Addr, v \in Value : Holds(pages, a, v) <=> Holds(pages', a, v)
  BY FloorBound DEF SameCells
<1>4. Mem = [a \in Addr |-> Mem[a]] /\ Mem' = [a \in Addr |-> Mem'[a]]
  BY DEF Mem
<1>5. \A a \in Addr : Mem'[a] = Mem[a]
  BY <1>1, <1>2, <1>3
<1> QED BY <1>4, <1>5, Zenon

(* A step that writes one cell writes it in the memory. *)
LEMMA WrittenMem ==
  ASSUME Sound(pages), Sound(pages)', NEW a \in Addr, NEW v \in Value,
         \A b \in Nat, w \in Value :
           Holds(pages', b, w) <=> IF b = a THEN w = v ELSE Holds(pages, b, w)
  PROVE  Mem' = [Mem EXCEPT ![a] = v]
<1>1. \A b \in Addr : /\ Mem[b] \in Value \cup {Junk}
                      /\ \A w \in Value : Mem[b] = w <=> Holds(pages, b, w)
  BY MemHolds
<1>2. \A b \in Addr : /\ Mem'[b] \in Value \cup {Junk}
                      /\ \A w \in Value : Mem'[b] = w <=> Holds(pages', b, w)
  BY MemHoldsNext
<1>3. \A b \in Addr : b \in Nat
  BY FloorBound
<1>4. Mem = [b \in Addr |-> Mem[b]] /\ Mem' = [b \in Addr |-> Mem'[b]]
  BY DEF Mem
<1>5. \A b \in Addr : Mem'[b] = IF b = a THEN v ELSE Mem[b]
  BY <1>1, <1>2, <1>3
<1>6. [Mem EXCEPT ![a] = v] = [b \in Addr |-> IF b = a THEN v ELSE Mem[b]]
  BY <1>4
<1>7. Mem' = [b \in Addr |-> IF b = a THEN v ELSE Mem[b]]
  BY <1>4, <1>5, Zenon
<1> QED BY <1>6, <1>7

(* A block stays in its page while the pages keep their bounds. *)
LEMMA BlockStays ==
  ASSUME BlockType, BlockInOnePage, KeepsPages(pages, pages'), UNCHANGED block
  PROVE  BlockType' /\ BlockInOnePage'
  BY DEF BlockType, BlockInOnePage, KeepsPages

(* Every operation of sparse_mem keeps the invariant, and is a write of the   *)
(* flat array or leaves it alone.                                             *)
LEMMA Step ==
  ASSUME IInv, [Next]_vars
  PROVE  IInv' /\ (Mem' = Mem \/ \E a \in Addr, v \in Value : Mem' = [Mem EXCEPT ![a] = v])
<1>0. Sound(pages) /\ BlockType /\ BlockInOnePage
  BY DEF IInv
<1>1. ASSUME NEW a \in Addr, Load(a) PROVE IInv' /\ Mem' = Mem
  <2>1. pages' = Touched(a) /\ UNCHANGED block
    BY <1>1 DEF Load
  <2>2. Sound(pages)' /\ KeepsPages(pages, pages') /\ SameCells(pages, pages')
    BY <1>0, <2>1, TouchSound
  <2>3. BlockType' /\ BlockInOnePage'
    BY <1>0, <2>1, <2>2, BlockStays
  <2>4. Mem' = Mem
    BY <1>0, <2>2, SameMem
  <2> QED BY <2>2, <2>3, <2>4 DEF IInv
<1>2. ASSUME NEW a \in Addr, NEW v \in Value, Store(a, v)
      PROVE  IInv' /\ Mem' = [Mem EXCEPT ![a] = v]
  <2> DEFINE ps == Touched(a)
             i == Index(a)
  <2>1. pages' = [ps EXCEPT ![i].data[a] = v] /\ UNCHANGED block
    BY <1>2 DEF Store
  <2>2. /\ Sound(ps) /\ i \in 1 .. Len(ps) /\ Covers(ps[i], a) /\ a \in Nat
        /\ KeepsPages(pages, ps) /\ SameCells(pages, ps)
    BY <1>0, TouchSound, FloorBound
  <2> HIDE DEF ps, i
  <2>3. /\ Sound(pages') /\ KeepsPages(ps, pages')
        /\ \A b \in Nat, w \in Value :
             Holds(pages', b, w) <=> IF b = a THEN w = v ELSE Holds(ps, b, w)
    BY <2>1, <2>2, PutSound
  <2>4. KeepsPages(pages, pages')
    BY <2>2, <2>3 DEF KeepsPages
  <2>5. \A b \in Nat, w \in Value :
          Holds(pages', b, w) <=> IF b = a THEN w = v ELSE Holds(pages, b, w)
    BY <2>2, <2>3 DEF SameCells
  <2>6. BlockType' /\ BlockInOnePage'
    BY <1>0, <2>1, <2>4, BlockStays
  <2>7. Mem' = [Mem EXCEPT ![a] = v]
    BY <1>0, <2>3, <2>5, WrittenMem
  <2> QED BY <2>3, <2>6, <2>7 DEF IInv
<1>3. ASSUME NEW a \in Addr, NEW v \in Value, StoreInBlock(a, v)
      PROVE  IInv' /\ Mem' = [Mem EXCEPT ![a] = v]
  <2>1. /\ block # <<>> /\ a \in block.from .. block.to - 1 /\ UNCHANGED block
        /\ \E k \in DOMAIN pages : pages[k].lo = block.lo /\ pages' = [pages EXCEPT ![k].data[a] = v]
    BY <1>3 DEF StoreInBlock
  <2>2. PICK i \in DOMAIN pages : pages[i].lo = block.lo /\ pages' = [pages EXCEPT ![i].data[a] = v]
    BY <2>1
  <2>3. PICK k \in DOMAIN pages :
          pages[k].lo = block.lo /\ block.lo <= block.from /\ block.to <= pages[k].hi
    BY <1>0, <2>1 DEF BlockInOnePage
  <2>4. DOMAIN pages = 1 .. Len(pages) /\ Len(pages) \in Nat
    BY <1>0, Bounds
  <2>5. /\ pages[i].lo \in Nat /\ pages[i].hi \in Nat /\ pages[i].lo < pages[i].hi
        /\ pages[k].lo \in Nat /\ pages[k].hi \in Nat /\ pages[k].lo < pages[k].hi
        /\ i < k => pages[i].hi <= pages[k].lo
        /\ k < i => pages[k].hi <= pages[i].lo
    BY <1>0, <2>4, Bounds
  <2>6. i = k
    BY <2>2, <2>3, <2>4, <2>5
  <2>7. a \in Nat
    BY FloorBound
  <2>8. block.from \in Int /\ block.to \in Int
    <3>1. block \in [from : Addr, to : Addr, lo : Nat]
      BY <1>0, <2>1 DEF BlockType
    <3> QED BY <3>1, FloorBound
  <2>9. Covers(pages[i], a)
    BY <2>1, <2>3, <2>5, <2>6, <2>7, <2>8 DEF Covers
  <2>10. /\ Sound(pages') /\ KeepsPages(pages, pages')
         /\ \A b \in Nat, w \in Value :
              Holds(pages', b, w) <=> IF b = a THEN w = v ELSE Holds(pages, b, w)
    BY <1>0, <2>2, <2>4, <2>7, <2>9, PutSound
  <2>11. BlockType' /\ BlockInOnePage'
    BY <1>0, <2>1, <2>10, BlockStays
  <2>12. Mem' = [Mem EXCEPT ![a] = v]
    BY <1>0, <2>10, WrittenMem
  <2> QED BY <2>10, <2>11, <2>12 DEF IInv
<1>4. ASSUME NEW from \in Addr, NEW to \in Addr, GetBlock(from, to) PROVE IInv' /\ Mem' = Mem
  <2>1. Sound(pages') /\ SameCells(pages, pages')
    BY <1>0, <1>4, GetBlockSound
  <2>2. PICK k \in DOMAIN pages' :
          /\ block' = [from |-> from, to |-> to, lo |-> pages'[k].lo]
          /\ pages'[k].lo <= from /\ to <= pages'[k].hi
    BY <1>0, <1>4, GetBlockSound
  <2>3. pages'[k].lo \in Nat
    BY <2>1, Bounds
  <2>4. BlockType'
    BY <2>2, <2>3 DEF BlockType
  <2>5. BlockInOnePage'
    BY <2>2 DEF BlockInOnePage
  <2>6. Mem' = Mem
    BY <1>0, <2>1, SameMem
  <2> QED BY <2>1, <2>4, <2>5, <2>6 DEF IInv
<1>5. ASSUME UNCHANGED vars PROVE IInv' /\ Mem' = Mem
  <2>1. pages' = pages /\ block' = block
    BY <1>5 DEF vars
  <2>2. Sound(pages') /\ KeepsPages(pages, pages') /\ SameCells(pages, pages')
    BY <1>0, <2>1 DEF KeepsPages, SameCells
  <2>3. BlockType' /\ BlockInOnePage'
    BY <1>0, <2>1, <2>2, BlockStays
  <2>4. Mem' = Mem
    BY <1>0, <2>2, SameMem
  <2> QED BY <2>2, <2>3, <2>4 DEF IInv
<1> QED BY <1>1, <1>2, <1>3, <1>4, <1>5 DEF Next

(* The memory begins with no pages and nothing written. *)
LEMMA Begins == Init => IInv /\ Mem = [a \in Addr |-> Junk]
<1> SUFFICES ASSUME Init PROVE IInv /\ Mem = [a \in Addr |-> Junk]
  OBVIOUS
<1>1. pages = <<>> /\ block = <<>>
  BY DEF Init
<1>2. Sound(pages)
  BY <1>1 DEF Sound, Apart
<1>3. IInv
  BY <1>1, <1>2 DEF IInv, BlockType, BlockInOnePage
<1>4. \A a \in Addr : /\ Mem[a] \in Value \cup {Junk}
                      /\ \A v \in Value : Mem[a] = v <=> Holds(pages, a, v)
  BY <1>2, MemHolds
<1>5. \A a \in Addr, v \in Value : ~ Holds(pages, a, v)
  BY <1>1 DEF Holds
<1>6. \A a \in Addr : Mem[a] = Junk
  BY <1>4, <1>5
<1>7. Mem = [a \in Addr |-> Mem[a]]
  BY DEF Mem
<1> QED BY <1>3, <1>6, <1>7, Zenon
-----------------------------------------------------------------------------
(* The inductive invariant: sound pages, and a block that lies in one. *)
THEOREM Invariance == Spec => []IInv
<1>1. Init => IInv
  BY Begins
<1>2. IInv /\ [Next]_vars => IInv'
  BY Step
<1> QED BY <1>1, <1>2, PTL DEF Spec

(* The pages of sparse_mem stay sorted, apart and whole, and the block the    *)
(* user holds of get_block stays in one buffer, for every page size and       *)
(* memory size: operator[] allocates, get_block joins.                        *)
THEOREM PagesStaySound == Spec => []PagesSound
<1>1. IInv => PagesSound
  <2> SUFFICES ASSUME IInv PROVE Sorted /\ WholePages /\ BlockInOnePage
    BY DEF PagesSound
  <2>0. Sound(pages) /\ BlockInOnePage
    BY DEF IInv
  <2>1. /\ Len(pages) \in Nat
        /\ \A j, k \in 1 .. Len(pages) : j < k => pages[j].hi <= pages[k].lo
    BY <2>0, Bounds
  <2>2. Sorted
    BY <2>1 DEF Sorted
  <2>3. WholePages
    BY <2>0 DEF Sound, Whole, WholePages
  <2> QED BY <2>0, <2>2, <2>3
<1> QED BY <1>1, Invariance, PTL

(* sparse_mem cannot be told from a flat array.                               *)
THEOREM SparseIsFlat == Spec => ImplementsFlat
<1>1. Init => Flat!Init
  BY Begins DEF Flat!Init, Mem
<1>2. IInv /\ [Next]_vars => [Flat!Next]_Mem
  BY Step DEF Flat!Next, Flat!Write, Mem
<1> QED BY <1>1, <1>2, Invariance, PTL DEF Spec, ImplementsFlat, Flat!Spec, Mem
=============================================================================
