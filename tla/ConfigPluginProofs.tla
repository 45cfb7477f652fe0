------------------------- MODULE ConfigPluginProofs -------------------------
(***************************************************************************)
(* Proofs about the databases, the chain of APIs and the notifications for *)
(* every number of parameters and every nesting of modules.                *)
(***************************************************************************)
EXTENDS ConfigPlugin, FiniteSetTheorems, SequenceTheorems, TLAPS

(* Counting a prefix of the indices counts up to its last one. *)
LEMMA Prefix ==
  ASSUME NEW n \in Nat, NEW S \in SUBSET (1 .. n),
         \A j, k \in 1 .. n : k \in S /\ j < k => j \in S
  PROVE  Cardinality(S) \in 0 .. n /\ S = 1 .. Cardinality(S)
<1>1. IsFiniteSet(1 .. n) /\ Cardinality(1 .. n) = n
  BY FS_Interval
<1>2. IsFiniteSet(S) /\ Cardinality(S) <= n
  BY <1>1, FS_Subset
<1>3. Cardinality(S) \in Nat
  BY <1>2, FS_CardinalityType
<1>4. \A k \in S : k <= Cardinality(S)
  <2> SUFFICES ASSUME NEW k \in S PROVE k <= Cardinality(S)
    OBVIOUS
  <2>1. 1 .. k \in SUBSET S
    OBVIOUS
  <2>2. Cardinality(1 .. k) <= Cardinality(S)
    BY <2>1, <1>2, FS_Subset
  <2>3. Cardinality(1 .. k) = k
    BY FS_Interval
  <2> QED BY <2>2, <2>3
<1>5. S \in SUBSET (1 .. Cardinality(S))
  BY <1>3, <1>4
<1>6. IsFiniteSet(1 .. Cardinality(S)) /\ Cardinality(1 .. Cardinality(S)) = Cardinality(S)
  BY <1>3, FS_Interval
<1>7. 1 .. Cardinality(S) = S
  BY <1>5, <1>6, FS_Subset
<1> QED BY <1>2, <1>3, <1>7

(* Induction up to a number, over a set. *)
LEMMA UpTo ==
  ASSUME NEW n \in Nat, NEW S, 0 \in S, \A j \in 0 .. n - 1 : j \in S => j + 1 \in S
  PROVE  \A j \in 0 .. n : j \in S
<1> DEFINE T == {j \in 1 .. n : \A i \in 0 .. j : i \in S}
           c == Cardinality(T)
<1>1. T \in SUBSET (1 .. n)
  OBVIOUS
<1>2. \A j, k \in 1 .. n : k \in T /\ j < k => j \in T
  OBVIOUS
<1>3. \A j \in 1 .. n : j \in T <=> \A i \in 0 .. j : i \in S
  OBVIOUS
<1> HIDE DEF T
<1>4. c \in 0 .. n /\ T = 1 .. c
  BY <1>1, <1>2, Prefix
<1> HIDE DEF c
<1>5. \A i \in 0 .. c : i \in S
  <2>1. CASE c = 0
    BY <2>1
  <2>2. CASE c # 0
    <3>1. c \in T /\ c \in 1 .. n
      BY <1>4, <2>2
    <3> QED BY <1>3, <3>1
  <2> QED BY <2>1, <2>2
<1>6. c = n
  <2> SUFFICES ASSUME c # n PROVE FALSE
    OBVIOUS
  <2>1. c \in 0 .. n - 1 /\ c + 1 \in 1 .. n /\ c \in 0 .. c
    BY <1>4
  <2>2. c + 1 \in S
    BY <1>5, <2>1
  <2>3. \A i \in 0 .. c + 1 : i \in 0 .. c \/ i = c + 1
    BY <1>4
  <2>4. c + 1 \in T
    BY <1>3, <1>5, <2>1, <2>2, <2>3
  <2> QED BY <1>4, <2>4
<1> QED BY <1>5, <1>6

(* Induction along a rank. *)
LEMMA ByRank ==
  ASSUME NEW S, NEW N \in Nat, NEW rank \in [S -> 0 .. N], NEW P,
         \A x \in S : (\A y \in S : rank[y] < rank[x] => y \in P) => x \in P
  PROVE  \A x \in S : x \in P
<1> DEFINE T == {n \in 0 .. N : \A x \in S : rank[x] < n => x \in P}
<1>1. 0 \in T
  OBVIOUS
<1>2. ASSUME NEW n \in 0 .. N - 1, n \in T PROVE n + 1 \in T
  <2>1. \A x \in S : rank[x] < n => x \in P
    BY <1>2
  <2>2. ASSUME NEW x \in S, rank[x] < n + 1 PROVE x \in P
    <3>1. \A y \in S : rank[y] < rank[x] => rank[y] < n
      BY <2>2
    <3> QED BY <2>1, <3>1
  <2>3. n + 1 \in 0 .. N
    OBVIOUS
  <2> QED BY <2>2, <2>3
<1>3. N \in T
  <2>1. \A j \in 0 .. N : j \in T
    <3> HIDE DEF T
    <3> QED BY <1>1, <1>2, UpTo
  <2>2. N \in 0 .. N
    OBVIOUS
  <2> HIDE DEF T
  <2> QED BY <2>1, <2>2
<1>4. \A x \in S : rank[x] < N => x \in P
  BY <1>3
<1> SUFFICES ASSUME NEW x \in S PROVE x \in P
  OBVIOUS
<1>5. \A y \in S : rank[y] < rank[x] => rank[y] < N
  OBVIOUS
<1> QED BY <1>4, <1>5

(* A definition that walks up a tree, ... *)
Tree(S, B, V, N, rank, up, v, F) ==
  /\ N \in Nat /\ rank \in [S -> 0 .. N]
  /\ \A x \in S : x \in B => v[x] \in V
  /\ \A x \in S : x \notin B => /\ up[x] \in S /\ rank[up[x]] < rank[x]
                               /\ \A y \in V : F[x][y] \in V

(* ... defines a function. *)
LEMMA WalksUp ==
  ASSUME NEW S, NEW B, NEW V, NEW N, NEW rank, NEW up, NEW v, NEW F,
         Tree(S, B, V, N, rank, up, v, F)
  PROVE  \E g \in [S -> V] : \A x \in S : g[x] = IF x \in B THEN v[x] ELSE F[x][g[up[x]]]
<1> USE DEF Tree
<1> DEFINE In(n) == {x \in S : rank[x] < n}
           Good(g, n) == /\ g \in [In(n) -> V]
                         /\ \A x \in In(n) : g[x] = IF x \in B THEN v[x] ELSE F[x][g[up[x]]]
           T == {n \in 0 .. N + 1 : \E g : Good(g, n)}
<1>1. 0 \in T
  <2>1. \A x \in S : rank[x] \in Nat /\ ~(rank[x] < 0)
    OBVIOUS
  <2>2. In(0) = {}
    BY <2>1
  <2> DEFINE g == [x \in In(0) |-> x]
  <2>3. Good(g, 0)
    BY <2>2
  <2>4. 0 \in 0 .. N + 1
    OBVIOUS
  <2> HIDE DEF Good, g
  <2> QED BY <2>3, <2>4
<1>2. ASSUME NEW n \in 0 .. (N + 1) - 1, n \in T PROVE n + 1 \in T
  <2>1. PICK g : Good(g, n)
    BY <1>2
  <2> DEFINE h == [x \in In(n + 1) |-> IF x \in B THEN v[x] ELSE F[x][g[up[x]]]]
  <2>2. ASSUME NEW x \in In(n + 1), x \notin B PROVE up[x] \in In(n) /\ g[up[x]] \in V
    <3>1. x \in S /\ rank[x] < n + 1 /\ rank[x] \in Nat /\ rank[up[x]] < rank[x] /\ up[x] \in S
      BY <2>2
    <3>2. rank[up[x]] \in Nat
      BY <3>1
    <3>3. rank[up[x]] < n
      BY <3>1, <3>2
    <3> QED BY <2>1, <3>1, <3>3
  <2>3. \A x \in In(n) : x \in In(n + 1)
    <3>1. \A x \in S : rank[x] \in Nat /\ (rank[x] < n => rank[x] < n + 1)
      OBVIOUS
    <3> QED BY <3>1
  <2>4. ASSUME NEW x \in In(n + 1) PROVE h[x] \in V /\ h[x] = IF x \in B THEN v[x] ELSE F[x][g[up[x]]]
    <3>1. h[x] = IF x \in B THEN v[x] ELSE F[x][g[up[x]]]
      OBVIOUS
    <3>2. x \in S
      OBVIOUS
    <3> HIDE DEF h, In
    <3> QED BY <2>2, <3>1, <3>2
  <2>5. \A x \in In(n) : h[x] = g[x]
    <3> HIDE DEF h, In
    <3> QED BY <2>1, <2>3, <2>4
  <2>6. h \in [In(n + 1) -> V]
    <3>1. h = [x \in In(n + 1) |-> h[x]]
      OBVIOUS
    <3> HIDE DEF h, In
    <3> QED BY <2>4, <3>1
  <2>7. Good(h, n + 1)
    <3> HIDE DEF h, In
    <3> QED BY <2>2, <2>4, <2>5, <2>6
  <2>8. n + 1 \in 0 .. N + 1
    OBVIOUS
  <2> HIDE DEF h, Good
  <2> QED BY <2>7, <2>8
<1>3. N + 1 \in T
  <2>1. \A j \in 0 .. N + 1 : j \in T
    <3>1. N + 1 \in Nat
      OBVIOUS
    <3> HIDE DEF T
    <3> QED BY <1>1, <1>2, <3>1, UpTo
  <2>2. N + 1 \in 0 .. N + 1
    OBVIOUS
  <2> HIDE DEF T
  <2> QED BY <2>1, <2>2
<1>4. In(N + 1) = S
  <2>1. \A x \in S : rank[x] < N + 1
    OBVIOUS
  <2> QED BY <2>1
<1>5. PICK g : Good(g, N + 1)
  BY <1>3
<1> QED BY <1>4, <1>5
-----------------------------------------------------------------------------
(* How deep a module lies, and an API. *)
IsDepth(d) == \A m \in Owners : Outer[m] \in Owners => d[Outer[m]] < d[m]
Depth == CHOOSE d \in [Owners -> 1 .. Cardinality(Owners)] : IsDepth(d)
Rank == [a \in Apis |-> IF a \in RootApis THEN 0 ELSE Depth[a]]
ModuleRank == [m \in Modules |-> IF m = "top" THEN 0 ELSE Depth[m]]

(* Such depths exist: modules are nested. *)
LEMMA Depths ==
  /\ Cardinality(Owners) \in Nat
  /\ Depth \in [Owners -> 1 .. Cardinality(Owners)]
  /\ \A m \in Owners : Outer[m] \in Owners => Depth[Outer[m]] < Depth[m]
  /\ Rank \in [Apis -> 0 .. Cardinality(Owners)]
  /\ \A a \in RootApis : Rank[a] = 0
  /\ \A m \in Owners : Rank[m] = Depth[m]
  /\ ModuleRank \in [Modules -> 0 .. Cardinality(Owners)]
  /\ ModuleRank["top"] = 0
  /\ \A m \in Owners : ModuleRank[m] = Depth[m]
<1> DEFINE N == Cardinality(Owners)
<1>1. N \in Nat
  BY Nesting, FS_CardinalityType
<1>2. \E d \in [Owners -> 1 .. N] : IsDepth(d)
  BY Nesting DEF IsDepth
<1>3. Depth \in [Owners -> 1 .. N] /\ IsDepth(Depth)
  <2> HIDE DEF N
  <2> DEFINE C == CHOOSE d \in [Owners -> 1 .. N] : IsDepth(d)
  <2>1. C \in [Owners -> 1 .. N] /\ IsDepth(C)
    <3> HIDE DEF IsDepth
    <3> QED BY <1>2
  <2> QED BY <2>1 DEF Depth, N
<1> HIDE DEF N
<1>4. \A m \in Owners : Depth[m] \in 0 .. N
  BY <1>1, <1>3
<1>5. 0 \in 0 .. N
  BY <1>1
<1>6. Rank \in [Apis -> 0 .. N] /\ (\A a \in RootApis : Rank[a] = 0) /\ \A m \in Owners : Rank[m] = Depth[m]
  BY <1>4, <1>5, Nesting DEF Rank, Apis
<1>7. ModuleRank \in [Modules -> 0 .. N] /\ ModuleRank["top"] = 0 /\ \A m \in Owners : ModuleRank[m] = Depth[m]
  BY <1>4, <1>5, Nesting DEF ModuleRank, Modules
<1> QED BY <1>1, <1>3, <1>6, <1>7 DEF IsDepth, N

(* Private APIs have a parent that is built and lies higher. *)
ChainOK ==
  /\ mApi \in [Owners -> Apis \cup {"none"}]
  /\ public_params \in [Owners -> SUBSET Names]
  /\ \A m \in Owners : mApi[m] # "none" => mApi[m] \in Existing /\ Rank[mApi[m]] < Rank[m]

(* The API of a module is built, and lies around the module. *)
LEMMA ApiOfModule ==
  ASSUME ChainOK, NEW mod \in Modules
  PROVE  ApiOf(mod) \in Existing /\ Rank[ApiOf(mod)] <= ModuleRank[mod]
<1> DEFINE B == {"top"} \cup {x \in Owners : mApi[x] # "none"}
           v == [x \in Modules |-> IF x = "top" THEN RootApi[mod] ELSE x]
           F == [x \in Modules |-> [y \in Existing |-> y]]
           IsApi(g) == g = [x \in Modules |-> IF x = "top" THEN RootApi[mod]
                                               ELSE IF mApi[x] # "none" THEN x ELSE g[Outer[x]]]
           f == CHOOSE g : IsApi(g)
<1>1. ApiOf(mod) = f[mod]
  BY Zenon DEF ApiOf
<1>2. RootApi[mod] \in RootApis /\ RootApi[mod] \in Existing
  BY Nesting DEF Existing
<1>3. \A x \in Modules : x \in B => v[x] \in Existing
  BY <1>2 DEF Existing
<1>4. ASSUME NEW x \in Modules, x \notin B
      PROVE  /\ Outer[x] \in Modules /\ ModuleRank[Outer[x]] < ModuleRank[x]
             /\ \A y \in Existing : F[x][y] = y
  <2>1. x \in Owners /\ Outer[x] \in Modules
    BY <1>4, Nesting DEF Modules
  <2>2. ModuleRank[Outer[x]] < ModuleRank[x]
    <3>1. CASE Outer[x] = "top"
      BY <2>1, <3>1, Depths
    <3>2. CASE Outer[x] \in Owners
      BY <2>1, <3>2, Depths
    <3> QED BY <2>1, <3>1, <3>2 DEF Modules
  <2> QED BY <2>1, <2>2
<1>5. \E g \in [Modules -> Existing] : \A x \in Modules : g[x] = IF x \in B THEN v[x] ELSE F[x][g[Outer[x]]]
  <2> HIDE DEF B, v, F
  <2>1. Tree(Modules, B, Existing, Cardinality(Owners), ModuleRank, Outer, v, F)
    BY <1>3, <1>4, Depths DEF Tree
  <2> QED BY <2>1, WalksUp
<1>6. PICK g \in [Modules -> Existing] : \A x \in Modules : g[x] = IF x \in B THEN v[x] ELSE F[x][g[Outer[x]]]
  BY <1>5
<1>7. \A x \in Modules : g[x] = IF x = "top" THEN RootApi[mod] ELSE IF mApi[x] # "none" THEN x ELSE g[Outer[x]]
  <2> SUFFICES ASSUME NEW x \in Modules
               PROVE g[x] = IF x = "top" THEN RootApi[mod] ELSE IF mApi[x] # "none" THEN x ELSE g[Outer[x]]
    OBVIOUS
  <2>1. x \notin B => Outer[x] \in Modules /\ F[x][g[Outer[x]]] = g[Outer[x]]
    <3> HIDE DEF F, B
    <3> QED BY <1>4, <1>6
  <2>2. v[x] = IF x = "top" THEN RootApi[mod] ELSE x
    OBVIOUS
  <2>3. x \in B <=> x = "top" \/ mApi[x] # "none"
    BY DEF Modules
  <2> HIDE DEF B, v, F
  <2> QED BY <1>6, <2>1, <2>2, <2>3
<1>8. IsApi(g)
  BY <1>7
<1>9. IsApi(f)
  <2> HIDE DEF IsApi
  <2> QED BY <1>8
<1>10. \A x \in Modules : f[x] = IF x = "top" THEN RootApi[mod] ELSE IF mApi[x] # "none" THEN x ELSE f[Outer[x]]
  <2> HIDE DEF f
  <2> QED BY <1>9
<1> HIDE DEF f, IsApi
<1> DEFINE P == {x \in Modules : f[x] \in Existing /\ Rank[f[x]] <= ModuleRank[x]}
<1>11. ASSUME NEW x \in Modules, \A y \in Modules : ModuleRank[y] < ModuleRank[x] => y \in P PROVE x \in P
  <2>1. CASE x = "top"
    <3>1. f[x] = RootApi[mod]
      BY <1>10, <2>1
    <3> QED BY <1>2, <2>1, <3>1, Depths
  <2>2. CASE x # "top" /\ mApi[x] # "none"
    <3>1. f[x] = x /\ x \in Owners
      BY <1>10, <2>2 DEF Modules
    <3>2. Rank[x] = ModuleRank[x] /\ ModuleRank[x] \in Nat
      BY <3>1, Depths
    <3> QED BY <2>2, <3>1, <3>2 DEF Existing
  <2>3. CASE x # "top" /\ ~(mApi[x] # "none")
    <3>1. f[x] = f[Outer[x]]
      BY <1>10, <2>3
    <3>2. Outer[x] \in Modules /\ ModuleRank[Outer[x]] < ModuleRank[x]
      BY <1>4, <2>3
    <3>3. Outer[x] \in P
      BY <1>11, <3>2
    <3>4. f[x] \in Existing /\ Rank[f[x]] <= ModuleRank[Outer[x]]
      BY <3>1, <3>3
    <3>5. f[x] \in Apis
      BY <3>4 DEF Existing, Apis
    <3>6. Rank[f[x]] \in Nat /\ ModuleRank[Outer[x]] \in Nat /\ ModuleRank[x] \in Nat
      BY <3>2, <3>5, Depths
    <3> QED BY <3>2, <3>4, <3>6
  <2> QED BY <2>1, <2>2, <2>3
<1>12. \A x \in Modules : x \in P
  <2> HIDE DEF P
  <2> QED BY <1>11, Depths, ByRank
<1> QED BY <1>1, <1>12

(* The database of a name, seen from an API, step by step. *)
LEMMA ScopeUnfolds ==
  ChainOK => \A a \in Existing, n \in Names :
               /\ ScopeOf(a, n) \in Scopes
               /\ ScopeOf(a, n) = IF a \in RootApis THEN "root"
                                  ELSE IF IsPublic(a, n) THEN ScopeOf(mApi[a], n) ELSE a
<1> SUFFICES ASSUME ChainOK, NEW a \in Existing, NEW n \in Names
             PROVE  /\ ScopeOf(a, n) \in Scopes
                    /\ ScopeOf(a, n) = IF a \in RootApis THEN "root"
                                       ELSE IF IsPublic(a, n) THEN ScopeOf(mApi[a], n) ELSE a
  OBVIOUS
<1> DEFINE B == {x \in Existing : x \in RootApis \/ ~IsPublic(x, n)}
           v == [x \in Existing |-> IF x \in RootApis THEN "root" ELSE x]
           F == [x \in Existing |-> [y \in Scopes |-> y]]
           r == [x \in Existing |-> Rank[x]]
           IsScope(g) == g = [x \in Existing |-> IF x \in RootApis THEN "root"
                                ELSE IF IsPublic(x, n) THEN g[mApi[x]] ELSE x]
           f == CHOOSE g : IsScope(g)
<1>1. \A x : ScopeOf(x, n) = f[x]
  BY Zenon DEF ScopeOf
<1>2. \A x \in Existing : x \in Apis /\ (x \notin RootApis => x \in Owners /\ mApi[x] # "none")
  BY DEF Existing, Apis
<1>3. \A x \in Existing : x \in B => v[x] \in Scopes
  BY <1>2 DEF Scopes
<1>4. r \in [Existing -> 0 .. Cardinality(Owners)]
  BY <1>2, Depths
<1>5. ASSUME NEW x \in Existing, x \notin B
      PROVE  /\ mApi[x] \in Existing /\ r[mApi[x]] < r[x]
             /\ \A y \in Scopes : F[x][y] = y
  <2>1. x \in Owners /\ mApi[x] # "none"
    BY <1>2, <1>5
  <2>2. mApi[x] \in Existing /\ Rank[mApi[x]] < Rank[x]
    BY <2>1 DEF ChainOK
  <2> QED BY <2>2
<1>6. \E g \in [Existing -> Scopes] : \A x \in Existing : g[x] = IF x \in B THEN v[x] ELSE F[x][g[mApi[x]]]
  <2> HIDE DEF B, v, F, r
  <2>1. Tree(Existing, B, Scopes, Cardinality(Owners), r, mApi, v, F)
    BY <1>3, <1>4, <1>5, Depths DEF Tree
  <2> QED BY <2>1, WalksUp
<1>7. PICK g \in [Existing -> Scopes] : \A x \in Existing : g[x] = IF x \in B THEN v[x] ELSE F[x][g[mApi[x]]]
  BY <1>6
<1>8. ASSUME NEW x \in Existing
      PROVE  g[x] = IF x \in RootApis THEN "root" ELSE IF IsPublic(x, n) THEN g[mApi[x]] ELSE x
  <2>1. x \notin B => mApi[x] \in Existing /\ F[x][g[mApi[x]]] = g[mApi[x]]
    <3> HIDE DEF F, B
    <3> QED BY <1>5, <1>7
  <2>2. v[x] = IF x \in RootApis THEN "root" ELSE x
    OBVIOUS
  <2>3. x \in B <=> x \in RootApis \/ ~IsPublic(x, n)
    OBVIOUS
  <2> HIDE DEF B, v, F
  <2> QED BY <1>7, <2>1, <2>2, <2>3
<1>9. IsScope(g)
  BY <1>8
<1>10. IsScope(f)
  <2> HIDE DEF IsScope
  <2> QED BY <1>9
<1>11. \A x \in Existing : f[x] = IF x \in RootApis THEN "root" ELSE IF IsPublic(x, n) THEN f[mApi[x]] ELSE x
  <2> HIDE DEF f
  <2> QED BY <1>10
<1> HIDE DEF f, IsScope
<1> DEFINE P == {x \in Existing : f[x] \in Scopes}
<1>12. ASSUME NEW x \in Existing, \A y \in Existing : r[y] < r[x] => y \in P PROVE x \in P
  <2>1. CASE x \in B
    <3>1. f[x] = IF x \in RootApis THEN "root" ELSE x
      BY <1>11, <2>1
    <3> QED BY <1>2, <3>1 DEF Scopes
  <2>2. CASE x \notin B
    <3>1. f[x] = f[mApi[x]]
      BY <1>11, <2>2
    <3>2. mApi[x] \in Existing /\ r[mApi[x]] < r[x]
      <4> HIDE DEF B, r
      <4> QED BY <1>5, <2>2
    <3>3. mApi[x] \in P
      <4> HIDE DEF P, r
      <4> QED BY <1>12, <3>2
    <3> QED BY <3>1, <3>3
  <2> QED BY <2>1, <2>2
<1>13. \A x \in Existing : x \in P
  <2> HIDE DEF P, r
  <2> QED BY <1>4, <1>12, Depths, ByRank
<1> QED BY <1>1, <1>11, <1>13
-----------------------------------------------------------------------------
(* APIs are built once, and keep their parents. *)
ChainGrows ==
  /\ public_params' = public_params
  /\ \A m \in Owners : mApi[m] # "none" => mApi'[m] = mApi[m]

(* What the actions leave alone. *)
LEMMA Frame ==
  /\ \A a : NotifyApi(a) => UNCHANGED <<db, obj, public_params, mApi, cbs>>
  /\ MakeCallbacks \/ UserReturns \/ NotifyEnds => UNCHANGED <<db, obj, public_params, mApi, cbs>>
  /\ \A o, n : Construct(o, n) => UNCHANGED <<public_params, mApi, cbs>>
  /\ \A o : Destroy(o) => UNCHANGED <<public_params, mApi, cbs, stack>>
  /\ \A o, v : Write(o, v) => UNCHANGED <<db, public_params, mApi, cbs, stack>>
  /\ \A a, n, v : SetInitValue(a, n, v) => UNCHANGED <<public_params, mApi, cbs>>
  /\ \A a, n : LockInitValue(a, n) => UNCHANGED <<obj, public_params, mApi, cbs, stack>>
  /\ \A a : RegisterNewParamCallback(a) => UNCHANGED <<db, obj, public_params, mApi, stack>>
  /\ \A m : CreatePrivateApi(m) => UNCHANGED <<db, obj, public_params, cbs, stack>>
<1>1. \A a : NotifyApi(a) => UNCHANGED <<db, obj, public_params, mApi, cbs>>
  BY DEF NotifyApi
<1>2. MakeCallbacks \/ UserReturns \/ NotifyEnds => UNCHANGED <<db, obj, public_params, mApi, cbs>>
  BY DEF MakeCallbacks, UserReturns, NotifyEnds
<1>3. \A o, n : Construct(o, n) => UNCHANGED <<public_params, mApi, cbs>>
  BY DEF Construct
<1>4. \A o : Destroy(o) => UNCHANGED <<public_params, mApi, cbs, stack>>
  BY DEF Destroy
<1>5. \A o, v : Write(o, v) => UNCHANGED <<db, public_params, mApi, cbs, stack>>
  BY DEF Write
<1>6. \A a, n, v : SetInitValue(a, n, v) => UNCHANGED <<public_params, mApi, cbs>>
  BY DEF SetInitValue
<1>7. \A a, n : LockInitValue(a, n) => UNCHANGED <<obj, public_params, mApi, cbs, stack>>
  BY DEF LockInitValue
<1>8. \A a : RegisterNewParamCallback(a) => UNCHANGED <<db, obj, public_params, mApi, stack>>
  BY DEF RegisterNewParamCallback
<1>9. \A m : CreatePrivateApi(m) => UNCHANGED <<db, obj, public_params, cbs, stack>>
  BY DEF CreatePrivateApi
<1> QED BY <1>1, <1>2, <1>3, <1>4, <1>5, <1>6, <1>7, <1>8, <1>9

(* The chain of APIs is sound after every step. *)
LEMMA ChainStep ==
  ASSUME ChainOK, [Next]_vars
  PROVE  ChainOK' /\ ChainGrows
<1>1. CASE mApi' = mApi /\ public_params' = public_params
  BY <1>1 DEF ChainOK, ChainGrows, Existing
<1>2. ASSUME NEW m \in Owners, CreatePrivateApi(m) PROVE ChainOK' /\ ChainGrows
  <2> DEFINE a == ApiOf(Outer[m])
  <2>1. mApi[m] = "none" /\ mApi' = [mApi EXCEPT ![m] = a] /\ public_params' = public_params
    BY <1>2 DEF CreatePrivateApi
  <2>2. Outer[m] \in Modules
    BY Nesting
  <2>3. a \in Existing /\ Rank[a] <= ModuleRank[Outer[m]]
    BY <2>2, ApiOfModule
  <2> HIDE DEF a
  <2>4. a \in Apis /\ a # "none"
    BY <2>3, Nesting DEF Existing, Apis
  <2>5. ModuleRank[Outer[m]] < Rank[m]
    <3>1. CASE Outer[m] = "top"
      BY <3>1, Depths
    <3>2. CASE Outer[m] \in Owners
      BY <3>2, Depths
    <3> QED BY <2>2, <3>1, <3>2 DEF Modules
  <2>6. Rank[a] < Rank[m]
    <3>1. Rank[a] \in Nat /\ Rank[m] \in Nat /\ ModuleRank[Outer[m]] \in Nat
      BY <2>2, <2>4, Depths DEF Apis
    <3> QED BY <2>3, <2>5, <3>1
  <2>7. /\ mApi' \in [Owners -> Apis \cup {"none"}] /\ mApi'[m] = a
        /\ \A x \in Owners : x # m => mApi'[x] = mApi[x]
    BY <2>1, <2>4 DEF ChainOK
  <2>8. \A x \in Existing : x \in Existing'
    BY <2>1, <2>7 DEF Existing
  <2>9. ASSUME NEW x \in Owners, mApi'[x] # "none" PROVE mApi'[x] \in Existing' /\ Rank[mApi'[x]] < Rank[x]
    <3>1. CASE x = m
      BY <2>3, <2>6, <2>7, <2>8, <3>1
    <3>2. CASE x # m
      BY <2>7, <2>8, <2>9, <3>2 DEF ChainOK
    <3> QED BY <3>1, <3>2
  <2>10. ChainOK'
    <3> HIDE DEF Rank
    <3> QED BY <2>1, <2>7, <2>9 DEF ChainOK
  <2> QED BY <2>1, <2>7, <2>10 DEF ChainGrows
<1>3. CASE UNCHANGED vars
  BY <1>1, <1>3 DEF vars
<1>4. CASE Next
  <2>1. (\E m \in Owners : CreatePrivateApi(m)) \/ (mApi' = mApi /\ public_params' = public_params)
    BY <1>4, Frame DEF Next
  <2> QED BY <1>1, <1>2, <2>1
<1> QED BY <1>3, <1>4

(* The same, with a name for the parent. *)
LEMMA ScopeOfParent ==
  ChainOK => \A a \in Existing, n \in Names, y \in Apis :
               /\ a \in RootApis => ScopeOf(a, n) = "root"
               /\ a \notin RootApis /\ ~IsPublic(a, n) => ScopeOf(a, n) = a
               /\ a \notin RootApis /\ IsPublic(a, n) /\ y = mApi[a] => ScopeOf(a, n) = ScopeOf(y, n)
  BY ScopeUnfolds

(* An API that is built goes on looking for a name in the same database. *)
LEMMA ScopeStays ==
  ASSUME ChainOK, ChainOK', ChainGrows
  PROVE  \A a \in Existing : a \in Existing' /\ \A n \in Names : ScopeOf(a, n)' = ScopeOf(a, n)
<1>1. \A a \in Existing : a \in Existing' /\ a \in Apis
                          /\ (a \notin RootApis => a \in Owners /\ mApi[a] # "none" /\ mApi'[a] = mApi[a])
  BY DEF Existing, ChainGrows, Apis
<1>2. ChainOK' => (\A a \in Existing, n \in Names, y \in Apis :
               /\ a \in RootApis => ScopeOf(a, n) = "root"
               /\ a \notin RootApis /\ ~IsPublic(a, n) => ScopeOf(a, n) = a
               /\ a \notin RootApis /\ IsPublic(a, n) /\ y = mApi[a] => ScopeOf(a, n) = ScopeOf(y, n))'
  BY ScopeOfParent, PTL
<1> SUFFICES ASSUME NEW n \in Names PROVE \A a \in Existing : ScopeOf(a, n)' = ScopeOf(a, n)
  BY <1>1
<1> DEFINE s == [a \in Existing |-> ScopeOf(a, n)]
           t == [a \in Existing |-> ScopeOf(a, n)']
           r == [a \in Existing |-> Rank[a]]
           P == {a \in Existing : s[a] = t[a]}
<1>3. r \in [Existing -> 0 .. Cardinality(Owners)]
  BY <1>1, Depths
<1>4. \A a \in Existing : IsPublic(a, n)' <=> IsPublic(a, n)
  BY DEF IsPublic, ChainGrows
<1>5. ASSUME NEW a \in Existing, \A y \in Existing : r[y] < r[a] => y \in P PROVE a \in P
  <2>1. a \in Existing' /\ (IsPublic(a, n)' <=> IsPublic(a, n))
    BY <1>1, <1>4
  <2>2. CASE a \in RootApis
    <3>1. ScopeOf(a, n) = "root" /\ ScopeOf(a, n)' = "root"
      BY <1>1, <1>2, <2>2, ScopeOfParent
    <3> QED BY <3>1
  <2>3. CASE a \notin RootApis /\ ~IsPublic(a, n)
    <3>1. ScopeOf(a, n) = a /\ ScopeOf(a, n)' = a
      BY <1>1, <1>2, <2>1, <2>3, ScopeOfParent
    <3> QED BY <3>1
  <2>4. CASE a \notin RootApis /\ IsPublic(a, n)
    <3>1. mApi'[a] = mApi[a] /\ mApi[a] \in Existing /\ Rank[mApi[a]] < Rank[a]
      BY <1>1, <2>4 DEF ChainOK
    <3>2. PICK y \in Existing : y = mApi[a]
      BY <3>1
    <3>3. y \in P /\ y \in Apis
      BY <1>1, <1>5, <3>1, <3>2
    <3>4. ScopeOf(a, n) = ScopeOf(y, n)
      BY <2>4, <3>2, <3>3, ScopeOfParent
    <3>5. ScopeOf(a, n)' = ScopeOf(y, n)'
      BY <1>2, <2>1, <2>4, <3>1, <3>2, <3>3
    <3> QED BY <3>3, <3>4, <3>5
  <2> QED BY <2>2, <2>3, <2>4
<1>6. \A a \in Existing : a \in P
  <2> HIDE DEF P, r
  <2> QED BY <1>3, <1>5, Depths, ByRank
<1> QED BY <1>6
-----------------------------------------------------------------------------
(* The databases and the parameters. *)
Entry == [exists : BOOLEAN, init : Strings \cup {"none"}, locked : BOOLEAN, param : Objs \cup {"none"}]
Param == [live : BOOLEAN, name : Names \cup {"none"}, api : Apis \cup {"none"}, val : Values \cup {"default"}]
Database == [Scopes -> [Names -> Entry]]

(* A pointer is to a parameter that registered under the name there. *)
Points ==
  \A sc \in Scopes, n \in Names, p \in Objs, a \in Apis :
    db[sc][n].param = p => obj[p].live /\ obj[p].name = n /\ (obj[p].api = a => ScopeOf(a, n) = sc)

Databases ==
  /\ db \in Database /\ obj \in [Objs -> Param]
  /\ \A o \in Objs : obj[o].live => obj[o].name \in Names /\ obj[o].api \in Existing
  /\ Points

(* A database with one entry replaced. *)
Put(d, sc, n, e) == [d EXCEPT ![sc] = [@ EXCEPT ![n] = e]]

(* It differs from the old one in that entry only. *)
LEMMA Puts ==
  ASSUME NEW d \in Database, NEW sc \in Scopes, NEW n \in Names, NEW e \in Entry
  PROVE  /\ Put(d, sc, n, e) \in Database /\ Put(d, sc, n, e)[sc][n] = e
         /\ \A s \in Scopes, m \in Names : s # sc \/ m # n => Put(d, sc, n, e)[s][m] = d[s][m]
<1> DEFINE r == [d[sc] EXCEPT ![n] = e]
           q == [d EXCEPT ![sc] = r]
<1>1. d[sc] \in [Names -> Entry]
  BY DEF Database
<1>2. r \in [Names -> Entry] /\ r[n] = e /\ \A m \in Names : m # n => r[m] = d[sc][m]
  BY <1>1
<1> HIDE DEF r
<1>3. q \in Database /\ q[sc] = r /\ \A s \in Scopes : s # sc => q[s] = d[s]
  BY <1>2 DEF Database
<1>4. Put(d, sc, n, e) = q
  BY DEF Put, r
<1> QED BY <1>2, <1>3, <1>4

(* A parameter takes a value. *)
LEMMA Sets ==
  ASSUME NEW x \in Param, NEW v
  PROVE  LET y == SetString(x, v)
         IN  /\ y \in Param /\ y.live = x.live /\ y.name = x.name /\ y.api = x.api
             /\ y.val = IF v \in Values THEN v ELSE x.val
<1>1. CASE v \in Values
  <2>1. SetString(x, v) = [x EXCEPT !.val = v]
    BY <1>1 DEF SetString
  <2> QED BY <1>1, <2>1 DEF Param
<1>2. CASE v \notin Values
  BY <1>2 DEF SetString
<1> QED BY <1>1, <1>2

(* A parameter that is built starts with the value its name has. *)
NewParam(n, a, e) == Initialized([Dead EXCEPT !.live = TRUE, !.name = n, !.api = a], e)

(* That value is the one set before, if the parameter can parse it. *)
LEMMA Builds ==
  ASSUME NEW n \in Names, NEW a \in Apis, NEW e \in Entry
  PROVE  LET y == NewParam(n, a, e)
         IN  /\ y \in Param /\ y.live /\ y.name = n /\ y.api = a
             /\ y.val = IF e.init \in Values THEN e.init ELSE "default"
<1> DEFINE x == [Dead EXCEPT !.live = TRUE, !.name = n, !.api = a]
           y == Initialized(x, e)
<1>1. x \in Param /\ x.live = TRUE /\ x.name = n /\ x.api = a /\ x.val = "default"
  BY DEF Dead, Param
<1> HIDE DEF x
<1>2. y = IF e.init = "none" THEN x ELSE SetString(x, e.init)
  BY DEF Initialized
<1> HIDE DEF y
<1>3. y \in Param /\ y.live /\ y.name = n /\ y.api = a /\ y.val = IF e.init \in Values THEN e.init ELSE "default"
  <2>1. CASE e.init = "none"
    BY <1>1, <1>2, <2>1, Nesting
  <2>2. CASE e.init # "none"
    BY <1>1, <1>2, <2>2, Sets
  <2> QED BY <2>1, <2>2
<1>4. NewParam(n, a, e) = y
  BY DEF NewParam, x, y
<1> QED BY <1>3, <1>4

(* What LockHolds asks of a step. *)
LockStep ==
  \A sc \in Scopes, n \in Names : LET e == db[sc][n] IN
    e.locked =>
      /\ db'[sc][n].locked /\ db'[sc][n].init = e.init
      /\ \A o \in Objs : ~obj[o].live /\ obj'[o].live /\ obj'[o].name = n /\ ScopeOf(obj'[o].api, n) = sc =>
           obj'[o].val = IF e.init \in Values THEN e.init ELSE "default"

(* Steps in which no parameter comes or goes. *)
SameParams ==
  /\ obj' \in [Objs -> Param]
  /\ \A o \in Objs : obj'[o].live = obj[o].live /\ obj'[o].name = obj[o].name /\ obj'[o].api = obj[o].api
  /\ db' \in Database
  /\ \A sc \in Scopes, n \in Names :
       /\ db'[sc][n].param = db[sc][n].param
       /\ db[sc][n].locked => db'[sc][n].locked /\ db'[sc][n].init = db[sc][n].init

(* They keep the databases sound and the locks. *)
LEMMA SameParamsKeep ==
  ASSUME ChainOK, ChainOK', ChainGrows, Databases, SameParams
  PROVE  Databases' /\ LockStep
<1>1. \A a \in Existing : a \in Existing' /\ \A n \in Names : ScopeOf(a, n)' = ScopeOf(a, n)
  BY ScopeStays
<1>2. \A o \in Objs : obj'[o].live => obj'[o].name \in Names /\ obj'[o].api \in Existing'
  BY <1>1 DEF Databases, SameParams
<1>3. ASSUME NEW sc \in Scopes, NEW n \in Names, NEW p \in Objs, NEW a \in Apis, db'[sc][n].param = p
      PROVE  obj'[p].live /\ obj'[p].name = n /\ (obj'[p].api = a => ScopeOf(a, n)' = sc)
  <2>1. db[sc][n].param = p
    BY <1>3 DEF SameParams
  <2>2. obj[p].live /\ obj[p].name = n /\ (obj[p].api = a => ScopeOf(a, n) = sc)
    BY <2>1 DEF Databases, Points
  <2>3. obj[p].api \in Existing
    BY <2>2 DEF Databases
  <2> QED BY <1>1, <2>2, <2>3 DEF SameParams
<1>4. Points'
  BY <1>3 DEF Points
<1>5. Databases'
  BY <1>2, <1>4 DEF Databases, SameParams
<1>6. LockStep
  BY DEF LockStep, SameParams
<1> QED BY <1>5, <1>6

(* What is known of an entry. *)
LEMMA EntryOf ==
  ASSUME Databases, NEW sc \in Scopes, NEW n \in Names
  PROVE  db[sc][n] \in Entry /\ db \in Database
  BY DEF Databases, Database

(* A new parameter registers, unless its name is taken. *)
LEMMA ConstructKeeps ==
  ASSUME ChainOK, Databases, NEW o \in Objs, NEW n \in Names, Construct(o, n)
  PROVE  Databases' /\ LockStep
<1> DEFINE a == ApiOf(Home[n])
           sc == ScopeOf(a, n)
           e == db[sc][n]
           y == NewParam(n, a, e)
           e2 == [e EXCEPT !.exists = TRUE, !.param = o]
<1>0. mApi' = mApi /\ public_params' = public_params /\ ~obj[o].live
  BY Frame DEF Construct
<1>1. Home[n] \in Modules
  BY Nesting
<1>2. a \in Existing /\ a \in Apis
  BY <1>1, ApiOfModule DEF Existing, Apis
<1> HIDE DEF a
<1>3. sc \in Scopes
  BY <1>2, ScopeUnfolds
<1>4. /\ obj' = [obj EXCEPT ![o] = y]
      /\ db' = db \/ (e.param = "none" /\ db' = [db EXCEPT ![sc][n].exists = TRUE, ![sc][n].param = o])
  BY DEF Construct, NewParam, a
<1>5. \A b \in Apis, m \in Names : ScopeOf(b, m)' = ScopeOf(b, m)
  BY <1>0 DEF ScopeOf, IsPublic, Existing
<1>6. Existing' = Existing
  BY <1>0 DEF Existing
<1>7. ScopeOf(a, n) = sc
  OBVIOUS
<1> HIDE DEF sc
<1>8. e \in Entry /\ db \in Database
  BY <1>3, EntryOf
<1>9. e2 \in Entry /\ e2.param = o /\ e2.locked = e.locked /\ e2.init = e.init
  <2> HIDE DEF e
  <2> QED BY <1>8 DEF Entry
<1>10. db' = db \/ (e.param = "none" /\ db' = Put(db, sc, n, e2))
  BY <1>3, <1>4, <1>8 DEF Put, Database
<1>11. y \in Param /\ y.live /\ y.name = n /\ y.api = a /\ y.val = IF e.init \in Values THEN e.init ELSE "default"
  <2> HIDE DEF e
  <2> QED BY <1>2, <1>8, Builds
<1> HIDE DEF y, e2
<1>12. obj' \in [Objs -> Param] /\ obj'[o] = y /\ \A p \in Objs : p # o => obj'[p] = obj[p]
  BY <1>4, <1>11 DEF Databases
<1>13. /\ db' \in Database
       /\ \A s \in Scopes, m \in Names : db'[s][m].locked = db[s][m].locked /\ db'[s][m].init = db[s][m].init
       /\ \A s \in Scopes, m \in Names :
            \/ db'[s][m].param = db[s][m].param
            \/ s = sc /\ m = n /\ db'[s][m].param = o
  <2>1. CASE db' = db
    BY <1>8, <2>1
  <2>2. CASE db' = Put(db, sc, n, e2)
    <3>1. /\ db' \in Database /\ db'[sc][n] = e2
          /\ \A s \in Scopes, m \in Names : s # sc \/ m # n => db'[s][m] = db[s][m]
      BY <1>3, <1>8, <1>9, <2>2, Puts
    <3> QED BY <1>9, <3>1
  <2> QED BY <1>10, <2>1, <2>2
<1>14. ASSUME NEW s \in Scopes, NEW m \in Names, NEW p \in Objs, NEW b \in Apis, db'[s][m].param = p
       PROVE  obj'[p].live /\ obj'[p].name = m /\ (obj'[p].api = b => ScopeOf(b, m)' = s)
  <2>1. CASE db[s][m].param = p
    <3>1. obj[p].live /\ obj[p].name = m /\ (obj[p].api = b => ScopeOf(b, m) = s)
      BY <2>1 DEF Databases, Points
    <3>2. obj'[p] = obj[p]
      BY <1>0, <1>12, <3>1
    <3> QED BY <1>5, <3>1, <3>2
  <2>2. CASE db[s][m].param # p
    <3>1. s = sc /\ m = n /\ p = o
      BY <1>13, <1>14, <2>2
    <3> QED BY <1>5, <1>7, <1>11, <1>12, <3>1
  <2> QED BY <2>1, <2>2
<1>15. \A p \in Objs : obj'[p].live => obj'[p].name \in Names /\ obj'[p].api \in Existing'
  BY <1>2, <1>6, <1>11, <1>12 DEF Databases
<1>16. Databases'
  BY <1>12, <1>13, <1>14, <1>15 DEF Databases, Points
<1>17. LockStep
  <2> SUFFICES ASSUME NEW s \in Scopes, NEW m \in Names, NEW p \in Objs,
                      ~obj[p].live, obj'[p].live, obj'[p].name = m, ScopeOf(obj'[p].api, m) = s
               PROVE  obj'[p].val = IF db[s][m].init \in Values THEN db[s][m].init ELSE "default"
    BY <1>13 DEF LockStep
  <2>1. p = o
    BY <1>12
  <2>2. m = n /\ s = sc
    BY <1>7, <1>11, <1>12, <2>1
  <2> QED BY <1>11, <1>12, <2>1, <2>2
<1> QED BY <1>16, <1>17

(* A parameter that is destroyed leaves the database it is in. *)
LEMMA DestroyKeeps ==
  ASSUME ChainOK, Databases, NEW o \in Objs, Destroy(o)
  PROVE  Databases' /\ LockStep
<1>0. mApi' = mApi /\ public_params' = public_params /\ obj[o].live
  BY Frame DEF Destroy
<1> DEFINE a == obj[o].api
           n == obj[o].name
           sc == ScopeOf(a, n)
           e == db[sc][n]
<1>1. n \in Names /\ a \in Existing /\ a \in Apis
  BY <1>0 DEF Databases, Existing, Apis
<1>2. sc \in Scopes
  <2> HIDE DEF a, n
  <2> QED BY <1>1, ScopeUnfolds
<1>3. obj' = [obj EXCEPT ![o] = Dead] /\ db' = [db EXCEPT ![sc][n] = Implicit(@)]
  BY DEF Destroy, RemovalScope
<1>4. \A p \in Objs, s \in Scopes : db[s][n].param = o => s = sc
  BY <1>1 DEF Databases, Points
<1> HIDE DEF sc
<1>5. \A s \in Scopes, m \in Names : db[s][m].param = o => m = n
  BY <1>1 DEF Databases, Points
<1> HIDE DEF n
<1>6. e \in Entry /\ db \in Database
  BY <1>1, <1>2, EntryOf
<1>7. db' = Put(db, sc, n, Implicit(e))
  BY <1>1, <1>2, <1>3, <1>6 DEF Put, Database
<1>8. /\ Implicit(e) \in Entry /\ Implicit(e).param = "none"
      /\ Implicit(e).locked = e.locked /\ Implicit(e).init = e.init
  <2> HIDE DEF e
  <2> QED BY <1>6 DEF Entry, Implicit
<1>9. /\ db' \in Database /\ db'[sc][n] = Implicit(e)
      /\ \A s \in Scopes, m \in Names : s # sc \/ m # n => db'[s][m] = db[s][m]
  <2> HIDE DEF e
  <2> QED BY <1>1, <1>2, <1>6, <1>7, <1>8, Puts
<1>10. Dead \in Param /\ ~Dead.live
  BY DEF Dead, Param
<1>11. obj' \in [Objs -> Param] /\ ~obj'[o].live /\ \A p \in Objs : p # o => obj'[p] = obj[p]
  BY <1>3, <1>10 DEF Databases
<1>12. \A b \in Apis, m \in Names : ScopeOf(b, m)' = ScopeOf(b, m)
  BY <1>0 DEF ScopeOf, IsPublic, Existing
<1>13. Existing' = Existing
  BY <1>0 DEF Existing
<1>14. ASSUME NEW s \in Scopes, NEW m \in Names, NEW p \in Objs, NEW b \in Apis, db'[s][m].param = p
       PROVE  obj'[p].live /\ obj'[p].name = m /\ (obj'[p].api = b => ScopeOf(b, m)' = s)
  <2>1. p # "none"
    BY Nesting
  <2>2. s # sc \/ m # n
    BY <1>8, <1>9, <1>14, <2>1
  <2>3. db[s][m].param = p
    BY <1>9, <1>14, <2>2
  <2>4. p # o
    BY <1>4, <1>5, <2>2, <2>3
  <2>5. obj[p].live /\ obj[p].name = m /\ (obj[p].api = b => ScopeOf(b, m) = s)
    BY <2>3 DEF Databases, Points
  <2> QED BY <1>11, <1>12, <2>4, <2>5
<1>15. \A p \in Objs : obj'[p].live => obj'[p].name \in Names /\ obj'[p].api \in Existing'
  BY <1>11, <1>13 DEF Databases
<1>16. Databases'
  BY <1>9, <1>11, <1>14, <1>15 DEF Databases, Points
<1>17. LockStep
  BY <1>8, <1>9, <1>11 DEF LockStep
<1> QED BY <1>16, <1>17

(* Values that parameters, or names without one, are given. *)
LEMMA SetInitValueKeeps ==
  ASSUME ChainOK, Databases, NEW a \in Apis, NEW n \in Names, NEW v \in Strings, SetInitValue(a, n, v)
  PROVE  SameParams
<1> DEFINE sc == ScopeOf(a, n)
           e == db[sc][n]
           e2 == [e EXCEPT !.exists = TRUE, !.init = v]
<1>1. a \in Existing /\ ~e.locked
  BY DEF SetInitValue, Settable
<1>2. sc \in Scopes
  BY <1>1, ScopeUnfolds
<1>3. \/ e.param # "none" /\ obj' = [obj EXCEPT ![e.param] = SetString(@, v)] /\ db' = db
      \/ obj' = obj /\ db' = [db EXCEPT ![sc][n].exists = TRUE, ![sc][n].init = v]
  BY DEF SetInitValue
<1> HIDE DEF sc
<1>4. e \in Entry /\ db \in Database
  BY <1>2, EntryOf
<1>5. CASE e.param # "none" /\ obj' = [obj EXCEPT ![e.param] = SetString(@, v)] /\ db' = db
  <2>1. PICK o \in Objs : o = e.param
    <3> HIDE DEF e
    <3> QED BY <1>4, <1>5 DEF Entry
  <2> HIDE DEF e
  <2> DEFINE y == SetString(obj[o], v)
  <2>2. obj[o] \in Param
    BY DEF Databases
  <2>3. y \in Param /\ y.live = obj[o].live /\ y.name = obj[o].name /\ y.api = obj[o].api
    BY <2>2, Sets
  <2> HIDE DEF y
  <2>4. obj' = [obj EXCEPT ![o] = y]
    BY <1>5, <2>1 DEF y
  <2>5. obj' \in [Objs -> Param] /\ obj'[o] = y /\ \A p \in Objs : p # o => obj'[p] = obj[p]
    BY <2>3, <2>4 DEF Databases
  <2>6. \A p \in Objs : obj'[p].live = obj[p].live /\ obj'[p].name = obj[p].name /\ obj'[p].api = obj[p].api
    BY <2>3, <2>5
  <2> QED BY <1>4, <1>5, <2>5, <2>6 DEF SameParams
<1>6. CASE obj' = obj /\ db' = [db EXCEPT ![sc][n].exists = TRUE, ![sc][n].init = v]
  <2>1. db' = Put(db, sc, n, e2)
    BY <1>2, <1>4, <1>6 DEF Put, Database
  <2>2. e2 \in Entry /\ e2.param = e.param
    <3> HIDE DEF e
    <3> QED BY <1>4 DEF Entry
  <2> HIDE DEF e2
  <2>3. /\ db' \in Database /\ db'[sc][n] = e2
        /\ \A s \in Scopes, m \in Names : s # sc \/ m # n => db'[s][m] = db[s][m]
    BY <1>2, <1>4, <2>1, <2>2, Puts
  <2> QED BY <1>1, <1>6, <2>2, <2>3 DEF SameParams, Databases
<1> QED BY <1>3, <1>5, <1>6

(* The lock of a value. *)
LEMMA LockInitValueKeeps ==
  ASSUME ChainOK, Databases, NEW a \in Apis, NEW n \in Names, LockInitValue(a, n)
  PROVE  SameParams
<1> DEFINE sc == ScopeOf(a, n)
           e == db[sc][n]
           e2 == [e EXCEPT !.locked = TRUE]
<1>1. a \in Existing /\ obj' = obj /\ db' = [db EXCEPT ![sc][n].locked = TRUE]
  BY DEF LockInitValue
<1>2. sc \in Scopes
  BY <1>1, ScopeUnfolds
<1> HIDE DEF sc
<1>3. e \in Entry /\ db \in Database
  BY <1>2, EntryOf
<1>4. db' = Put(db, sc, n, e2)
  BY <1>1, <1>2, <1>3 DEF Put, Database
<1>5. e2 \in Entry /\ e2.param = e.param /\ e2.locked /\ e2.init = e.init
  <2> HIDE DEF e
  <2> QED BY <1>3 DEF Entry
<1> HIDE DEF e2
<1>6. /\ db' \in Database /\ db'[sc][n] = e2
      /\ \A s \in Scopes, m \in Names : s # sc \/ m # n => db'[s][m] = db[s][m]
  BY <1>2, <1>3, <1>4, <1>5, Puts
<1> QED BY <1>1, <1>5, <1>6 DEF SameParams, Databases

(* The databases are sound after every step, and locks hold. *)
LEMMA DatabasesStep ==
  ASSUME ChainOK, Databases, [Next]_vars
  PROVE  Databases' /\ LockStep
<1>1. ChainOK' /\ ChainGrows
  BY ChainStep
<1>2. CASE SameParams
  BY <1>1, <1>2, SameParamsKeep
<1>3. CASE UNCHANGED <<db, obj>>
  <2>1. SameParams
    BY <1>3 DEF SameParams, Databases
  <2> QED BY <1>2, <2>1
<1>4. CASE UNCHANGED vars
  BY <1>3, <1>4 DEF vars
<1>5. ASSUME NEW o \in Objs, NEW v \in Values, Write(o, v) PROVE SameParams
  <2> DEFINE y == SetString(obj[o], v)
  <2>1. obj' = [obj EXCEPT ![o] = y] /\ db' = db
    BY <1>5 DEF Write
  <2>2. obj[o] \in Param
    BY DEF Databases
  <2>3. y \in Param /\ y.live = obj[o].live /\ y.name = obj[o].name /\ y.api = obj[o].api
    BY <2>2, Sets
  <2> HIDE DEF y
  <2>4. obj' \in [Objs -> Param] /\ obj'[o] = y /\ \A p \in Objs : p # o => obj'[p] = obj[p]
    BY <2>1, <2>3 DEF Databases
  <2>5. \A p \in Objs : obj'[p].live = obj[p].live /\ obj'[p].name = obj[p].name /\ obj'[p].api = obj[p].api
    BY <2>3, <2>4
  <2> QED BY <2>1, <2>4, <2>5 DEF SameParams, Databases
<1>6. CASE Next
  <2>1. \/ UNCHANGED <<db, obj>>
        \/ \E o \in Objs : Destroy(o) \/ (\E n \in Names : Construct(o, n)) \/ (\E v \in Values : Write(o, v))
        \/ \E a \in Apis, n \in Names : LockInitValue(a, n) \/ \E v \in Strings : SetInitValue(a, n, v)
    BY <1>6, Frame DEF Next
  <2> QED BY <1>2, <1>3, <1>5, <2>1, ConstructKeeps, DestroyKeeps, SetInitValueKeeps, LockInitValueKeeps
<1> QED BY <1>4, <1>6
-----------------------------------------------------------------------------
(* Notifications.  c are the callbacks of the APIs, m their parents.          *)
Built(m) == RootApis \cup {a \in Owners : m[a] # "none"}

Chain(m) ==
  /\ m \in [Owners -> Apis \cup {"none"}]
  /\ \A a \in Owners : m[a] # "none" => m[a] \in Built(m) /\ Rank[m[a]] < Rank[a]

(* The callbacks of an API: of users, and of the private APIs below it that   *)
(* have callbacks themselves, each once.                                      *)
Lists(c, m) ==
  /\ c \in [Apis -> Seq(Owners \cup {"user"})]
  /\ \A a \in Owners : c[a] # <<>> => m[a] # "none"
  /\ \A a \in Apis : \A k \in 1 .. Len(c[a]) : c[a][k] # "user" => m[c[a][k]] = a /\ c[c[a][k]] # <<>>
  /\ \A a \in Apis : \A j, k \in 1 .. Len(c[a]) : c[a][j] = c[a][k] /\ c[a][j] # "user" => j = k
  /\ \A p \in Owners : c[p] # <<>> => \E k \in 1 .. Len(c[m[p]]) : c[m[p]][k] = p

(* What a walk through the lists consists of: the way P down to the list it   *)
(* is in, whether a user is called (u), who was told (H), who is to be told   *)
(* (O), and the APIs still to do (T).                                         *)
Place == [api : Apis, at : Nat \ {0}]
Pieces(P, u, H, O, T) ==
  /\ P \in Seq(Place) /\ u \in BOOLEAN
  /\ H \in SUBSET (Apis \X Nat) /\ O \in SUBSET (Apis \X Nat) /\ T \in SUBSET RootApis

(* It has come down, from an API without a parent or from the private one     *)
(* that makes the notification.                                               *)
PathOK(P, u, H, T, c) ==
  /\ \A k \in 1 .. Len(P) : P[k].at <= Len(c[P[k].api]) + 1
  /\ \A k \in 1 .. Len(P) - 1 : P[k].at <= Len(c[P[k].api]) /\ c[P[k].api][P[k].at] = P[k + 1].api
  /\ \A j, k \in 1 .. Len(P) : j < k => Rank[P[j].api] < Rank[P[k].api]
  /\ P # <<>> => IF P[1].api \in RootApis THEN P[1].api \notin T ELSE T = {}
  /\ u => /\ P # <<>> /\ P[Len(P)].at <= Len(c[P[Len(P)].api])
          /\ c[P[Len(P)].api][P[Len(P)].at] = "user"
          /\ <<P[Len(P)].api, P[Len(P)].at>> \in H

(* It is in the list of the parent of a, whose entry j is a. *)
Listed(P, c, m, a, k, j) ==
  k \in 1 .. Len(P) /\ P[k].api = m[a] /\ j \in 1 .. Len(c[m[a]]) /\ c[m[a]][j] = a

(* Who was told is behind the walk: F are the APIs it has left. *)
Behind(P, u, H, T, F, c, m) ==
  /\ \A e \in H : \/ e[1] \in F
                  \/ \E k \in 1 .. Len(P) :
                       /\ P[k].api = e[1]
                       /\ e[2] < P[k].at \/ (e[2] = P[k].at /\ u /\ k = Len(P))
  /\ \A k \in 1 .. Len(P) : P[k].api \in Built(m) \ F
  /\ F \cap T = {}
  /\ P # <<>> \/ T # {} =>
       \A a \in F \cap Owners : m[a] \in F \/ \E k, j \in Nat : Listed(P, c, m, a, k, j) /\ j < P[k].at

(* Who is still to be told is ahead: A are the APIs it has not entered. *)
Ahead(P, H, O, T, A, c, m) ==
  /\ \A e \in O : e[2] \in 1 .. Len(c[e[1]]) /\ c[e[1]][e[2]] = "user"
  /\ \A e \in O \ H : e[1] \in A \/ \E k \in 1 .. Len(P) : P[k].api = e[1] /\ P[k].at <= e[2]
  /\ \A k \in 1 .. Len(P) : P[k].api \notin A
  /\ \A a \in A : c[a] # <<>>
  /\ A \cap RootApis \subseteq T
  /\ \A a \in A \cap Owners : m[a] \in A \/ \E k, j \in Nat : Listed(P, c, m, a, k, j) /\ P[k].at <= j

Walk(P, u, H, O, T, c, m) ==
  /\ Pieces(P, u, H, O, T) /\ PathOK(P, u, H, T, c)
  /\ \E F \in SUBSET Built(m) : Behind(P, u, H, T, F, c, m)
  /\ \E A \in SUBSET Built(m) : Ahead(P, H, O, T, A, c, m)

(* What is known of the places on the way. *)
LEMMA Places ==
  ASSUME NEW P \in Seq(Place)
  PROVE  /\ Len(P) \in Nat /\ (P = <<>> <=> Len(P) = 0)
         /\ \A k \in 1 .. Len(P) : P[k] \in Place /\ P[k].api \in Apis /\ P[k].at \in Nat /\ 1 <= P[k].at
<1>1. Len(P) \in Nat /\ (P = <<>> <=> Len(P) = 0)
  OBVIOUS
<1>2. ASSUME NEW k \in 1 .. Len(P) PROVE P[k] \in Place
  OBVIOUS
<1>3. \A x \in Place : x.api \in Apis /\ x.at \in Nat /\ 1 <= x.at
  BY DEF Place
<1> QED BY <1>1, <1>2, <1>3

(* What is known of the lists. *)
LEMMA ListFacts ==
  ASSUME NEW c, NEW m, Lists(c, m), Chain(m), NEW a \in Apis
  PROVE  /\ Len(c[a]) \in Nat /\ (c[a] = <<>> <=> Len(c[a]) = 0)
         /\ \A k \in 1 .. Len(c[a]) : c[a][k] \in Owners \cup {"user"}
         /\ \A k \in 1 .. Len(c[a]) : c[a][k] # "user" =>
              /\ c[a][k] \in Owners /\ m[c[a][k]] = a /\ c[c[a][k]] # <<>> /\ Rank[a] < Rank[c[a][k]]
<1>1. c[a] \in Seq(Owners \cup {"user"})
  BY DEF Lists
<1>2. Len(c[a]) \in Nat /\ (c[a] = <<>> <=> Len(c[a]) = 0)
  BY <1>1
<1>3. \A k \in 1 .. Len(c[a]) : c[a][k] \in Owners \cup {"user"}
  BY <1>1
<1>4. a # "none"
  BY Nesting DEF Apis
<1>5. ASSUME NEW k \in 1 .. Len(c[a]), c[a][k] # "user"
      PROVE  c[a][k] \in Owners /\ m[c[a][k]] = a /\ c[c[a][k]] # <<>> /\ Rank[a] < Rank[c[a][k]]
  <2>1. c[a][k] \in Owners
    BY <1>3, <1>5
  <2>2. m[c[a][k]] = a /\ c[c[a][k]] # <<>>
    BY <1>5 DEF Lists
  <2> QED BY <1>4, <2>1, <2>2 DEF Chain
<1> QED BY <1>2, <1>3, <1>5

(* Places on the way differ, and lie below the first. *)
LEMMA PathFacts ==
  ASSUME NEW P \in Seq(Place), NEW u, NEW H, NEW T, NEW c, PathOK(P, u, H, T, c)
  PROVE  /\ \A j, k \in 1 .. Len(P) : P[j].api = P[k].api => j = k
         /\ \A j \in 1 .. Len(P) : j # 1 => P[j].api \in Owners
<1>1. \A k \in 1 .. Len(P) : P[k].api \in Apis
  BY Places
<1>2. \A k \in 1 .. Len(P) : Rank[P[k].api] \in Nat
  BY <1>1, Depths
<1>3. \A j, k \in 1 .. Len(P) : j < k => Rank[P[j].api] < Rank[P[k].api]
  BY DEF PathOK
<1>4. Len(P) \in Nat
  BY Places
<1>5. \A j, k \in 1 .. Len(P) : P[j].api = P[k].api => j = k
  <2> SUFFICES ASSUME NEW j \in 1 .. Len(P), NEW k \in 1 .. Len(P), j # k PROVE P[j].api # P[k].api
    OBVIOUS
  <2>1. j < k \/ k < j
    OBVIOUS
  <2> QED BY <1>2, <1>3, <2>1
<1>6. ASSUME NEW j \in 1 .. Len(P), j # 1 PROVE P[j].api \in Owners
  <2>1. 1 \in 1 .. Len(P) /\ 1 < j
    BY <1>4, <1>6
  <2>2. Rank[P[1].api] < Rank[P[j].api]
    BY <1>3, <2>1
  <2>3. Rank[P[j].api] # 0
    BY <1>2, <2>1, <2>2
  <2> QED BY <1>1, <2>3, Depths DEF Apis
<1> QED BY <1>5, <1>6

(* The walk enters the list of an API without a parent. *)
LEMMA WalkEnters ==
  ASSUME NEW c, NEW m, Lists(c, m), Chain(m), NEW u, NEW H, NEW O, NEW T, NEW a \in T, NEW P, NEW Q, P = <<>>,
         Walk(P, u, H, O, T, c, m),
         Q \in Seq(Place), Len(Q) = 1, Q[1].api = a, Q[1].at = 1
  PROVE  Walk(Q, u, H, O, T \ {a}, c, m)
<1> DEFINE S == T \ {a}
<1>1. Pieces(P, u, H, O, T) /\ PathOK(P, u, H, T, c) /\ Len(P) = 0 /\ a \in RootApis /\ a \in Apis
  BY DEF Walk, Pieces, Apis
<1>2. Pieces(Q, u, H, O, S)
  BY <1>1 DEF Pieces
<1>3. Q # <<>> /\ ~u /\ Len(c[a]) \in Nat
  <2>1. Q # <<>>
    BY Places
  <2>2. ~u
    BY <1>1 DEF PathOK
  <2> QED BY <1>1, <2>1, <2>2, ListFacts
<1>4. PathOK(Q, u, H, S, c)
  BY <1>1, <1>3 DEF PathOK
<1>5. PICK F \in SUBSET Built(m) : Behind(P, u, H, T, F, c, m)
  BY DEF Walk
<1>6. \A b \in F \cap Owners : m[b] \in F
  BY <1>1, <1>5 DEF Behind, Listed
<1>7. Behind(Q, u, H, S, F, c, m)
  BY <1>1, <1>5, <1>6 DEF Behind, Built
<1>8. PICK A \in SUBSET Built(m) : Ahead(P, H, O, T, A, c, m)
  BY DEF Walk
<1> DEFINE B == A \ {a}
<1>9. \A e \in O : e[2] \in 1 .. Len(c[e[1]]) /\ e[1] \in Apis
  BY <1>1, <1>8 DEF Ahead, Pieces
<1>10. \A e \in O \ H : e[1] \in A
  BY <1>1, <1>8 DEF Ahead
<1>11. \A e \in O \ H : e[1] \in B \/ \E k \in 1 .. Len(Q) : Q[k].api = e[1] /\ Q[k].at <= e[2]
  <2> SUFFICES ASSUME NEW e \in O \ H, e[1] = a PROVE Q[1].api = e[1] /\ Q[1].at <= e[2]
    BY <1>10
  <2> QED BY <1>3, <1>9
<1>12. \A b \in A \cap Owners : m[b] \in A /\ c[b] # <<>>
  BY <1>1, <1>8 DEF Ahead, Listed
<1>13. ASSUME NEW b \in B \cap Owners PROVE m[b] \in B \/ \E k, j \in Nat : Listed(Q, c, m, b, k, j) /\ Q[k].at <= j
  <2>1. CASE m[b] = a
    <3>1. PICK j \in 1 .. Len(c[m[b]]) : c[m[b]][j] = b
      BY <1>12 DEF Lists
    <3>2. j \in Nat /\ 1 <= j
      BY <1>3, <2>1, <3>1
    <3>3. Listed(Q, c, m, b, 1, j) /\ Q[1].at <= j
      BY <2>1, <3>1, <3>2 DEF Listed
    <3> QED BY <3>2, <3>3
  <2> QED BY <1>12, <2>1
<1>14. Ahead(Q, H, O, S, B, c, m)
  <2>1. \A k \in 1 .. Len(Q) : Q[k].api \notin B
    OBVIOUS
  <2>2. \A b \in B : c[b] # <<>>
    BY <1>8 DEF Ahead
  <2>3. B \cap RootApis \subseteq S
    BY <1>8 DEF Ahead
  <2>4. \A e \in O : e[2] \in 1 .. Len(c[e[1]]) /\ c[e[1]][e[2]] = "user"
    BY <1>8 DEF Ahead
  <2> HIDE DEF B, S
  <2> QED BY <1>11, <1>13, <2>1, <2>2, <2>3, <2>4 DEF Ahead
<1>15. B \in SUBSET Built(m)
  OBVIOUS
<1> HIDE DEF B
<1> QED BY <1>2, <1>4, <1>5, <1>7, <1>8, <1>14, <1>15 DEF Walk

(* The walk has reached the end of a list, and goes on after it. *)
LEMMA WalkPops ==
  ASSUME NEW c, NEW m, Lists(c, m), Chain(m), NEW u, NEW H, NEW O, NEW T, NEW P, NEW Q,
         Walk(P, u, H, O, T, c, m), ~u, P # <<>>, ~(P[Len(P)].at <= Len(c[P[Len(P)].api])),
         Q \in Seq(Place), Len(Q) = Len(P) - 1,
         \A k \in 1 .. Len(Q) : /\ Q[k].api = P[k].api
                                /\ Q[k].at = IF k = Len(Q) THEN P[k].at + 1 ELSE P[k].at
  PROVE  Walk(Q, u, H, O, T, c, m)
<1> DEFINE L == Len(P)
           f == P[L]
<1>1. Pieces(P, u, H, O, T) /\ PathOK(P, u, H, T, c) /\ P \in Seq(Place)
  BY DEF Walk, Pieces
<1>2. Pieces(Q, u, H, O, T)
  BY <1>1 DEF Pieces
<1>3. /\ L \in Nat /\ L >= 1 /\ L \in 1 .. L /\ f.api \in Apis /\ Len(Q) = L - 1
      /\ \A k \in 1 .. L : P[k].api \in Apis /\ P[k].at \in Nat /\ 1 <= P[k].at
  BY <1>1, Places
<1>4. \A k \in 1 .. L : Len(c[P[k].api]) \in Nat
  BY <1>3, ListFacts
<1>5. /\ \A j, k \in 1 .. L : P[j].api = P[k].api => j = k
      /\ \A j \in 1 .. L : j # 1 => P[j].api \in Owners
  BY <1>1, PathFacts
<1>6. L # 1 => /\ L - 1 \in 1 .. L /\ P[L - 1].at <= Len(c[P[L - 1].api])
               /\ c[P[L - 1].api][P[L - 1].at] = f.api /\ f.api \in Owners /\ f.api # "user" /\ m[f.api] = P[L - 1].api
  <2> SUFFICES ASSUME L # 1
               PROVE  /\ L - 1 \in 1 .. L /\ P[L - 1].at <= Len(c[P[L - 1].api])
                      /\ c[P[L - 1].api][P[L - 1].at] = f.api /\ f.api \in Owners /\ f.api # "user"
                      /\ m[f.api] = P[L - 1].api
    OBVIOUS
  <2>1. L - 1 \in 1 .. L /\ L - 1 \in 1 .. L - 1 /\ (L - 1) + 1 = L
    BY <1>3
  <2>2. P[L - 1].at <= Len(c[P[L - 1].api]) /\ c[P[L - 1].api][P[L - 1].at] = f.api
    BY <1>1, <2>1 DEF PathOK
  <2>3. f.api \in Owners /\ f.api # "user"
    BY <1>3, <1>5, Nesting
  <2>4. P[L - 1].at \in 1 .. Len(c[P[L - 1].api]) /\ P[L - 1].api \in Apis
    BY <1>3, <1>4, <2>1, <2>2
  <2>5. m[f.api] = P[L - 1].api
    BY <2>2, <2>3, <2>4, ListFacts
  <2> QED BY <2>1, <2>2, <2>3, <2>5
<1>7. \A k \in 1 .. Len(Q) : k \in 1 .. L /\ k # L
  BY <1>3
<1>8. Q = <<>> <=> L = 1
  <2>1. Q = <<>> <=> Len(Q) = 0
    BY Places
  <2> HIDE DEF L
  <2> QED BY <1>3, <2>1
<1>9. P[1].api \in RootApis => P[1].api \notin T
  BY <1>1 DEF PathOK
<1>10. P[1].api \notin RootApis => T = {}
  BY <1>1 DEF PathOK
<1> HIDE DEF L, f
<1>11. PathOK(Q, u, H, T, c)
  <2>1. ASSUME NEW k \in 1 .. Len(Q) PROVE Q[k].at <= Len(c[Q[k].api]) + 1
    <3>1. P[k].at <= Len(c[P[k].api]) + 1
      BY <1>1, <1>7 DEF PathOK, L
    <3>2. CASE k = Len(Q)
      <4>1. k = L - 1 /\ L # 1
        BY <1>3, <3>2
      <4>2. Q[k].at = P[k].at + 1 /\ Q[k].api = P[k].api
        BY <3>2
      <4> QED BY <1>3, <1>4, <1>6, <4>1, <4>2
    <3> QED BY <3>1, <3>2
  <2>2. ASSUME NEW k \in 1 .. Len(Q) - 1 PROVE Q[k].at <= Len(c[Q[k].api]) /\ c[Q[k].api][Q[k].at] = Q[k + 1].api
    <3>1. k \in 1 .. Len(Q) /\ k # Len(Q) /\ k + 1 \in 1 .. Len(Q) /\ k \in 1 .. L - 1
      BY <1>3
    <3>2. Q[k].at = P[k].at /\ Q[k].api = P[k].api /\ Q[k + 1].api = P[k + 1].api
      BY <3>1
    <3> QED BY <1>1, <3>1, <3>2 DEF PathOK, L
  <2>3. \A j, k \in 1 .. Len(Q) : j < k => Rank[Q[j].api] < Rank[Q[k].api]
    BY <1>1, <1>7 DEF PathOK, L
  <2>4. Q # <<>> => Q[1].api = P[1].api
    BY <1>3, <1>8
  <2> QED BY <1>9, <1>10, <2>1, <2>2, <2>3, <2>4 DEF PathOK
<1>12. PICK F \in SUBSET Built(m) : Behind(P, u, H, T, F, c, m)
  BY DEF Walk
<1> DEFINE G == F \cup {f.api}
<1>13. G \in SUBSET Built(m) /\ Behind(Q, u, H, T, G, c, m)
  <2>1. \A k \in 1 .. L : P[k].api \in Built(m) \ F
    BY <1>12 DEF Behind, L
  <2>2. ASSUME NEW e \in H
        PROVE \/ e[1] \in G
              \/ \E k \in 1 .. Len(Q) : Q[k].api = e[1] /\ (e[2] < Q[k].at \/ (e[2] = Q[k].at /\ u /\ k = Len(Q)))
    <3>1. CASE e[1] \in F
      BY <3>1
    <3>2. ASSUME NEW k \in 1 .. L, P[k].api = e[1], e[2] < P[k].at, k # L
          PROVE  k \in 1 .. Len(Q) /\ Q[k].api = e[1] /\ e[2] < Q[k].at
      <4>1. k \in 1 .. Len(Q)
        BY <1>3, <3>2
      <4>2. e[2] \in Nat /\ P[k].at \in Nat
        BY <1>1, <1>3 DEF Pieces
      <4> QED BY <3>2, <4>1, <4>2
    <3>3. e[1] \in F \/ \E k \in 1 .. L : P[k].api = e[1] /\ e[2] < P[k].at
      BY <1>12 DEF Behind, L
    <3> QED BY <3>1, <3>2, <3>3 DEF f
  <2>3. \A k \in 1 .. Len(Q) : Q[k].api \in Built(m) \ G
    BY <1>3, <1>5, <1>7, <2>1 DEF f
  <2>4. G \cap T = {}
    <3>1. F \cap T = {}
      BY <1>12 DEF Behind
    <3>2. CASE L = 1
      BY <1>9, <1>10, <3>1, <3>2 DEF f
    <3>3. CASE L # 1
      BY <1>1, <1>6, <3>1, <3>3, Nesting DEF Pieces
    <3> QED BY <3>2, <3>3
  <2>5. ASSUME Q # <<>> \/ T # {}, NEW a \in G \cap Owners
        PROVE  m[a] \in G \/ \E k, j \in Nat : Listed(Q, c, m, a, k, j) /\ j < Q[k].at
    <3>1. CASE a \in F
      <4>1. m[a] \in F \/ \E k, j \in Nat : Listed(P, c, m, a, k, j) /\ j < P[k].at
        BY <1>12, <3>1 DEF Behind
      <4>2. ASSUME NEW k \in Nat, NEW j \in Nat, Listed(P, c, m, a, k, j), j < P[k].at, m[a] # f.api
            PROVE  Listed(Q, c, m, a, k, j) /\ j < Q[k].at
        <5>1. k \in 1 .. L /\ P[k].api = m[a] /\ j \in 1 .. Len(c[m[a]]) /\ c[m[a]][j] = a
          BY <4>2 DEF Listed, L
        <5>2. k # L
          BY <4>2, <5>1 DEF f
        <5>3. k \in 1 .. Len(Q) /\ P[k].at \in Nat
          BY <1>3, <5>1, <5>2
        <5>4. Q[k].api = P[k].api /\ (Q[k].at = P[k].at \/ Q[k].at = P[k].at + 1)
          BY <5>3
        <5>5. j < Q[k].at
          BY <4>2, <5>3, <5>4
        <5> QED BY <5>1, <5>3, <5>4, <5>5 DEF Listed
      <4> QED BY <4>1, <4>2
    <3>2. CASE a = f.api
      <4>1. L # 1
        BY <1>3, <1>8, <1>10, <2>5, <3>2, Nesting DEF f
      <4>2. L - 1 \in 1 .. Len(Q) /\ Q[L - 1].api = P[L - 1].api /\ Q[L - 1].at = P[L - 1].at + 1
        BY <1>3, <4>1
      <4>3. P[L - 1].at \in 1 .. Len(c[P[L - 1].api]) /\ P[L - 1].at \in Nat
        BY <1>3, <1>4, <1>6, <4>1
      <4>4. Listed(Q, c, m, a, L - 1, P[L - 1].at) /\ P[L - 1].at < Q[L - 1].at /\ L - 1 \in Nat
        BY <1>3, <1>6, <3>2, <4>1, <4>2, <4>3 DEF Listed
      <4> QED BY <4>3, <4>4
    <3> QED BY <3>1, <3>2
  <2> HIDE DEF G
  <2>7. Behind(Q, u, H, T, G, c, m)
    BY <2>2, <2>3, <2>4, <2>5 DEF Behind
  <2> QED BY <1>3, <2>1, <2>7 DEF G, f
<1>14. PICK A \in SUBSET Built(m) : Ahead(P, H, O, T, A, c, m)
  BY DEF Walk
<1>15. Ahead(Q, H, O, T, A, c, m)
  <2>1. /\ \A e \in O : e[2] \in 1 .. Len(c[e[1]]) /\ c[e[1]][e[2]] = "user"
        /\ \A k \in 1 .. L : P[k].api \notin A
        /\ \A a \in A : c[a] # <<>>
        /\ A \cap RootApis \subseteq T
    BY <1>14 DEF Ahead, L
  <2>2. ASSUME NEW e \in O \ H
        PROVE  e[1] \in A \/ \E k \in 1 .. Len(Q) : Q[k].api = e[1] /\ Q[k].at <= e[2]
    <3>1. ASSUME NEW k \in 1 .. L, P[k].api = e[1], P[k].at <= e[2]
          PROVE  k \in 1 .. Len(Q) /\ Q[k].api = e[1] /\ Q[k].at <= e[2]
      <4>1. e[2] \in 1 .. Len(c[P[k].api]) /\ c[P[k].api][e[2]] = "user"
        BY <2>1, <3>1
      <4>2. e[2] \in Nat /\ P[k].at \in Nat /\ Len(c[P[k].api]) \in Nat
        BY <1>3, <1>4, <4>1
      <4>3. k # L
        BY <3>1, <4>1, <4>2 DEF L
      <4>4. k \in 1 .. Len(Q)
        BY <1>3, <4>3
      <4>5. k = Len(Q) => P[k].at # e[2]
        BY <1>3, <1>6, <4>1, <4>3
      <4> QED BY <3>1, <4>2, <4>4, <4>5
    <3>2. e[1] \in A \/ \E k \in 1 .. L : P[k].api = e[1] /\ P[k].at <= e[2]
      BY <1>14 DEF Ahead, L
    <3> QED BY <3>1, <3>2
  <2>3. \A k \in 1 .. Len(Q) : Q[k].api \notin A
    BY <1>7, <2>1
  <2>4. ASSUME NEW a \in A \cap Owners
        PROVE  m[a] \in A \/ \E k, j \in Nat : Listed(Q, c, m, a, k, j) /\ Q[k].at <= j
    <3>1. ASSUME NEW k \in Nat, NEW j \in Nat, Listed(P, c, m, a, k, j), P[k].at <= j
          PROVE  Listed(Q, c, m, a, k, j) /\ Q[k].at <= j
      <4>1. k \in 1 .. L /\ P[k].api = m[a] /\ j \in 1 .. Len(c[P[k].api]) /\ c[P[k].api][j] = a
        BY <3>1 DEF Listed, L
      <4>2. P[k].at \in Nat /\ Len(c[P[k].api]) \in Nat
        BY <1>3, <1>4, <4>1
      <4>3. k # L
        BY <3>1, <4>1, <4>2 DEF L
      <4>4. k \in 1 .. Len(Q)
        BY <1>3, <4>1, <4>3
      <4>5. a # f.api
        BY <1>3, <2>1 DEF f
      <4>6. k = Len(Q) => P[k].at # j
        BY <1>3, <1>6, <4>1, <4>3, <4>5
      <4>7. Q[k].api = P[k].api /\ Q[k].at <= j
        BY <3>1, <4>2, <4>4, <4>6
      <4> QED BY <4>1, <4>4, <4>7 DEF Listed
    <3>2. m[a] \in A \/ \E k, j \in Nat : Listed(P, c, m, a, k, j) /\ P[k].at <= j
      BY <1>14 DEF Ahead
    <3> QED BY <3>1, <3>2
  <2> QED BY <2>1, <2>2, <2>3, <2>4 DEF Ahead
<1> HIDE DEF G
<1> QED BY <1>2, <1>11, <1>13, <1>14, <1>15 DEF Walk

(* The walk goes down into the list of a private API. *)
LEMMA WalkPushes ==
  ASSUME NEW c, NEW m, Lists(c, m), Chain(m), NEW u, NEW H, NEW O, NEW T, NEW P, NEW Q, NEW q,
         Walk(P, u, H, O, T, c, m), ~u, P # <<>>, P[Len(P)].at <= Len(c[P[Len(P)].api]),
         q = c[P[Len(P)].api][P[Len(P)].at], q # "user",
         Q \in Seq(Place), Len(Q) = Len(P) + 1, \A k \in 1 .. Len(P) : Q[k] = P[k],
         Q[Len(P) + 1].api = q, Q[Len(P) + 1].at = 1
  PROVE  Walk(Q, u, H, O, T, c, m)
<1> DEFINE L == Len(P)
           f == P[L]
<1>1. Pieces(P, u, H, O, T) /\ PathOK(P, u, H, T, c) /\ P \in Seq(Place)
  BY DEF Walk, Pieces
<1>2. Pieces(Q, u, H, O, T)
  BY <1>1 DEF Pieces
<1>3. /\ L \in Nat /\ L >= 1 /\ L \in 1 .. L /\ f.api \in Apis /\ Len(Q) = L + 1
      /\ \A k \in 1 .. L : P[k].api \in Apis /\ P[k].at \in Nat /\ 1 <= P[k].at
  BY <1>1, Places
<1>4. Len(c[f.api]) \in Nat /\ f.at \in 1 .. Len(c[f.api])
  <2>1. Len(c[f.api]) \in Nat
    BY <1>3, ListFacts
  <2> QED BY <1>3, <2>1
<1>5. q \in Owners /\ m[q] = f.api /\ c[q] # <<>> /\ Rank[f.api] < Rank[q] /\ q \in Apis
  <2>1. q \in Owners /\ m[q] = f.api /\ c[q] # <<>> /\ Rank[f.api] < Rank[q]
    BY <1>3, <1>4, ListFacts
  <2> QED BY <2>1 DEF Apis
<1>6. \A j, k \in 1 .. L : P[j].api = P[k].api => j = k
  BY <1>1, PathFacts
<1>7. \A k \in 1 .. Len(Q) : (k \in 1 .. L /\ Q[k] = P[k]) \/ (k = L + 1 /\ Q[k].api = q /\ Q[k].at = 1)
  BY <1>3
<1>8. Q[L + 1].api = q /\ Q[L + 1].at = 1 /\ L + 1 \in 1 .. Len(Q) /\ \A k \in 1 .. L : k \in 1 .. Len(Q) /\ Q[k] = P[k]
  BY <1>3
<1>9. Q # <<>> /\ Q[1] = P[1]
  <2>1. Q # <<>>
    BY <1>3, Places
  <2> QED BY <1>3, <2>1
<1>10. c[f.api][f.at] = q /\ f.at <= Len(c[f.api])
  OBVIOUS
<1> HIDE DEF L
<1>11. PathOK(Q, u, H, T, c)
  <2>1. ASSUME NEW k \in 1 .. Len(Q) PROVE Q[k].at <= Len(c[Q[k].api]) + 1
    <3>1. CASE k \in 1 .. L /\ Q[k] = P[k]
      BY <1>1, <3>1 DEF PathOK, L
    <3>2. CASE k = L + 1 /\ Q[k].api = q /\ Q[k].at = 1
      <4>1. Len(c[q]) \in Nat
        BY <1>5, ListFacts
      <4> QED BY <3>2, <4>1
    <3> QED BY <1>7, <3>1, <3>2
  <2>2. ASSUME NEW k \in 1 .. Len(Q) - 1 PROVE Q[k].at <= Len(c[Q[k].api]) /\ c[Q[k].api][Q[k].at] = Q[k + 1].api
    <3>1. k \in 1 .. L
      BY <1>3
    <3>2. CASE k = L
      BY <1>8, <1>10, <3>1, <3>2
    <3>3. CASE k # L
      <4>1. k \in 1 .. L - 1 /\ k + 1 \in 1 .. L
        BY <1>3, <3>1, <3>3
      <4>2. P[k].at <= Len(c[P[k].api]) /\ c[P[k].api][P[k].at] = P[k + 1].api
        BY <1>1, <4>1 DEF PathOK, L
      <4> QED BY <1>8, <3>1, <4>1, <4>2
    <3> QED BY <3>2, <3>3
  <2>3. ASSUME NEW j \in 1 .. Len(Q), NEW k \in 1 .. Len(Q), j < k PROVE Rank[Q[j].api] < Rank[Q[k].api]
    <3>1. j \in 1 .. L
      BY <1>3, <2>3
    <3>2. \A i \in 1 .. L : i < L => Rank[P[i].api] < Rank[f.api]
      BY <1>1, <1>3 DEF PathOK, L
    <3>3. Rank[P[j].api] \in Nat /\ Rank[f.api] \in Nat /\ Rank[q] \in Nat
      BY <1>3, <1>5, <3>1, Depths
    <3>4. Rank[P[j].api] <= Rank[f.api]
      <4>1. j < L \/ j = L
        BY <1>3, <3>1
      <4> QED BY <3>1, <3>2, <3>3, <4>1
    <3>5. CASE k \in 1 .. L
      BY <1>1, <1>8, <2>3, <3>1, <3>5 DEF PathOK, L
    <3>6. CASE k = L + 1
      <4>1. Rank[P[j].api] < Rank[q]
        BY <1>5, <3>3, <3>4
      <4> QED BY <1>8, <3>1, <3>6, <4>1
    <3> QED BY <1>7, <3>5, <3>6
  <2>4. IF Q[1].api \in RootApis THEN Q[1].api \notin T ELSE T = {}
    BY <1>1, <1>9 DEF PathOK
  <2> QED BY <2>1, <2>2, <2>3, <2>4 DEF PathOK
<1>12. ASSUME NEW a, NEW k \in Nat, NEW j \in Nat, Listed(P, c, m, a, k, j)
       PROVE  Listed(Q, c, m, a, k, j) /\ Q[k] = P[k]
  BY <1>8, <1>12 DEF Listed, L
<1>13. PICK F \in SUBSET Built(m) : Behind(P, u, H, T, F, c, m)
  BY DEF Walk
<1>14. Behind(Q, u, H, T, F, c, m)
  <2>1. \A k \in 1 .. L : P[k].api \in Built(m) \ F
    BY <1>13 DEF Behind, L
  <2>2. \A a \in F \cap Owners : m[a] \in F \/ \E k, j \in Nat : Listed(P, c, m, a, k, j) /\ j < P[k].at
    BY <1>13 DEF Behind
  <2>3. q \notin F
    <3> SUFFICES ASSUME q \in F PROVE FALSE
      OBVIOUS
    <3>1. m[q] \notin F
      BY <1>3, <1>5, <2>1
    <3>2. PICK k, j \in Nat : Listed(P, c, m, q, k, j) /\ j < P[k].at
      BY <1>5, <2>2, <3>1
    <3>3. k \in 1 .. L /\ P[k].api = f.api /\ j \in 1 .. Len(c[f.api]) /\ c[f.api][j] = q
      BY <1>5, <3>2 DEF Listed, L
    <3>4. k = L
      BY <1>3, <1>6, <3>3
    <3>5. j = f.at
      <4>1. \A a \in Apis : \A i, l \in 1 .. Len(c[a]) : c[a][i] = c[a][l] /\ c[a][i] # "user" => i = l
        BY DEF Lists
      <4> HIDE DEF f
      <4> QED BY <1>3, <1>4, <1>10, <3>3, <4>1
    <3> QED BY <1>3, <3>2, <3>4, <3>5
  <2>4. q \in Built(m)
    BY <1>5 DEF Lists, Built
  <2>5. \A k \in 1 .. Len(Q) : Q[k].api \in Built(m) \ F
    BY <1>7, <2>1, <2>3, <2>4
  <2>6. ASSUME NEW e \in H
        PROVE \/ e[1] \in F
              \/ \E k \in 1 .. Len(Q) : Q[k].api = e[1] /\ (e[2] < Q[k].at \/ (e[2] = Q[k].at /\ u /\ k = Len(Q)))
    <3>1. e[1] \in F \/ \E k \in 1 .. L : P[k].api = e[1] /\ e[2] < P[k].at
      BY <1>13 DEF Behind, L
    <3> QED BY <1>8, <3>1
  <2>7. \A a \in F \cap Owners : m[a] \in F \/ \E k, j \in Nat : Listed(Q, c, m, a, k, j) /\ j < Q[k].at
    BY <1>12, <2>2
  <2>8. F \cap T = {}
    BY <1>13 DEF Behind
  <2> QED BY <2>5, <2>6, <2>7, <2>8 DEF Behind
<1>15. PICK A \in SUBSET Built(m) : Ahead(P, H, O, T, A, c, m)
  BY DEF Walk
<1> DEFINE B == A \ {q}
<1>16. Ahead(Q, H, O, T, B, c, m)
  <2>1. /\ \A e \in O : e[2] \in 1 .. Len(c[e[1]]) /\ c[e[1]][e[2]] = "user"
        /\ \A k \in 1 .. L : P[k].api \notin A
        /\ \A a \in A : c[a] # <<>>
        /\ A \cap RootApis \subseteq T
    BY <1>15 DEF Ahead, L
  <2>2. ASSUME NEW e \in O \ H
        PROVE  e[1] \in B \/ \E k \in 1 .. Len(Q) : Q[k].api = e[1] /\ Q[k].at <= e[2]
    <3>1. CASE e[1] = q
      <4>1. e[2] \in 1 .. Len(c[q]) /\ Len(c[q]) \in Nat
        BY <1>5, <2>1, <3>1, ListFacts
      <4>2. 1 <= e[2]
        BY <4>1
      <4> QED BY <1>8, <3>1, <4>2
    <3>2. e[1] \in A \/ \E k \in 1 .. L : P[k].api = e[1] /\ P[k].at <= e[2]
      BY <1>15 DEF Ahead, L
    <3> QED BY <1>8, <3>1, <3>2
  <2>3. \A k \in 1 .. Len(Q) : Q[k].api \notin B
    BY <1>7, <2>1
  <2>4. ASSUME NEW a \in B \cap Owners
        PROVE  m[a] \in B \/ \E k, j \in Nat : Listed(Q, c, m, a, k, j) /\ Q[k].at <= j
    <3>1. CASE m[a] = q
      <4>1. PICK j \in 1 .. Len(c[m[a]]) : c[m[a]][j] = a
        BY <2>1 DEF Lists
      <4>2. j \in Nat /\ 1 <= j
        <5>1. Len(c[q]) \in Nat
          BY <1>5, ListFacts
        <5> QED BY <3>1, <4>1, <5>1
      <4>3. Listed(Q, c, m, a, L + 1, j) /\ Q[L + 1].at <= j /\ L + 1 \in Nat
        BY <1>3, <1>8, <3>1, <4>1, <4>2 DEF Listed
      <4> QED BY <4>2, <4>3
    <3>2. m[a] \in A \/ \E k, j \in Nat : Listed(P, c, m, a, k, j) /\ P[k].at <= j
      BY <1>15 DEF Ahead
    <3> QED BY <1>12, <3>1, <3>2
  <2>5. (\A a \in B : c[a] # <<>>) /\ B \cap RootApis \subseteq T
    BY <2>1
  <2> HIDE DEF B
  <2> QED BY <2>1, <2>2, <2>3, <2>4, <2>5 DEF Ahead
<1>17. B \in SUBSET Built(m)
  OBVIOUS
<1> HIDE DEF B
<1> QED BY <1>2, <1>11, <1>13, <1>14, <1>15, <1>16, <1>17 DEF Walk

(* The walk has come to a user; the callback, and who was told after it. *)
AtUser(P, c) == P[Len(P)].at <= Len(c[P[Len(P)].api]) /\ c[P[Len(P)].api][P[Len(P)].at] = "user"
Here(P) == <<P[Len(P)].api, P[Len(P)].at>>
Told(H, P) == H \cup {Here(P)}

(* The walk calls a user, who was not told before. *)
LEMMA WalkCalls ==
  ASSUME NEW c, NEW m, Lists(c, m), Chain(m), NEW H, NEW O, NEW T, NEW P,
         Walk(P, FALSE, H, O, T, c, m), P # <<>>, AtUser(P, c)
  PROVE  Walk(P, TRUE, Told(H, P), O, T, c, m) /\ Here(P) \notin H
<1> DEFINE L == Len(P)
           f == P[L]
           me == <<f.api, f.at>>
           G == Told(H, P)
<1>1. Pieces(P, FALSE, H, O, T) /\ PathOK(P, FALSE, H, T, c) /\ P \in Seq(Place)
  BY DEF Walk, Pieces
<1>2. /\ L \in Nat /\ L >= 1 /\ L \in 1 .. L
      /\ \A k \in 1 .. L : P[k].api \in Apis /\ P[k].at \in Nat /\ 1 <= P[k].at
  BY <1>1, Places
<1>3. Pieces(P, TRUE, G, O, T)
  BY <1>1, <1>2 DEF Pieces, Told, Here
<1>4. \A j, k \in 1 .. L : P[j].api = P[k].api => j = k
  BY <1>1, PathFacts
<1>5. PathOK(P, TRUE, G, T, c)
  BY <1>1 DEF PathOK, Told, Here, AtUser
<1>6. PICK F \in SUBSET Built(m) : Behind(P, FALSE, H, T, F, c, m)
  BY DEF Walk
<1>7. \A e \in H : e[1] \in F \/ \E k \in 1 .. L : P[k].api = e[1] /\ e[2] < P[k].at
  BY <1>6 DEF Behind
<1>8. \A k \in 1 .. L : P[k].api \notin F
  BY <1>6 DEF Behind
<1>9. me[1] = f.api /\ me[2] = f.at /\ G = H \cup {me} /\ me = Here(P)
  BY DEF Told, Here
<1> HIDE DEF me, G
<1>10. me \notin H
  <2> SUFFICES ASSUME me \in H PROVE FALSE
    OBVIOUS
  <2>1. PICK k \in 1 .. L : P[k].api = f.api /\ f.at < P[k].at
    BY <1>2, <1>7, <1>8, <1>9
  <2>2. k = L
    BY <1>2, <1>4, <2>1
  <2> QED BY <1>2, <2>1, <2>2
<1> HIDE DEF L
<1>11. Behind(P, TRUE, G, T, F, c, m)
  <2>1. ASSUME NEW e \in G
        PROVE \/ e[1] \in F
              \/ \E k \in 1 .. Len(P) : P[k].api = e[1] /\ (e[2] < P[k].at \/ (e[2] = P[k].at /\ TRUE /\ k = Len(P)))
    <3>1. CASE e \in H
      BY <1>7, <3>1 DEF L
    <3>2. CASE e = me
      BY <1>2, <1>9, <3>2 DEF L
    <3> QED BY <1>9, <3>1, <3>2
  <2> QED BY <1>6, <2>1 DEF Behind
<1>12. PICK A \in SUBSET Built(m) : Ahead(P, H, O, T, A, c, m)
  BY DEF Walk
<1>13. Ahead(P, G, O, T, A, c, m)
  BY <1>9, <1>12 DEF Ahead
<1>14. Walk(P, TRUE, G, O, T, c, m)
  BY <1>3, <1>5, <1>11, <1>13 DEF Walk
<1> QED BY <1>9, <1>10, <1>14 DEF G

(* The user returns, and the walk goes on in the list. *)
LEMMA WalkGoesOn ==
  ASSUME NEW c, NEW m, Lists(c, m), Chain(m), NEW u, NEW H, NEW O, NEW T, NEW P, NEW Q,
         Walk(P, u, H, O, T, c, m), u,
         Q \in Seq(Place), Len(Q) = Len(P),
         \A k \in 1 .. Len(P) : /\ Q[k].api = P[k].api
                                /\ Q[k].at = IF k = Len(P) THEN P[k].at + 1 ELSE P[k].at
  PROVE  P # <<>> /\ Walk(Q, FALSE, H, O, T, c, m)
<1> DEFINE L == Len(P)
           f == P[L]
<1>1. Pieces(P, u, H, O, T) /\ PathOK(P, u, H, T, c) /\ P \in Seq(Place)
  BY DEF Walk, Pieces
<1>2. Pieces(Q, FALSE, H, O, T)
  BY <1>1 DEF Pieces
<1>3. P # <<>> /\ f.at <= Len(c[f.api]) /\ c[f.api][f.at] = "user" /\ <<f.api, f.at>> \in H
  BY <1>1 DEF PathOK
<1>4. /\ L \in Nat /\ L >= 1 /\ L \in 1 .. L /\ Len(Q) = L
      /\ \A k \in 1 .. L : P[k].api \in Apis /\ P[k].at \in Nat /\ 1 <= P[k].at
  BY <1>1, <1>3, Places
<1>5. \A k \in 1 .. L : /\ Q[k].api = P[k].api
                        /\ Q[k].at = IF k = L THEN P[k].at + 1 ELSE P[k].at
  OBVIOUS
<1>6. \A k \in 1 .. L : Len(c[P[k].api]) \in Nat
  BY <1>4, ListFacts
<1> HIDE DEF L
<1>7. PathOK(Q, FALSE, H, T, c)
  <2>1. ASSUME NEW k \in 1 .. Len(Q) PROVE Q[k].at <= Len(c[Q[k].api]) + 1
    <3>0. k \in 1 .. L
      BY <1>4
    <3>1. CASE k = L
      BY <1>3, <1>4, <1>5, <1>6, <3>1
    <3>2. CASE k # L
      BY <1>1, <1>5, <3>0, <3>2 DEF PathOK, L
    <3> QED BY <3>1, <3>2
  <2>2. ASSUME NEW k \in 1 .. Len(Q) - 1 PROVE Q[k].at <= Len(c[Q[k].api]) /\ c[Q[k].api][Q[k].at] = Q[k + 1].api
    <3>1. k \in 1 .. L /\ k # L /\ k \in 1 .. L - 1 /\ k + 1 \in 1 .. L
      BY <1>4
    <3>2. P[k].at <= Len(c[P[k].api]) /\ c[P[k].api][P[k].at] = P[k + 1].api
      BY <1>1, <3>1 DEF PathOK, L
    <3> QED BY <1>5, <3>1, <3>2
  <2>3. \A j, k \in 1 .. Len(Q) : j < k => Rank[Q[j].api] < Rank[Q[k].api]
    BY <1>1, <1>4, <1>5 DEF PathOK, L
  <2>4. IF Q[1].api \in RootApis THEN Q[1].api \notin T ELSE T = {}
    <3>1. Q[1].api = P[1].api
      BY <1>4, <1>5
    <3> QED BY <1>1, <1>3, <3>1 DEF PathOK
  <2> QED BY <2>1, <2>2, <2>3, <2>4 DEF PathOK
<1>8. PICK F \in SUBSET Built(m) : Behind(P, u, H, T, F, c, m)
  BY DEF Walk
<1>9. Behind(Q, FALSE, H, T, F, c, m)
  <2>1. ASSUME NEW e \in H
        PROVE \/ e[1] \in F
              \/ \E k \in 1 .. Len(Q) : Q[k].api = e[1] /\ (e[2] < Q[k].at \/ (e[2] = Q[k].at /\ FALSE /\ k = Len(Q)))
    <3>1. ASSUME NEW k \in 1 .. L, P[k].api = e[1], e[2] < P[k].at \/ (e[2] = P[k].at /\ k = L)
          PROVE  k \in 1 .. Len(Q) /\ Q[k].api = e[1] /\ e[2] < Q[k].at
      <4>1. e[2] \in Nat /\ P[k].at \in Nat
        BY <1>1, <1>4 DEF Pieces
      <4>2. k = L => e[2] < P[k].at + 1
        BY <3>1, <4>1
      <4> QED BY <1>4, <1>5, <3>1, <4>2
    <3>2. e[1] \in F \/ \E k \in 1 .. L : P[k].api = e[1] /\ (e[2] < P[k].at \/ (e[2] = P[k].at /\ k = L))
      BY <1>8 DEF Behind, L
    <3> QED BY <3>1, <3>2
  <2>2. \A k \in 1 .. Len(Q) : Q[k].api \in Built(m) \ F
    BY <1>4, <1>5, <1>8 DEF Behind, L
  <2>3. F \cap T = {}
    BY <1>8 DEF Behind
  <2>4. ASSUME NEW a \in F \cap Owners
        PROVE  m[a] \in F \/ \E k, j \in Nat : Listed(Q, c, m, a, k, j) /\ j < Q[k].at
    <3>1. ASSUME NEW k \in Nat, NEW j \in Nat, Listed(P, c, m, a, k, j), j < P[k].at
          PROVE  Listed(Q, c, m, a, k, j) /\ j < Q[k].at
      <4>1. k \in 1 .. L /\ P[k].api = m[a] /\ j \in 1 .. Len(c[m[a]]) /\ c[m[a]][j] = a
        BY <3>1 DEF Listed, L
      <4>2. P[k].at \in Nat /\ Q[k].api = P[k].api /\ (Q[k].at = P[k].at \/ Q[k].at = P[k].at + 1)
        BY <1>4, <1>5, <4>1
      <4>3. j < Q[k].at
        BY <3>1, <4>2
      <4> QED BY <1>4, <4>1, <4>2, <4>3 DEF Listed
    <3>2. m[a] \in F \/ \E k, j \in Nat : Listed(P, c, m, a, k, j) /\ j < P[k].at
      BY <1>3, <1>8 DEF Behind
    <3> QED BY <3>1, <3>2
  <2> QED BY <2>1, <2>2, <2>3, <2>4 DEF Behind
<1>10. PICK A \in SUBSET Built(m) : Ahead(P, H, O, T, A, c, m)
  BY DEF Walk
<1>11. Ahead(Q, H, O, T, A, c, m)
  <2>1. /\ \A e \in O : e[2] \in 1 .. Len(c[e[1]]) /\ c[e[1]][e[2]] = "user"
        /\ \A k \in 1 .. L : P[k].api \notin A
        /\ \A a \in A : c[a] # <<>>
        /\ A \cap RootApis \subseteq T
    BY <1>10 DEF Ahead, L
  <2>2. ASSUME NEW e \in O \ H
        PROVE  e[1] \in A \/ \E k \in 1 .. Len(Q) : Q[k].api = e[1] /\ Q[k].at <= e[2]
    <3>1. ASSUME NEW k \in 1 .. L, P[k].api = e[1], P[k].at <= e[2]
          PROVE  k \in 1 .. Len(Q) /\ Q[k].api = e[1] /\ Q[k].at <= e[2]
      <4>1. e[2] \in Nat /\ P[k].at \in Nat /\ e = <<e[1], e[2]>>
        BY <1>1, <1>4 DEF Pieces
      <4>2. k = L => e[2] # P[k].at
        BY <1>3, <3>1, <4>1
      <4> QED BY <1>4, <1>5, <3>1, <4>1, <4>2
    <3>2. e[1] \in A \/ \E k \in 1 .. L : P[k].api = e[1] /\ P[k].at <= e[2]
      BY <1>10 DEF Ahead, L
    <3> QED BY <3>1, <3>2
  <2>3. \A k \in 1 .. Len(Q) : Q[k].api \notin A
    BY <1>4, <1>5, <2>1
  <2>4. ASSUME NEW a \in A \cap Owners
        PROVE  m[a] \in A \/ \E k, j \in Nat : Listed(Q, c, m, a, k, j) /\ Q[k].at <= j
    <3>1. ASSUME NEW k \in Nat, NEW j \in Nat, Listed(P, c, m, a, k, j), P[k].at <= j
          PROVE  Listed(Q, c, m, a, k, j) /\ Q[k].at <= j
      <4>1. k \in 1 .. L /\ P[k].api = m[a] /\ j \in 1 .. Len(c[m[a]]) /\ c[m[a]][j] = a
        BY <3>1 DEF Listed, L
      <4>2. P[k].at \in Nat /\ a # "user"
        BY <1>4, <4>1, Nesting
      <4>3. k = L => P[k].at # j
        BY <1>3, <4>1, <4>2
      <4>4. Q[k].api = P[k].api /\ Q[k].at <= j
        BY <1>5, <3>1, <4>1, <4>2, <4>3
      <4> QED BY <1>4, <4>1, <4>4 DEF Listed
    <3>2. m[a] \in A \/ \E k, j \in Nat : Listed(P, c, m, a, k, j) /\ P[k].at <= j
      BY <1>10 DEF Ahead
    <3> QED BY <3>1, <3>2
  <2> QED BY <2>1, <2>2, <2>3, <2>4 DEF Ahead
<1> QED BY <1>2, <1>3, <1>7, <1>8, <1>9, <1>10, <1>11 DEF Walk

(* Lists that grow at their ends, and APIs that are added, disturb no walk. *)
LEMMA WalkStays ==
  ASSUME NEW c, NEW m, NEW d, NEW n, Lists(c, m), Chain(m), NEW P, NEW u, NEW H, NEW O, NEW T,
         Walk(P, u, H, O, T, c, m),
         \A a \in Apis : /\ Len(d[a]) \in Nat /\ Len(c[a]) <= Len(d[a])
                         /\ \A k \in 1 .. Len(c[a]) : d[a][k] = c[a][k]
                         /\ c[a] # <<>> => d[a] # <<>>,
         \A a \in Owners : m[a] # "none" => n[a] = m[a]
  PROVE  Walk(P, u, H, O, T, d, n)
<1>1. Pieces(P, u, H, O, T) /\ PathOK(P, u, H, T, c) /\ P \in Seq(Place)
  BY DEF Walk, Pieces
<1>2. /\ Len(P) \in Nat
      /\ \A k \in 1 .. Len(P) : P[k].api \in Apis /\ P[k].at \in Nat /\ 1 <= P[k].at
  BY <1>1, Places
<1>3. \A a \in Apis : Len(c[a]) \in Nat /\ \A k \in 1 .. Len(c[a]) : k \in Nat /\ k \in 1 .. Len(d[a]) /\ d[a][k] = c[a][k]
  BY ListFacts
<1>4. \A k \in 1 .. Len(P) : P[k].at <= Len(c[P[k].api]) =>
        P[k].at <= Len(d[P[k].api]) /\ d[P[k].api][P[k].at] = c[P[k].api][P[k].at]
  BY <1>2, <1>3
<1>5. PathOK(P, u, H, T, d)
  <2>1. ASSUME NEW k \in 1 .. Len(P) PROVE P[k].at <= Len(d[P[k].api]) + 1
    <3>1. P[k].at <= Len(c[P[k].api]) + 1
      BY <1>1 DEF PathOK
    <3> QED BY <1>2, <1>3, <3>1
  <2>2. ASSUME NEW k \in 1 .. Len(P) - 1 PROVE P[k].at <= Len(d[P[k].api]) /\ d[P[k].api][P[k].at] = P[k + 1].api
    <3>1. P[k].at <= Len(c[P[k].api]) /\ c[P[k].api][P[k].at] = P[k + 1].api
      BY <1>1 DEF PathOK
    <3>2. k \in 1 .. Len(P)
      BY <1>2
    <3> QED BY <1>4, <3>1, <3>2
  <2>3. u => /\ P # <<>> /\ P[Len(P)].at <= Len(d[P[Len(P)].api])
             /\ d[P[Len(P)].api][P[Len(P)].at] = "user"
             /\ <<P[Len(P)].api, P[Len(P)].at>> \in H
    <3> SUFFICES ASSUME u
                 PROVE  /\ P # <<>> /\ P[Len(P)].at <= Len(d[P[Len(P)].api])
                        /\ d[P[Len(P)].api][P[Len(P)].at] = "user"
                        /\ <<P[Len(P)].api, P[Len(P)].at>> \in H
      OBVIOUS
    <3>1. /\ P # <<>> /\ P[Len(P)].at <= Len(c[P[Len(P)].api])
          /\ c[P[Len(P)].api][P[Len(P)].at] = "user"
          /\ <<P[Len(P)].api, P[Len(P)].at>> \in H
      BY <1>1 DEF PathOK
    <3>2. Len(P) \in 1 .. Len(P)
      BY <1>1, <3>1, Places
    <3> QED BY <1>4, <3>1, <3>2
  <2> QED BY <1>1, <2>1, <2>2, <2>3 DEF PathOK
<1>6. \A a \in Built(m) : a \in Built(n)
  BY Nesting DEF Built
<1>7. ASSUME NEW a \in Built(m) \cap Owners PROVE n[a] = m[a] /\ m[a] \in Apis
  <2>1. m[a] # "none"
    BY Nesting DEF Built
  <2> QED BY <2>1 DEF Chain, Built, Apis
<1>8. ASSUME NEW a \in Built(m) \cap Owners, NEW k \in Nat, NEW j \in Nat, Listed(P, c, m, a, k, j)
      PROVE  Listed(P, d, n, a, k, j)
  <2>1. k \in 1 .. Len(P) /\ P[k].api = m[a] /\ j \in 1 .. Len(c[m[a]]) /\ c[m[a]][j] = a
    BY <1>8 DEF Listed
  <2>2. j \in 1 .. Len(d[m[a]]) /\ d[m[a]][j] = a
    BY <1>3, <1>7, <2>1
  <2> QED BY <1>7, <2>1, <2>2 DEF Listed
<1>9. PICK F \in SUBSET Built(m) : Behind(P, u, H, T, F, c, m)
  BY DEF Walk
<1>10. Behind(P, u, H, T, F, d, n)
  <2>1. P # <<>> \/ T # {} =>
          \A a \in F \cap Owners : n[a] \in F \/ \E k, j \in Nat : Listed(P, d, n, a, k, j) /\ j < P[k].at
    <3> SUFFICES ASSUME P # <<>> \/ T # {}, NEW a \in F \cap Owners
                 PROVE  n[a] \in F \/ \E k, j \in Nat : Listed(P, d, n, a, k, j) /\ j < P[k].at
      OBVIOUS
    <3>1. m[a] \in F \/ \E k, j \in Nat : Listed(P, c, m, a, k, j) /\ j < P[k].at
      BY <1>9 DEF Behind
    <3> QED BY <1>7, <1>8, <3>1
  <2> QED BY <1>6, <1>9, <2>1 DEF Behind
<1>11. PICK A \in SUBSET Built(m) : Ahead(P, H, O, T, A, c, m)
  BY DEF Walk
<1>12. Ahead(P, H, O, T, A, d, n)
  <2>1. \A e \in O : e[2] \in 1 .. Len(d[e[1]]) /\ d[e[1]][e[2]] = "user"
    <3>1. \A e \in O : e[2] \in 1 .. Len(c[e[1]]) /\ c[e[1]][e[2]] = "user" /\ e[1] \in Apis
      BY <1>1, <1>11 DEF Ahead, Pieces
    <3> QED BY <1>3, <3>1
  <2>2. ASSUME NEW a \in A \cap Owners PROVE n[a] \in A \/ \E k, j \in Nat : Listed(P, d, n, a, k, j) /\ P[k].at <= j
    <3>1. m[a] \in A \/ \E k, j \in Nat : Listed(P, c, m, a, k, j) /\ P[k].at <= j
      BY <1>11 DEF Ahead
    <3> QED BY <1>7, <1>8, <3>1
  <2>3. \A a \in A : d[a] # <<>>
    BY <1>11 DEF Ahead, Built, Apis
  <2> QED BY <1>11, <2>1, <2>2, <2>3 DEF Ahead
<1>13. F \in SUBSET Built(n) /\ A \in SUBSET Built(n)
  BY <1>6
<1> QED BY <1>1, <1>5, <1>10, <1>12, <1>13 DEF Walk
-----------------------------------------------------------------------------
(* A finite set written as a sequence: every element once. *)
LEMMA Enumerates ==
  ASSUME NEW S, IsFiniteSet(S)
  PROVE  /\ SetToSeq(S) \in Seq(S) /\ Len(SetToSeq(S)) \in Nat
         /\ \A j, k \in 1 .. Len(SetToSeq(S)) : SetToSeq(S)[j] = SetToSeq(S)[k] => j = k
         /\ \A x \in S : \E k \in 1 .. Len(SetToSeq(S)) : SetToSeq(S)[k] = x
<1> DEFINE n == Cardinality(S)
           s == CHOOSE f \in [1 .. n -> S] : IsInjective(f)
<1>1. n \in Nat /\ ExistsBijection(1 .. n, S)
  BY FS_CardinalityType
<1>2. \E f \in [1 .. n -> S] : IsInjective(f)
  BY <1>1 DEF ExistsBijection, Bijection, Injection, IsInjective
<1>3. s \in [1 .. n -> S] /\ IsInjective(s)
  <2> HIDE DEF IsInjective, n
  <2> QED BY <1>2
<1>4. SetToSeq(S) = s
  BY DEF SetToSeq
<1> HIDE DEF s, n
<1>5. s \in Injection(1 .. n, S)
  BY <1>3 DEF Injection
<1>6. s \in Surjection(1 .. n, S)
  <2>1. Cardinality(1 .. n) = Cardinality(S)
    BY <1>1, FS_Interval DEF n
  <2> QED BY <1>5, <2>1, FS_Injection
<1>7. \A x \in S : \E k \in 1 .. n : s[k] = x
  BY <1>6 DEF Surjection
<1>8. s \in Seq(S) /\ Len(s) = n
  BY <1>1, <1>3
<1>9. \A j, k \in 1 .. n : s[j] = s[k] => j = k
  BY <1>3 DEF IsInjective
<1> QED BY <1>1, <1>4, <1>7, <1>8, <1>9

(* The APIs above an API, step by step. *)
LEMMA AboveUnfolds ==
  ASSUME ChainOK
  PROVE  \A a \in Existing :
           /\ Above(a) \in SUBSET Existing
           /\ Above(a) = {a} \cup (IF a \in RootApis THEN {} ELSE Above(mApi[a]))
<1> DEFINE v == [x \in Existing |-> {x}]
           F == [x \in Existing |-> [y \in SUBSET Existing |-> {x} \cup y]]
           r == [x \in Existing |-> Rank[x]]
           IsAbove(g) == g = [x \in Existing |-> {x} \cup (IF x \in RootApis THEN {} ELSE g[mApi[x]])]
           f == CHOOSE g : IsAbove(g)
<1>1. \A x : Above(x) = f[x]
  BY Zenon DEF Above
<1>2. \A x \in Existing : x \in Apis /\ (x \notin RootApis => x \in Owners /\ mApi[x] # "none")
  BY DEF Existing, Apis
<1>3. \A x \in Existing : x \in RootApis => v[x] \in SUBSET Existing
  OBVIOUS
<1>4. r \in [Existing -> 0 .. Cardinality(Owners)]
  BY <1>2, Depths
<1>5. ASSUME NEW x \in Existing, x \notin RootApis
      PROVE  /\ mApi[x] \in Existing /\ r[mApi[x]] < r[x]
             /\ \A y \in SUBSET Existing : F[x][y] = {x} \cup y /\ F[x][y] \in SUBSET Existing
  <2>1. mApi[x] \in Existing /\ Rank[mApi[x]] < Rank[x]
    BY <1>2, <1>5 DEF ChainOK
  <2> QED BY <2>1
<1>6. \E g \in [Existing -> SUBSET Existing] :
        \A x \in Existing : g[x] = IF x \in RootApis THEN v[x] ELSE F[x][g[mApi[x]]]
  <2> HIDE DEF v, F, r
  <2>1. Tree(Existing, RootApis, SUBSET Existing, Cardinality(Owners), r, mApi, v, F)
    BY <1>3, <1>4, <1>5, Depths DEF Tree
  <2> QED BY <2>1, WalksUp
<1>7. PICK g \in [Existing -> SUBSET Existing] :
        \A x \in Existing : g[x] = IF x \in RootApis THEN v[x] ELSE F[x][g[mApi[x]]]
  BY <1>6
<1>8. ASSUME NEW x \in Existing
      PROVE  g[x] = {x} \cup (IF x \in RootApis THEN {} ELSE g[mApi[x]])
  <2>1. x \notin RootApis => F[x][g[mApi[x]]] = {x} \cup g[mApi[x]]
    <3> HIDE DEF F
    <3> QED BY <1>5, <1>7
  <2>2. v[x] = {x} /\ {x} = {x} \cup {}
    OBVIOUS
  <2> HIDE DEF v, F
  <2>3. CASE x \in RootApis
    BY <1>7, <2>2, <2>3
  <2>4. CASE x \notin RootApis
    BY <1>7, <2>1, <2>4
  <2> QED BY <2>3, <2>4
<1>9. IsAbove(g)
  BY <1>8
<1>10. IsAbove(f)
  <2> HIDE DEF IsAbove
  <2> QED BY <1>9
<1>11. \A x \in Existing : f[x] = {x} \cup (IF x \in RootApis THEN {} ELSE f[mApi[x]])
  <2> HIDE DEF f
  <2> QED BY <1>10
<1> HIDE DEF f, IsAbove
<1> DEFINE P == {x \in Existing : f[x] \in SUBSET Existing}
<1>12. ASSUME NEW x \in Existing, \A y \in Existing : r[y] < r[x] => y \in P PROVE x \in P
  <2>1. CASE x \in RootApis
    BY <1>11, <2>1
  <2>2. CASE x \notin RootApis
    <3>1. mApi[x] \in P
      <4> HIDE DEF P, r
      <4> QED BY <1>5, <1>12, <2>2
    <3> QED BY <1>11, <2>2, <3>1
  <2> QED BY <2>1, <2>2
<1>13. \A x \in Existing : x \in P
  <2> HIDE DEF P, r
  <2> QED BY <1>4, <1>12, Depths, ByRank
<1> QED BY <1>1, <1>11, <1>13

(* They form a chain: all of them but the last have their parent there, and   *)
(* all but the first their child.                                             *)
LEMMA AboveChain ==
  ASSUME ChainOK, NEW a \in Existing
  PROVE  /\ a \in Above(a)
         /\ \A p \in Above(a) : /\ p \in Existing /\ Rank[p] <= Rank[a]
                                /\ p \in Owners => mApi[p] \in Above(a)
                                /\ p # a => \E q \in Above(a) : q \in Owners /\ mApi[q] = p
<1> DEFINE r == [x \in Existing |-> Rank[x]]
           Good(x) == /\ x \in Above(x)
                      /\ \A p \in Above(x) : /\ p \in Existing /\ Rank[p] <= Rank[x]
                                             /\ p \in Owners => mApi[p] \in Above(x)
                                             /\ p # x => \E q \in Above(x) : q \in Owners /\ mApi[q] = p
           P == {x \in Existing : Good(x)}
<1>1. \A x \in Existing : x \in Apis /\ (x \notin RootApis => x \in Owners /\ mApi[x] # "none") /\ Rank[x] \in Nat
  BY Depths DEF Existing, Apis
<1>2. r \in [Existing -> 0 .. Cardinality(Owners)]
  BY <1>1, Depths
<1>3. \A x \in Existing : r[x] = Rank[x]
  OBVIOUS
<1> HIDE DEF r
<1>4. ASSUME NEW x \in Existing, \A y \in Existing : r[y] < r[x] => y \in P PROVE x \in P
  <2>1. CASE x \in RootApis
    <3>1. Above(x) = {x}
      BY <2>1, AboveUnfolds
    <3>2. x \notin Owners
      BY <2>1, Nesting
    <3> QED BY <1>1, <3>1, <3>2
  <2>2. CASE x \notin RootApis
    <3>1. PICK y \in Existing : y = mApi[x] /\ Rank[y] < Rank[x]
      BY <1>1, <2>2 DEF ChainOK
    <3>2. y \in P
      BY <1>3, <1>4, <3>1
    <3>3. Above(x) = {x} \cup Above(y) /\ x \in Owners
      BY <1>1, <2>2, <3>1, AboveUnfolds
    <3>4. Good(y)
      BY <3>2
    <3> HIDE DEF P
    <3>5. ASSUME NEW p \in Above(x)
          PROVE  /\ p \in Existing /\ Rank[p] <= Rank[x]
                 /\ p \in Owners => mApi[p] \in Above(x)
                 /\ p # x => \E q \in Above(x) : q \in Owners /\ mApi[q] = p
      <4>1. CASE p = x
        BY <1>1, <3>1, <3>3, <3>4, <4>1
      <4>2. CASE p \in Above(y)
        <5>1. p \in Existing /\ Rank[p] <= Rank[y] /\ (p \in Owners => mApi[p] \in Above(y))
          BY <3>4, <4>2
        <5>2. Rank[p] <= Rank[x]
          BY <1>1, <3>1, <5>1
        <5>3. \E q \in Above(x) : q \in Owners /\ mApi[q] = p
          <6>1. CASE p = y
            BY <3>1, <3>3, <6>1
          <6>2. CASE p # y
            BY <3>3, <3>4, <4>2, <6>2
          <6> QED BY <6>1, <6>2
        <5> QED BY <3>3, <5>1, <5>2, <5>3
      <4> QED BY <3>3, <4>1, <4>2
    <3>6. x \in Above(x)
      BY <3>3
    <3>7. Good(x)
      BY <3>5, <3>6
    <3> QED BY <3>7 DEF P
  <2> QED BY <2>1, <2>2
<1>5. \A x \in Existing : x \in P
  <2> HIDE DEF P
  <2> QED BY <1>2, <1>4, Depths, ByRank
<1> QED BY <1>5

(* Lists that grow at their ends. *)
Grows(c, d) ==
  \A a \in Apis : /\ Len(d[a]) \in Nat /\ Len(c[a]) <= Len(d[a])
                  /\ \A k \in 1 .. Len(c[a]) : d[a][k] = c[a][k]
                  /\ c[a] # <<>> => d[a] # <<>>

(* The chain of APIs, without its databases. *)
LEMMA ChainIs == ChainOK => Chain(mApi) /\ Built(mApi) = Existing
  BY DEF ChainOK, Chain, Built, Existing

(* A registration keeps the lists in order, and only adds to them. *)
LEMMA Subscribes ==
  ASSUME ChainOK, Lists(cbs, mApi), NEW a \in Existing
  PROVE  Lists(Subscribed(a), mApi) /\ Grows(cbs, Subscribed(a))
<1> DEFINE E == Owners \cup {"user"}
           U == [x \in Apis |-> {p \in Above(a) \cap Owners : mApi[p] = x /\ cbs[p] = <<>>}]
           w == [x \in Apis |-> IF x = a THEN <<"user">> ELSE SetToSeq(U[x])]
           D == Subscribed(a)
<1>1. \A x \in Apis : \A p : p \in U[x] <=> p \in Above(a) /\ p \in Owners /\ mApi[p] = x /\ cbs[p] = <<>>
  OBVIOUS
<1>2. \A x \in Apis : U[x] \in SUBSET Owners
  OBVIOUS
<1>3. D = [x \in Apis |-> IF x = a THEN Append(cbs[x], "user") ELSE cbs[x] \o SetToSeq(U[x])]
  BY DEF Subscribed
<1>4. Chain(mApi) /\ a \in Apis /\ "user" \notin Owners
  BY ChainIs, Nesting DEF Existing, Apis
<1>5. \A x \in Apis : w[x] = IF x = a THEN <<"user">> ELSE SetToSeq(U[x])
  OBVIOUS
<1> HIDE DEF U, w, D
<1>6. \A x \in Apis : IsFiniteSet(U[x])
  BY <1>2, Nesting, FS_Subset
<1>7. \A x \in Apis : cbs[x] \in Seq(E)
  BY DEF Lists
<1>8. ASSUME NEW x \in Apis
      PROVE  /\ w[x] \in Seq(E) /\ Len(w[x]) \in Nat
             /\ x = a => Len(w[x]) = 1 /\ w[x][1] = "user"
             /\ x # a => /\ \A j, k \in 1 .. Len(w[x]) : w[x][j] = w[x][k] => j = k
                         /\ \A p \in U[x] : \E k \in 1 .. Len(w[x]) : w[x][k] = p
                         /\ \A k \in 1 .. Len(w[x]) : w[x][k] \in U[x]
  <2>1. CASE x = a
    <3>1. w[x] = <<"user">>
      BY <1>5, <2>1
    <3>2. w[x] \in Seq(E) /\ Len(w[x]) = 1 /\ w[x][1] = "user"
      BY <3>1
    <3> QED BY <2>1, <3>2
  <2>2. CASE x # a
    <3>1. w[x] = SetToSeq(U[x])
      BY <1>5, <2>2
    <3>2. /\ w[x] \in Seq(U[x]) /\ Len(w[x]) \in Nat
          /\ \A j, k \in 1 .. Len(w[x]) : w[x][j] = w[x][k] => j = k
          /\ \A p \in U[x] : \E k \in 1 .. Len(w[x]) : w[x][k] = p
      BY <1>6, <3>1, Enumerates
    <3>3. \A k \in 1 .. Len(w[x]) : w[x][k] \in U[x]
      BY <3>2
    <3>4. w[x] \in Seq(E)
      BY <1>2, <3>2
    <3> QED BY <2>2, <3>2, <3>3, <3>4
  <2> QED BY <2>1, <2>2
<1>9. ASSUME NEW x \in Apis
      PROVE  /\ D[x] \in Seq(E) /\ Len(D[x]) = Len(cbs[x]) + Len(w[x]) /\ Len(cbs[x]) \in Nat
             /\ \A k \in 1 .. Len(cbs[x]) : D[x][k] = cbs[x][k]
             /\ \A k \in 1 .. Len(D[x]) : k \notin 1 .. Len(cbs[x]) =>
                  k - Len(cbs[x]) \in 1 .. Len(w[x]) /\ D[x][k] = w[x][k - Len(cbs[x])]
             /\ \A k \in 1 .. Len(w[x]) : Len(cbs[x]) + k \in 1 .. Len(D[x]) /\ D[x][Len(cbs[x]) + k] = w[x][k]
  <2>1. D[x] = cbs[x] \o w[x]
    <3>1. CASE x = a
      <4>1. D[x] = Append(cbs[x], "user") /\ w[x] = <<"user">>
        BY <1>3, <1>5, <3>1
      <4> QED BY <1>7, <4>1, AppendIsConcat
    <3>2. CASE x # a
      BY <1>3, <1>5, <3>2
    <3> QED BY <3>1, <3>2
  <2>2. cbs[x] \in Seq(E) /\ w[x] \in Seq(E)
    BY <1>7, <1>8
  <2> DEFINE s == cbs[x]
             t == w[x]
  <2> HIDE DEF s, t
  <2>3. s \in Seq(E) /\ t \in Seq(E) /\ D[x] = s \o t
    BY <2>1, <2>2 DEF s, t
  <2>4. /\ s \o t \in Seq(E) /\ Len(s \o t) = Len(s) + Len(t)
        /\ \A i \in 1 .. Len(s) + Len(t) : (s \o t)[i] = IF i <= Len(s) THEN s[i] ELSE t[i - Len(s)]
    BY <2>3, ConcatProperties
  <2>5. Len(s) \in Nat /\ Len(t) \in Nat
    BY <2>3
  <2>6. /\ D[x] \in Seq(E) /\ Len(D[x]) = Len(s) + Len(t)
        /\ \A i \in 1 .. Len(s) + Len(t) : D[x][i] = IF i <= Len(s) THEN s[i] ELSE t[i - Len(s)]
    BY <2>3, <2>4
  <2>7. \A k \in 1 .. Len(s) : D[x][k] = s[k]
    BY <2>5, <2>6
  <2>8. \A k \in 1 .. Len(D[x]) : k \notin 1 .. Len(s) => k - Len(s) \in 1 .. Len(t) /\ D[x][k] = t[k - Len(s)]
    BY <2>5, <2>6
  <2>9. \A k \in 1 .. Len(t) : Len(s) + k \in 1 .. Len(D[x]) /\ D[x][Len(s) + k] = t[k]
    <3> SUFFICES ASSUME NEW k \in 1 .. Len(t)
                 PROVE  Len(s) + k \in 1 .. Len(D[x]) /\ D[x][Len(s) + k] = t[k]
      OBVIOUS
    <3>1. Len(s) + k \in 1 .. Len(s) + Len(t) /\ ~(Len(s) + k <= Len(s)) /\ (Len(s) + k) - Len(s) = k
      BY <2>5
    <3> QED BY <2>6, <3>1
  <2> QED BY <2>5, <2>6, <2>7, <2>8, <2>9 DEF s, t
<1>10. D \in [Apis -> Seq(E)]
  <2>1. D = [x \in Apis |-> D[x]]
    BY <1>3
  <2> QED BY <1>9, <2>1
<1>11. \A x \in Apis : D[x] = <<>> <=> cbs[x] = <<>> /\ Len(w[x]) = 0
  <2> SUFFICES ASSUME NEW x \in Apis PROVE D[x] = <<>> <=> cbs[x] = <<>> /\ Len(w[x]) = 0
    OBVIOUS
  <2>1. D[x] \in Seq(E) /\ cbs[x] \in Seq(E)
    BY <1>7, <1>9
  <2>2. (D[x] = <<>> <=> Len(D[x]) = 0) /\ (cbs[x] = <<>> <=> Len(cbs[x]) = 0)
    BY <2>1
  <2>3. Len(D[x]) = Len(cbs[x]) + Len(w[x]) /\ Len(cbs[x]) \in Nat /\ Len(w[x]) \in Nat
    BY <1>8, <1>9
  <2> DEFINE l == Len(cbs[x])
             n == Len(w[x])
  <2> HIDE DEF l, n
  <2>4. Len(D[x]) = l + n /\ l \in Nat /\ n \in Nat /\ (D[x] = <<>> <=> Len(D[x]) = 0) /\ (cbs[x] = <<>> <=> l = 0)
    BY <2>2, <2>3 DEF l, n
  <2>5. D[x] = <<>> <=> cbs[x] = <<>> /\ n = 0
    BY <2>4
  <2> QED BY <2>5 DEF n
<1>12. Grows(cbs, D)
  <2>1. ASSUME NEW x \in Apis PROVE Len(D[x]) \in Nat /\ Len(cbs[x]) <= Len(D[x])
    <3>1. Len(D[x]) = Len(cbs[x]) + Len(w[x]) /\ Len(cbs[x]) \in Nat /\ Len(w[x]) \in Nat
      BY <1>8, <1>9
    <3> DEFINE l == Len(cbs[x])
               n == Len(w[x])
    <3> HIDE DEF l, n
    <3>2. Len(D[x]) = l + n /\ l \in Nat /\ n \in Nat
      BY <3>1 DEF l, n
    <3>3. Len(D[x]) \in Nat /\ l <= Len(D[x])
      BY <3>2
    <3> QED BY <3>3 DEF l
  <2> QED BY <1>9, <1>11, <2>1 DEF Grows
<1>13. \A x \in Apis : Len(w[x]) # 0 => x \in Above(a)
  <2> SUFFICES ASSUME NEW x \in Apis, Len(w[x]) # 0 PROVE x \in Above(a)
    OBVIOUS
  <2>1. CASE x = a
    BY <2>1, AboveChain
  <2>2. CASE x # a
    <3>1. 1 \in 1 .. Len(w[x])
      BY <1>8
    <3>2. w[x][1] \in U[x]
      BY <1>8, <2>2, <3>1
    <3> QED BY <1>1, <3>2, AboveChain
  <2> QED BY <2>1, <2>2
<1>14. \A p \in Above(a) : p \in Existing /\ p \in Apis /\ (p \in Owners => mApi[p] # "none" /\ mApi[p] \in Apis)
  <2>1. \A p \in Above(a) : p \in Existing
    BY AboveChain
  <2>2. \A p \in Existing : p \in Apis /\ (p \in Owners => mApi[p] # "none" /\ mApi[p] \in Apis)
    BY Nesting DEF Existing, Apis, ChainOK
  <2> QED BY <2>1, <2>2
<1>15. \A b \in Owners : D[b] # <<>> => mApi[b] # "none"
  BY <1>11, <1>13, <1>14 DEF Lists, Apis
<1>16. ASSUME NEW p \in Above(a) PROVE D[p] # <<>>
  <2>1. CASE p = a
    BY <1>4, <1>8, <1>11, <2>1
  <2>2. CASE p # a
    <3>1. PICK q \in Above(a) : q \in Owners /\ mApi[q] = p
      BY <2>2, AboveChain
    <3>2. CASE cbs[q] = <<>>
      <4>1. q \in U[p]
        BY <1>1, <1>14, <3>1, <3>2
      <4>2. \E k \in 1 .. Len(w[p]) : w[p][k] = q
        BY <1>8, <1>14, <2>2, <4>1
      <4> QED BY <1>11, <1>14, <4>2
    <3>3. CASE cbs[q] # <<>>
      <4>1. \E k \in 1 .. Len(cbs[p]) : cbs[p][k] = q
        BY <3>1, <3>3 DEF Lists
      <4>2. cbs[p] # <<>>
        BY <4>1
      <4> QED BY <1>11, <1>14, <4>2
    <3> QED BY <3>2, <3>3
  <2> QED BY <2>1, <2>2
<1>17. ASSUME NEW x \in Apis, NEW k \in 1 .. Len(D[x]), D[x][k] # "user"
       PROVE  /\ mApi[D[x][k]] = x /\ D[D[x][k]] # <<>> /\ D[x][k] \in Owners
              /\ k \notin 1 .. Len(cbs[x]) => cbs[D[x][k]] = <<>> /\ x # a
              /\ k \in 1 .. Len(cbs[x]) => cbs[D[x][k]] # <<>>
  <2>1. CASE k \in 1 .. Len(cbs[x])
    <3>1. D[x][k] = cbs[x][k]
      BY <1>9, <2>1
    <3>2. cbs[x][k] \in Owners /\ mApi[cbs[x][k]] = x /\ cbs[cbs[x][k]] # <<>>
      BY <1>4, <1>17, <2>1, <3>1, ListFacts
    <3>3. cbs[x][k] \in Apis
      BY <3>2 DEF Apis
    <3> QED BY <1>11, <2>1, <3>1, <3>2, <3>3
  <2>2. CASE k \notin 1 .. Len(cbs[x])
    <3>1. k - Len(cbs[x]) \in 1 .. Len(w[x]) /\ D[x][k] = w[x][k - Len(cbs[x])]
      BY <1>9, <2>2
    <3>2. x # a
      BY <1>8, <1>17, <3>1
    <3>3. D[x][k] \in U[x]
      BY <1>8, <3>1, <3>2
    <3> QED BY <1>1, <1>16, <2>2, <3>2, <3>3
  <2> QED BY <2>1, <2>2
<1>18. ASSUME NEW x \in Apis, NEW j \in 1 .. Len(D[x]), NEW k \in 1 .. Len(D[x]), D[x][j] = D[x][k], D[x][j] # "user"
       PROVE  j = k
  <2>1. CASE j \in 1 .. Len(cbs[x])
    <3>1. k \in 1 .. Len(cbs[x])
      BY <1>17, <1>18, <2>1
    <3>2. cbs[x][j] = cbs[x][k] /\ cbs[x][j] # "user"
      BY <1>9, <1>18, <2>1, <3>1
    <3>3. \A i, l \in 1 .. Len(cbs[x]) : cbs[x][i] = cbs[x][l] /\ cbs[x][i] # "user" => i = l
      BY DEF Lists
    <3> QED BY <2>1, <3>1, <3>2, <3>3
  <2>2. CASE j \notin 1 .. Len(cbs[x])
    <3>1. k \notin 1 .. Len(cbs[x]) /\ x # a
      BY <1>17, <1>18, <2>2
    <3> DEFINE n == Len(cbs[x])
    <3>2. /\ j - n \in 1 .. Len(w[x]) /\ D[x][j] = w[x][j - n]
          /\ k - n \in 1 .. Len(w[x]) /\ D[x][k] = w[x][k - n]
      BY <1>9, <2>2, <3>1
    <3>3. j - n = k - n
      <4>1. \A i, l \in 1 .. Len(w[x]) : w[x][i] = w[x][l] => i = l
        BY <1>8, <3>1
      <4> HIDE DEF n
      <4> QED BY <1>18, <3>2, <4>1
    <3>4. n \in Nat /\ j \in Int /\ k \in Int
      BY <1>9
    <3> HIDE DEF n
    <3> QED BY <3>3, <3>4
  <2> QED BY <2>1, <2>2
<1>19. ASSUME NEW p \in Owners, D[p] # <<>> PROVE \E k \in 1 .. Len(D[mApi[p]]) : D[mApi[p]][k] = p
  <2>1. p \in Apis /\ mApi[p] # "none" /\ mApi[p] \in Apis /\ Rank[mApi[p]] < Rank[p]
    BY <1>15, <1>19 DEF ChainOK, Apis
  <2>2. CASE cbs[p] # <<>>
    <3>1. PICK k \in 1 .. Len(cbs[mApi[p]]) : cbs[mApi[p]][k] = p
      BY <2>2 DEF Lists
    <3>2. D[mApi[p]][k] = p /\ k \in 1 .. Len(D[mApi[p]])
      <4>1. D[mApi[p]][k] = cbs[mApi[p]][k]
        BY <1>9, <2>1, <3>1
      <4>2. Len(D[mApi[p]]) \in Nat /\ Len(cbs[mApi[p]]) <= Len(D[mApi[p]]) /\ Len(cbs[mApi[p]]) \in Nat
        BY <1>9, <1>12, <2>1 DEF Grows
      <4> QED BY <3>1, <4>1, <4>2
    <3> QED BY <3>2
  <2>3. CASE cbs[p] = <<>>
    <3>1. p \in Above(a)
      BY <1>11, <1>13, <1>19, <2>1, <2>3
    <3>2. mApi[p] # a
      <4>1. Rank[p] <= Rank[a]
        BY <3>1, AboveChain
      <4>2. Rank[p] \in Nat /\ Rank[a] \in Nat
        BY <1>4, <2>1, Depths
      <4> QED BY <2>1, <4>1, <4>2
    <3>3. p \in U[mApi[p]]
      BY <1>1, <2>1, <2>3, <3>1
    <3>4. PICK k \in 1 .. Len(w[mApi[p]]) : w[mApi[p]][k] = p
      BY <1>8, <2>1, <3>2, <3>3
    <3>5. PICK y \in Apis : y = mApi[p]
      BY <2>1
    <3>6. Len(cbs[y]) + k \in 1 .. Len(D[y]) /\ D[y][Len(cbs[y]) + k] = w[y][k]
      BY <1>9, <3>4, <3>5
    <3> QED BY <3>4, <3>5, <3>6
  <2> QED BY <2>2, <2>3
<1>20. Lists(D, mApi)
  BY <1>10, <1>15, <1>17, <1>18, <1>19 DEF Lists
<1> QED BY <1>12, <1>20 DEF D
-----------------------------------------------------------------------------
(* A notification of the plugin starts with all APIs ahead. *)
LEMMA WalkStarts ==
  ASSUME NEW c, NEW m, Lists(c, m), Chain(m), NEW P, P = <<>>, NEW T, T = {a \in RootApis : c[a] # <<>>},
         NEW O \in SUBSET (Apis \X Nat), \A e \in O : e[2] \in 1 .. Len(c[e[1]]) /\ c[e[1]][e[2]] = "user"
  PROVE  Walk(P, FALSE, {}, O, T, c, m)
<1>1. P \in Seq(Place) /\ Len(P) = 0
  OBVIOUS
<1>2. Pieces(P, FALSE, {}, O, T)
  BY <1>1 DEF Pieces
<1>3. PathOK(P, FALSE, {}, T, c)
  BY <1>1 DEF PathOK
<1>4. Behind(P, FALSE, {}, T, {}, c, m)
  BY <1>1 DEF Behind
<1> DEFINE A == {a \in Apis : c[a] # <<>>}
<1>5. A \in SUBSET Built(m)
  BY DEF Lists, Built, Apis
<1>6. ASSUME NEW a \in A \cap Owners PROVE m[a] \in A
  <2>1. m[a] # "none"
    BY DEF Lists
  <2>2. m[a] \in Apis
    BY <2>1 DEF Chain, Built, Apis
  <2>3. \E k \in 1 .. Len(c[m[a]]) : c[m[a]][k] = a
    BY DEF Lists
  <2>4. c[m[a]] # <<>>
    BY <2>3
  <2> QED BY <2>2, <2>4
<1>7. ASSUME NEW e \in O PROVE e[1] \in A
  <2>1. e[1] \in Apis /\ e[2] \in 1 .. Len(c[e[1]])
    OBVIOUS
  <2>2. c[e[1]] # <<>>
    BY <2>1
  <2> QED BY <2>1, <2>2
<1>8. A \cap RootApis \subseteq T /\ \A a \in A : c[a] # <<>>
  OBVIOUS
<1> HIDE DEF A
<1>9. Ahead(P, {}, O, T, A, c, m)
  BY <1>1, <1>6, <1>7, <1>8 DEF Ahead
<1> QED BY <1>2, <1>3, <1>4, <1>5, <1>9 DEF Walk

(* One of a private database starts in the list of its API, with the APIs     *)
(* below ahead.                                                               *)
LEMMA WalkStartsBelow ==
  ASSUME ChainOK, Lists(cbs, mApi), NEW sc \in Owners, cbs[sc] # <<>>,
         NEW P \in Seq(Place), Len(P) = 1, P[1].api = sc, P[1].at = 1,
         NEW O \in SUBSET (Apis \X Nat),
         \A e \in O : e[2] \in 1 .. Len(cbs[e[1]]) /\ cbs[e[1]][e[2]] = "user" /\ sc \in Above(e[1])
  PROVE  Walk(P, FALSE, {}, O, {}, cbs, mApi)
<1>1. P # <<>> /\ Chain(mApi) /\ Built(mApi) = Existing /\ sc \in Apis /\ sc \notin RootApis
  <2>1. P # <<>>
    <3>1. P = <<>> <=> Len(P) = 0
      BY Places
    <3> QED BY <3>1
  <2>2. Chain(mApi) /\ Built(mApi) = Existing
    BY ChainIs
  <2>3. sc \in Apis /\ sc \notin RootApis
    BY Nesting DEF Apis
  <2> QED BY <2>1, <2>2, <2>3
<1>2. Len(cbs[sc]) \in Nat
  BY <1>1, ListFacts
<1>3. Pieces(P, FALSE, {}, O, {})
  BY DEF Pieces
<1>4. PathOK(P, FALSE, {}, {}, cbs)
  BY <1>1, <1>2 DEF PathOK
<1>5. sc \in Existing
  BY DEF Lists, Existing
<1>6. Behind(P, FALSE, {}, {}, {}, cbs, mApi)
  BY <1>1, <1>5 DEF Behind
<1> DEFINE A == {a \in Existing : cbs[a] # <<>> /\ a # sc /\ sc \in Above(a)}
<1>7. ASSUME NEW e \in O PROVE e[1] \in A \/ (e[1] = sc /\ 1 <= e[2])
  <2>1. e[1] \in Apis /\ e[2] \in 1 .. Len(cbs[e[1]]) /\ e[2] \in Nat
    OBVIOUS
  <2>2. cbs[e[1]] # <<>>
    BY <2>1
  <2>3. e[1] \in Existing
    BY <2>1, <2>2 DEF Lists, Existing, Apis
  <2>4. Len(cbs[e[1]]) \in Nat
    BY <1>1, <2>1, ListFacts
  <2>5. 1 <= e[2]
    BY <2>1, <2>4
  <2> QED BY <2>2, <2>3, <2>5
<1>8. \A k \in 1 .. Len(P) : P[k].api \notin A
  OBVIOUS
<1>9. A \cap RootApis = {}
  BY <1>1, AboveUnfolds
<1>10. ASSUME NEW a \in A \cap Owners
       PROVE  mApi[a] \in A \/ \E k, j \in Nat : Listed(P, cbs, mApi, a, k, j) /\ P[k].at <= j
  <2>1. mApi[a] # "none" /\ mApi[a] \in Existing
    BY DEF Lists, ChainOK
  <2>2. PICK j \in 1 .. Len(cbs[mApi[a]]) : cbs[mApi[a]][j] = a
    BY DEF Lists
  <2>3. mApi[a] \in Apis
    BY <2>1 DEF Existing, Apis
  <2>4. Len(cbs[mApi[a]]) \in Nat /\ cbs[mApi[a]] # <<>>
    BY <1>1, <2>2, <2>3, ListFacts
  <2>5. sc \in Above(mApi[a])
    BY AboveUnfolds, Nesting
  <2>6. CASE mApi[a] = sc
    <3>1. j \in Nat /\ 1 <= j
      BY <2>2, <2>4
    <3>2. Listed(P, cbs, mApi, a, 1, j) /\ P[1].at <= j
      BY <2>2, <2>6, <3>1 DEF Listed
    <3> QED BY <3>1, <3>2
  <2> QED BY <2>1, <2>4, <2>5, <2>6
<1>11. A \in SUBSET Built(mApi) /\ \A a \in A : cbs[a] # <<>>
  BY <1>1
<1> HIDE DEF A
<1>12. Ahead(P, {}, O, {}, A, cbs, mApi)
  <2>1. \A e \in O : e[1] \in A \/ \E k \in 1 .. Len(P) : P[k].api = e[1] /\ P[k].at <= e[2]
    BY <1>7
  <2> QED BY <1>8, <1>9, <1>10, <1>11, <2>1 DEF Ahead
<1> QED BY <1>3, <1>4, <1>6, <1>11, <1>12 DEF Walk

(* A walk that has come to its end has told everybody. *)
LEMMA WalkEnds ==
  ASSUME NEW c, NEW m, Chain(m), NEW u, NEW H, NEW O, NEW P, P = <<>>, NEW T, T = {}, Walk(P, u, H, O, T, c, m)
  PROVE  O \subseteq H
<1>1. Len(P) = 0
  OBVIOUS
<1>2. PICK A \in SUBSET Built(m) : Ahead(P, H, O, T, A, c, m)
  BY DEF Walk
<1> DEFINE S == Apis \ A
<1>3. ASSUME NEW x \in Apis, \A y \in Apis : Rank[y] < Rank[x] => y \in S PROVE x \in S
  <2> SUFFICES ASSUME x \in A PROVE FALSE
    OBVIOUS
  <2>1. x \in Owners
    BY <1>2 DEF Ahead, Apis
  <2>2. m[x] \in A
    BY <1>1, <1>2, <2>1 DEF Ahead, Listed
  <2>3. m[x] # "none"
    BY <2>1, Nesting DEF Built
  <2>4. m[x] \in Apis /\ Rank[m[x]] < Rank[x]
    BY <2>1, <2>3 DEF Chain, Built, Apis
  <2> QED BY <1>3, <2>2, <2>4
<1>4. \A x \in Apis : x \in S
  <2> HIDE DEF S
  <2> QED BY <1>3, Depths, ByRank
<1>5. \A e \in O \ H : e[1] \in A
  BY <1>1, <1>2 DEF Ahead
<1>6. \A e \in O : e[1] \in Apis
  BY DEF Walk, Pieces
<1> QED BY <1>4, <1>5, <1>6
-----------------------------------------------------------------------------
(* The notifications in progress. *)
Note == [obj : Objs \cup {"none"}, user : BOOLEAN, heard : SUBSET (Apis \X Nat), twice : BOOLEAN,
         owed : SUBSET (Apis \X Nat), todo : SUBSET RootApis, path : Seq(Place)]

NoteOK(x, c, m) == x \in Note /\ ~x.twice /\ Walk(x.path, x.user, x.heard, x.owed, x.todo, c, m)

Notes(st, c, m) == st \in Seq(Note) /\ \A i \in 1 .. Len(st) : NoteOK(st[i], c, m)

(* Notifications begin, go on and end at the end of the stack. *)
LEMMA NotesPush ==
  ASSUME NEW st, NEW c, NEW m, Notes(st, c, m), NEW y, NoteOK(y, c, m)
  PROVE  Notes(Append(st, y), c, m)
<1>1. st \in Seq(Note) /\ y \in Note
  BY DEF Notes, NoteOK
<1>2. /\ Append(st, y) \in Seq(Note) /\ Len(Append(st, y)) = Len(st) + 1 /\ Len(st) \in Nat
      /\ \A i \in 1 .. Len(st) : Append(st, y)[i] = st[i]
      /\ Append(st, y)[Len(st) + 1] = y
  BY <1>1, AppendProperties
<1>3. \A i \in 1 .. Len(st) + 1 : i \in 1 .. Len(st) \/ i = Len(st) + 1
  BY <1>2
<1> HIDE DEF Note
<1>4. \A i \in 1 .. Len(st) + 1 : NoteOK(Append(st, y)[i], c, m)
  BY <1>2, <1>3 DEF Notes
<1> QED BY <1>2, <1>4 DEF Notes

(* The last one ends. *)
LEMMA NotesPop ==
  ASSUME NEW st, NEW c, NEW m, Notes(st, c, m), st # <<>>
  PROVE  Notes(Front(st), c, m) /\ NoteOK(st[Len(st)], c, m)
<1>1. st \in Seq(Note) /\ Len(st) \in Nat /\ Len(st) # 0
  <2> HIDE DEF Note
  <2> QED BY DEF Notes
<1>2. /\ Front(st) \in Seq(Note) /\ Len(Front(st)) = Len(st) - 1
      /\ \A i \in 1 .. Len(st) - 1 : Front(st)[i] = st[i]
  <2> HIDE DEF Note
  <2>1. \A i \in 1 .. Len(st) - 1 : st[i] \in Note
    BY <1>1
  <2>2. Len(st) - 1 \in Int /\ 1 \in Int
    BY <1>1
  <2>3. /\ SubSeq(st, 1, Len(st) - 1) \in Seq(Note)
        /\ Len(SubSeq(st, 1, Len(st) - 1)) = IF 1 <= Len(st) - 1 THEN (Len(st) - 1) - 1 + 1 ELSE 0
        /\ \A i \in 1 .. (Len(st) - 1) - 1 + 1 : SubSeq(st, 1, Len(st) - 1)[i] = st[1 + i - 1]
    BY <2>1, <2>2, SubSeqProperties
  <2> DEFINE t == SubSeq(st, 1, Len(st) - 1)
             l == Len(st)
  <2>4. t \in Seq(Note) /\ Len(t) = (IF 1 <= l - 1 THEN (l - 1) - 1 + 1 ELSE 0)
        /\ (\A i \in 1 .. (l - 1) - 1 + 1 : t[i] = st[1 + i - 1]) /\ l \in Nat /\ l # 0
    BY <1>1, <2>3
  <2>5. Front(st) = t
    BY DEF Front
  <2> HIDE DEF t, l
  <2>6. Len(t) = l - 1 /\ \A i \in 1 .. l - 1 : t[i] = st[i]
    BY <2>4
  <2> QED BY <2>4, <2>5, <2>6 DEF l
<1>3. Len(st) \in 1 .. Len(st) /\ \A i \in 1 .. Len(st) - 1 : i \in 1 .. Len(st)
  BY <1>1
<1> QED BY <1>2, <1>3 DEF Notes

(* Notifications are not disturbed when lists grow and APIs are added. *)
LEMMA NotesStay ==
  ASSUME NEW st, NEW c, NEW m, NEW d, NEW n, Lists(c, m), Chain(m), Notes(st, c, m),
         Grows(c, d), \A a \in Owners : m[a] # "none" => n[a] = m[a]
  PROVE  Notes(st, d, n)
<1> SUFFICES ASSUME NEW i \in 1 .. Len(st) PROVE NoteOK(st[i], d, n)
  BY DEF Notes
<1> DEFINE x == st[i]
<1>1. x \in Note /\ ~x.twice /\ Walk(x.path, x.user, x.heard, x.owed, x.todo, c, m)
  BY DEF Notes, NoteOK
<1> HIDE DEF x
<1>2. Walk(x.path, x.user, x.heard, x.owed, x.todo, d, n)
  BY <1>1, WalkStays DEF Grows
<1> QED BY <1>1, <1>2 DEF NoteOK, x
-----------------------------------------------------------------------------
(* The way down, one entry further. *)
LEMMA Advances ==
  ASSUME NEW P \in Seq(Place), P # <<>>
  PROVE  /\ Advance(P) \in Seq(Place) /\ Len(Advance(P)) = Len(P)
         /\ \A k \in 1 .. Len(P) : /\ Advance(P)[k].api = P[k].api
                                   /\ Advance(P)[k].at = IF k = Len(P) THEN P[k].at + 1 ELSE P[k].at
<1> DEFINE l == Len(P)
           y == [P[l] EXCEPT !.at = @ + 1]
           Q == [P EXCEPT ![l] = y]
<1>1. l \in Nat /\ l # 0 /\ l \in 1 .. l /\ P[l] \in Place /\ P \in [1 .. l -> Place]
  BY Places, LenProperties
<1>2. y \in Place /\ y.api = P[l].api /\ y.at = P[l].at + 1
  <2> DEFINE x == P[l]
  <2>1. x \in Place
    BY <1>1
  <2> HIDE DEF x
  <2>2. LET z == [x EXCEPT !.at = @ + 1] IN z \in Place /\ z.api = x.api /\ z.at = x.at + 1
    BY <2>1 DEF Place
  <2> QED BY <2>2 DEF x
<1>3. Advance(P) = Q
  BY DEF Advance
<1> HIDE DEF y, l, Place
<1>4. Q \in [1 .. l -> Place] /\ Q[l] = y /\ \A k \in 1 .. l : k # l => Q[k] = P[k]
  BY <1>1, <1>2
<1>5. Q \in Seq(Place) /\ Len(Q) = l
  BY <1>1, <1>4
<1> HIDE DEF Q
<1>6. \A k \in 1 .. l : Q[k].api = P[k].api /\ Q[k].at = IF k = l THEN P[k].at + 1 ELSE P[k].at
  BY <1>2, <1>4
<1> QED BY <1>3, <1>5, <1>6 DEF l

(* The way back out of a list. *)
LEMMA Returns ==
  ASSUME NEW P \in Seq(Place), P # <<>>, NEW Q, Q = Advance(Front(P))
  PROVE  /\ Q \in Seq(Place) /\ Len(Q) = Len(P) - 1
         /\ \A k \in 1 .. Len(Q) : /\ Q[k].api = P[k].api
                                   /\ Q[k].at = IF k = Len(Q) THEN P[k].at + 1 ELSE P[k].at
<1> DEFINE l == Len(P)
           R == SubSeq(P, 1, l - 1)
<1>1. l \in Nat /\ l # 0 /\ \A i \in 1 .. l : P[i] \in Place
  BY Places
<1>2. /\ R \in Seq(Place) /\ Len(R) = IF 1 <= l - 1 THEN (l - 1) - 1 + 1 ELSE 0
      /\ \A i \in 1 .. (l - 1) - 1 + 1 : R[i] = P[1 + i - 1]
  <2> HIDE DEF l
  <2>1. \A i \in 1 .. l - 1 : P[i] \in Place
    BY <1>1
  <2>2. l - 1 \in Int /\ 1 \in Int
    BY <1>1
  <2> QED BY <2>1, <2>2, SubSeqProperties
<1>3. Front(P) = R
  BY DEF Front
<1> HIDE DEF R, l
<1>4. Len(R) = l - 1 /\ \A i \in 1 .. l - 1 : R[i] = P[i]
  BY <1>1, <1>2
<1>5. CASE R = <<>>
  <2>1. Q = R /\ Len(R) = 0
    BY <1>3, <1>5 DEF Advance
  <2>2. Q \in Seq(Place) /\ Len(Q) = l - 1 /\ ~(\E k \in 1 .. Len(Q) : TRUE)
    BY <1>1, <1>2, <1>4, <2>1
  <2> QED BY <2>2 DEF l
<1>6. CASE R # <<>>
  <2>1. /\ Q \in Seq(Place) /\ Len(Q) = Len(R)
        /\ \A k \in 1 .. Len(R) : Q[k].api = R[k].api /\ Q[k].at = IF k = Len(R) THEN R[k].at + 1 ELSE R[k].at
    BY <1>2, <1>3, <1>6, Advances
  <2>2. \A k \in 1 .. Len(Q) : Q[k].api = P[k].api /\ Q[k].at = IF k = Len(Q) THEN P[k].at + 1 ELSE P[k].at
    BY <1>4, <2>1
  <2> QED BY <1>4, <2>1, <2>2 DEF l
<1> QED BY <1>5, <1>6

(* The innermost notification goes on. *)
LEMMA NoteMoves ==
  ASSUME Notes(stack, cbs, mApi), stack # <<>>, NEW y, SetTop(y), NoteOK(y, cbs, mApi)
  PROVE  Notes(stack', cbs, mApi)
<1>1. Notes(Front(stack), cbs, mApi)
  BY NotesPop
<1> QED BY <1>1, NotesPush DEF SetTop

(* What is known of it. *)
LEMMA TopNote ==
  ASSUME Notes(stack, cbs, mApi), stack # <<>>
  PROVE  /\ Top \in Note /\ ~Top.twice /\ Top.path \in Seq(Place)
         /\ Walk(Top.path, Top.user, Top.heard, Top.owed, Top.todo, cbs, mApi)
<1>1. NoteOK(Top, cbs, mApi)
  BY NotesPop DEF Top, Last
<1>2. Top \in Note => Top.path \in Seq(Place)
  BY DEF Note
<1> QED BY <1>1, <1>2 DEF NoteOK

(* The core hands the notification to the next API. *)
LEMMA NotifyApiKeeps ==
  ASSUME ChainOK, Lists(cbs, mApi), Notes(stack, cbs, mApi), NEW a \in RootApis, NotifyApi(a)
  PROVE  Notes(stack', cbs, mApi)
<1> DEFINE x == Top
           p == [api |-> a, at |-> 1]
           Q == <<p>>
           S == x.todo \ {a}
           y == [x EXCEPT !.todo = S, !.path = Q]
<1>1. stack # <<>> /\ x.path = <<>> /\ a \in x.todo /\ SetTop(y)
  BY DEF NotifyApi
<1>2. x \in Note /\ ~x.twice /\ Walk(x.path, x.user, x.heard, x.owed, x.todo, cbs, mApi)
  BY <1>1, TopNote
<1>3. p \in Place /\ p.api = a /\ p.at = 1
  BY DEF Place, Apis
<1> HIDE DEF p, Place
<1>4. Q \in Seq(Place) /\ Len(Q) = 1 /\ Q[1] = p
  BY <1>3
<1> HIDE DEF Q, x
<1>5. S \in SUBSET RootApis
  BY <1>2 DEF Note
<1>6. Walk(Q, x.user, x.heard, x.owed, S, cbs, mApi)
  BY <1>1, <1>2, <1>3, <1>4, WalkEnters, ChainIs
<1> HIDE DEF S
<1>7. /\ y \in Note /\ y.twice = x.twice /\ y.path = Q /\ y.user = x.user
      /\ y.heard = x.heard /\ y.owed = x.owed /\ y.todo = S
  BY <1>2, <1>4, <1>5 DEF Note
<1> HIDE DEF y, Note
<1>8. NoteOK(y, cbs, mApi)
  BY <1>2, <1>6, <1>7 DEF NoteOK
<1> QED BY <1>1, <1>8, NoteMoves

(* A user returns. *)
LEMMA UserReturnsKeeps ==
  ASSUME ChainOK, Lists(cbs, mApi), Notes(stack, cbs, mApi), UserReturns
  PROVE  Notes(stack', cbs, mApi)
<1> DEFINE x == Top
           Q == Advance(x.path)
           y == [x EXCEPT !.user = FALSE, !.path = Q]
<1>1. stack # <<>> /\ x.user /\ SetTop(y)
  BY DEF UserReturns
<1>2. /\ x \in Note /\ ~x.twice /\ x.path \in Seq(Place)
      /\ Walk(x.path, x.user, x.heard, x.owed, x.todo, cbs, mApi)
  BY <1>1, TopNote
<1> HIDE DEF x
<1>3. x.path # <<>>
  BY <1>1, <1>2 DEF Walk, PathOK
<1>4. /\ Q \in Seq(Place) /\ Len(Q) = Len(x.path)
      /\ \A k \in 1 .. Len(x.path) : /\ Q[k].api = x.path[k].api
                                     /\ Q[k].at = IF k = Len(x.path) THEN x.path[k].at + 1 ELSE x.path[k].at
  BY <1>2, <1>3, Advances
<1> HIDE DEF Q
<1>5. Walk(Q, FALSE, x.heard, x.owed, x.todo, cbs, mApi)
  BY <1>1, <1>2, <1>4, WalkGoesOn, ChainIs
<1>6. /\ y \in Note /\ y.twice = x.twice /\ y.path = Q /\ y.user = FALSE
      /\ y.heard = x.heard /\ y.owed = x.owed /\ y.todo = x.todo
  BY <1>2, <1>4 DEF Note
<1> HIDE DEF y, Note
<1>7. NoteOK(y, cbs, mApi)
  BY <1>2, <1>5, <1>6 DEF NoteOK
<1> QED BY <1>1, <1>7, NoteMoves

(* A list is gone through: it ends, or goes down, or calls a user. *)
LEMMA MakeCallbacksKeeps ==
  ASSUME ChainOK, Lists(cbs, mApi), Notes(stack, cbs, mApi), MakeCallbacks
  PROVE  Notes(stack', cbs, mApi)
<1> DEFINE x == Top
           P == x.path
           f == P[Len(P)]
           me == Here(P)
           B == Advance(Front(P))
           p == [api |-> cbs[f.api][f.at], at |-> 1]
           D == Append(P, p)
           G == Told(x.heard, P)
           t == x.twice \/ me \in x.heard
<1>1. /\ stack # <<>> /\ ~x.user /\ P # <<>>
      /\ IF f.at > Len(cbs[f.api]) THEN SetTop([x EXCEPT !.path = B])
         ELSE IF cbs[f.api][f.at] # "user" THEN SetTop([x EXCEPT !.path = D])
         ELSE SetTop([x EXCEPT !.user = TRUE, !.heard = G, !.twice = t])
  BY DEF MakeCallbacks, Last, Told, Here
<1>2. /\ x \in Note /\ ~x.twice /\ P \in Seq(Place)
      /\ Walk(P, x.user, x.heard, x.owed, x.todo, cbs, mApi) /\ Chain(mApi)
  BY <1>1, TopNote, ChainIs
<1> HIDE DEF x
<1>3. /\ Len(P) \in Nat /\ Len(P) # 0 /\ f.api \in Apis /\ f.at \in Nat /\ 1 <= f.at
      /\ \A k \in 1 .. Len(P) : P[k] \in Place
  BY <1>1, <1>2, Places
<1>4. Len(cbs[f.api]) \in Nat
  BY <1>2, <1>3, ListFacts
<1>5. f.at > Len(cbs[f.api]) <=> ~(f.at <= Len(cbs[f.api]))
  BY <1>3, <1>4
<1>6. CASE ~(f.at <= Len(cbs[f.api]))
  <2> DEFINE y == [x EXCEPT !.path = B]
  <2>1. SetTop(y)
    BY <1>1, <1>5, <1>6
  <2>2. /\ B \in Seq(Place) /\ Len(B) = Len(P) - 1
        /\ \A k \in 1 .. Len(B) : B[k].api = P[k].api /\ B[k].at = IF k = Len(B) THEN P[k].at + 1 ELSE P[k].at
    BY <1>1, <1>2, Returns
  <2> HIDE DEF B
  <2>3. Walk(B, x.user, x.heard, x.owed, x.todo, cbs, mApi)
    <3> HIDE DEF P
    <3> QED BY <1>1, <1>2, <1>6, <2>2, WalkPops
  <2>4. /\ y \in Note /\ y.twice = x.twice /\ y.path = B /\ y.user = x.user
        /\ y.heard = x.heard /\ y.owed = x.owed /\ y.todo = x.todo
    BY <1>2, <2>2 DEF Note
  <2> HIDE DEF y, Note
  <2>5. NoteOK(y, cbs, mApi)
    BY <1>2, <2>3, <2>4 DEF NoteOK
  <2> QED BY <1>1, <2>1, <2>5, NoteMoves
<1>7. CASE f.at <= Len(cbs[f.api]) /\ cbs[f.api][f.at] # "user"
  <2> DEFINE y == [x EXCEPT !.path = D]
             q == cbs[f.api][f.at]
  <2>1. SetTop(y)
    BY <1>1, <1>5, <1>7
  <2>2. q \in Apis
    <3>1. f.at \in 1 .. Len(cbs[f.api])
      BY <1>3, <1>4, <1>7
    <3>2. q \in Owners
      <4> HIDE DEF f
      <4> QED BY <1>2, <1>3, <1>7, <3>1, ListFacts
    <3> QED BY <3>2 DEF Apis
  <2>3. p \in Place /\ p.api = q /\ p.at = 1
    <3> HIDE DEF q
    <3>1. LET z == [api |-> q, at |-> 1] IN z \in Place /\ z.api = q /\ z.at = 1
      BY <2>2 DEF Place
    <3> QED BY <3>1 DEF q
  <2> HIDE DEF p, Place
  <2>4. D \in Seq(Place) /\ Len(D) = Len(P) + 1 /\ (\A k \in 1 .. Len(P) : D[k] = P[k]) /\ D[Len(P) + 1] = p
    BY <1>2, <2>3, AppendProperties
  <2> HIDE DEF D
  <2>5. Walk(D, x.user, x.heard, x.owed, x.todo, cbs, mApi)
    <3>1. D[Len(P) + 1].api = q /\ D[Len(P) + 1].at = 1
      BY <2>3, <2>4
    <3> HIDE DEF P
    <3> QED BY <1>1, <1>2, <1>7, <2>4, <3>1, WalkPushes
  <2>6. /\ y \in Note /\ y.twice = x.twice /\ y.path = D /\ y.user = x.user
        /\ y.heard = x.heard /\ y.owed = x.owed /\ y.todo = x.todo
    BY <1>2, <2>4 DEF Note
  <2> HIDE DEF y, Note
  <2>7. NoteOK(y, cbs, mApi)
    BY <1>2, <2>5, <2>6 DEF NoteOK
  <2> QED BY <1>1, <2>1, <2>7, NoteMoves
<1>8. CASE f.at <= Len(cbs[f.api]) /\ cbs[f.api][f.at] = "user"
  <2> DEFINE y == [x EXCEPT !.user = TRUE, !.heard = G, !.twice = t]
  <2>1. SetTop(y)
    BY <1>1, <1>5, <1>8
  <2>2. Walk(P, TRUE, G, x.owed, x.todo, cbs, mApi) /\ me \notin x.heard
    <3>1. x.user = FALSE
      BY <1>1, <1>2 DEF Note
    <3>2. Walk(P, FALSE, x.heard, x.owed, x.todo, cbs, mApi) /\ AtUser(P, cbs)
      BY <1>2, <1>8, <3>1 DEF AtUser
    <3> HIDE DEF P
    <3> QED BY <1>1, <1>2, <3>2, WalkCalls
  <2>3. G \in SUBSET (Apis \X Nat)
    BY <2>2 DEF Walk, Pieces
  <2>4. t = FALSE
    BY <1>2, <2>2
  <2> HIDE DEF t, G
  <2>5. /\ y \in Note /\ y.twice = FALSE /\ y.path = P /\ y.user = TRUE
        /\ y.heard = G /\ y.owed = x.owed /\ y.todo = x.todo
    <3> HIDE DEF f, P
    <3> QED BY <1>2, <2>3, <2>4 DEF Note, P
  <2> HIDE DEF y, Note
  <2>6. NoteOK(y, cbs, mApi)
    BY <1>2, <2>2, <2>5 DEF NoteOK
  <2> QED BY <1>1, <2>1, <2>6, NoteMoves
<1> QED BY <1>6, <1>7, <1>8

(* A new parameter is made known. *)
LEMMA PublishKeeps ==
  ASSUME ChainOK, Lists(cbs, mApi), Notes(stack, cbs, mApi), NEW sc \in Scopes, NEW o \in Objs \cup {"none"}, Publish(sc, o)
  PROVE  Notes(stack', cbs, mApi)
<1> DEFINE root == sc = "root"
           O == {e \in Registered : root \/ sc \in Above(e[1])}
           T == IF root THEN Observers(RootApis) ELSE {}
           p == [api |-> sc, at |-> 1]
           P == IF root THEN <<>> ELSE <<p>>
           y == [obj |-> o, user |-> FALSE, heard |-> {}, twice |-> FALSE, owed |-> O, todo |-> T, path |-> P]
<1>1. \/ stack' = stack
      \/ Observers(IF root THEN RootApis ELSE {sc}) # {} /\ stack' = Append(stack, y)
  BY DEF Publish
<1>2. CASE stack' = stack
  BY <1>2
<1>3. CASE Observers(IF root THEN RootApis ELSE {sc}) # {} /\ stack' = Append(stack, y)
  <2>1. \A a \in Apis : DOMAIN cbs[a] = 1 .. Len(cbs[a]) /\ Len(cbs[a]) \in Nat
    BY LenProperties DEF Lists
  <2>2. ASSUME NEW e \in Registered
        PROVE  e \in Apis \X Nat /\ e[2] \in 1 .. Len(cbs[e[1]]) /\ cbs[e[1]][e[2]] = "user"
    <3>1. PICK a \in Apis : e \in {a} \X DOMAIN cbs[a]
      BY DEF Registered, Callbacks
    <3>2. e = <<e[1], e[2]>> /\ e[1] = a /\ e[2] \in 1 .. Len(cbs[a]) /\ e[2] \in Nat
      BY <2>1, <3>1
    <3> QED BY <3>2 DEF Registered
  <2>3. O \in SUBSET (Apis \X Nat) /\ \A e \in O : e[2] \in 1 .. Len(cbs[e[1]]) /\ cbs[e[1]][e[2]] = "user"
    BY <2>2
  <2>4. ~root => \A e \in O : sc \in Above(e[1])
    OBVIOUS
  <2> HIDE DEF O
  <2>5. CASE root
    <3>1. P = <<>> /\ T = {a \in RootApis : cbs[a] # <<>>}
      BY <2>5 DEF Observers
    <3>2. P \in Seq(Place) /\ T \in SUBSET RootApis
      BY <3>1
    <3> HIDE DEF P, T
    <3>3. Walk(P, FALSE, {}, O, T, cbs, mApi)
      BY <2>3, <3>1, WalkStarts, ChainIs
    <3>4. /\ y \in Note /\ y.twice = FALSE /\ y.path = P /\ y.user = FALSE
          /\ y.heard = {} /\ y.owed = O /\ y.todo = T
      BY <2>3, <3>2 DEF Note
    <3> HIDE DEF y, Note
    <3>5. NoteOK(y, cbs, mApi)
      BY <3>3, <3>4 DEF NoteOK
    <3> QED BY <1>3, <3>5, NotesPush
  <2>6. CASE ~root
    <3>1. sc \in Owners /\ cbs[sc] # <<>> /\ T = {} /\ P = <<p>>
      BY <1>3, <2>6 DEF Scopes, Observers
    <3>2. p \in Place /\ p.api = sc /\ p.at = 1
      BY <3>1 DEF Place, Apis
    <3> HIDE DEF p, Place
    <3>3. P \in Seq(Place) /\ Len(P) = 1 /\ P[1] = p
      BY <3>1, <3>2
    <3>4. \A e \in O : e[2] \in 1 .. Len(cbs[e[1]]) /\ cbs[e[1]][e[2]] = "user" /\ sc \in Above(e[1])
      BY <2>3, <2>4, <2>6
    <3> HIDE DEF P, T, root
    <3>5. Walk(P, FALSE, {}, O, {}, cbs, mApi)
      BY <2>3, <3>1, <3>2, <3>3, <3>4, WalkStartsBelow
    <3>6. /\ y \in Note /\ y.twice = FALSE /\ y.path = P /\ y.user = FALSE
          /\ y.heard = {} /\ y.owed = O /\ y.todo = {}
      BY <2>3, <3>1, <3>3 DEF Note
    <3> HIDE DEF y, Note
    <3>7. NoteOK(y, cbs, mApi)
      BY <3>5, <3>6 DEF NoteOK
    <3> QED BY <1>3, <3>7, NotesPush
  <2> QED BY <2>5, <2>6
<1> QED BY <1>1, <1>2, <1>3

(* Lists and notifications are in order after every step. *)
LEMMA NotesStep ==
  ASSUME ChainOK, Lists(cbs, mApi), Notes(stack, cbs, mApi), [Next]_vars
  PROVE  Lists(cbs', mApi') /\ Notes(stack', cbs', mApi')
<1>1. Chain(mApi) /\ ChainGrows
  BY ChainIs, ChainStep
<1>2. CASE UNCHANGED <<cbs, mApi>> /\ Notes(stack', cbs, mApi)
  BY <1>2
<1>3. CASE UNCHANGED <<cbs, mApi, stack>>
  BY <1>3
<1>4. ASSUME NEW a \in Apis, RegisterNewParamCallback(a) PROVE Lists(cbs', mApi') /\ Notes(stack', cbs', mApi')
  <2>1. a \in Existing /\ cbs' = Subscribed(a) /\ mApi' = mApi /\ stack' = stack
    BY <1>4 DEF RegisterNewParamCallback
  <2> DEFINE d == Subscribed(a)
  <2> HIDE DEF d
  <2>2. Lists(d, mApi) /\ Grows(cbs, d)
    BY <2>1, Subscribes DEF d
  <2>3. Notes(stack, d, mApi)
    BY <1>1, <2>2, NotesStay
  <2> QED BY <2>1, <2>2, <2>3 DEF d
<1>5. ASSUME NEW b \in Owners, CreatePrivateApi(b) PROVE Lists(cbs', mApi') /\ Notes(stack', cbs', mApi')
  <2>1. mApi[b] = "none" /\ cbs' = cbs /\ stack' = stack
    BY <1>5 DEF CreatePrivateApi
  <2>2. \A a \in Owners : mApi[a] # "none" => mApi'[a] = mApi[a]
    BY <1>1 DEF ChainGrows
  <2> DEFINE n == mApi'
  <2> HIDE DEF n
  <2>3. \A a \in Owners : mApi[a] # "none" => n[a] = mApi[a]
    BY <2>2 DEF n
  <2>4. Grows(cbs, cbs)
    <3>1. \A a \in Apis : Len(cbs[a]) \in Nat
      BY <1>1, ListFacts
    <3> QED BY <3>1 DEF Grows
  <2>5. Notes(stack, cbs, n)
    BY <1>1, <2>3, <2>4, NotesStay
  <2>6. \A a \in Owners : cbs[a] # <<>> => n[a] = mApi[a] /\ mApi[a] # "none"
    BY <2>3 DEF Lists
  <2>7. \A a \in Apis : \A k \in 1 .. Len(cbs[a]) : cbs[a][k] # "user" =>
          cbs[a][k] \in Owners /\ mApi[cbs[a][k]] = a /\ cbs[cbs[a][k]] # <<>>
    BY <1>1, ListFacts
  <2>8. \A a \in Apis : \A k \in 1 .. Len(cbs[a]) : cbs[a][k] # "user" =>
          n[cbs[a][k]] = a /\ cbs[cbs[a][k]] # <<>>
    BY <2>6, <2>7
  <2>9. \A p \in Owners : cbs[p] # <<>> => \E k \in 1 .. Len(cbs[n[p]]) : cbs[n[p]][k] = p
    BY <2>6 DEF Lists
  <2>10. Lists(cbs, n)
    BY <2>6, <2>8, <2>9 DEF Lists
  <2> QED BY <2>1, <2>5, <2>10 DEF n
<1>6. ASSUME NEW o \in Objs, NEW n \in Names, Construct(o, n) PROVE Lists(cbs', mApi') /\ Notes(stack', cbs', mApi')
  <2> DEFINE a == ApiOf(Home[n])
             sc == ScopeOf(a, n)
  <2>1. mApi' = mApi /\ cbs' = cbs /\ (stack' = stack \/ Publish(sc, o))
    BY <1>6 DEF Construct
  <2>2. Home[n] \in Modules
    BY Nesting
  <2>3. a \in Existing
    BY <2>2, ApiOfModule
  <2> HIDE DEF a
  <2>4. sc \in Scopes
    BY <2>3, ScopeUnfolds
  <2> HIDE DEF sc
  <2> QED BY <1>2, <1>3, <2>1, <2>4, PublishKeeps
<1>7. ASSUME NEW a \in Apis, NEW n \in Names, NEW v \in Strings, SetInitValue(a, n, v)
      PROVE  Lists(cbs', mApi') /\ Notes(stack', cbs', mApi')
  <2> DEFINE sc == ScopeOf(a, n)
  <2>1. a \in Existing /\ mApi' = mApi /\ cbs' = cbs /\ (stack' = stack \/ Publish(sc, "none"))
    BY <1>7 DEF SetInitValue
  <2>2. sc \in Scopes
    BY <2>1, ScopeUnfolds
  <2> HIDE DEF sc
  <2> QED BY <1>2, <1>3, <2>1, <2>2, PublishKeeps
<1>8. CASE NotifyEnds
  <2>1. stack # <<>> /\ stack' = Front(stack) /\ UNCHANGED <<cbs, mApi>>
    BY <1>8 DEF NotifyEnds
  <2> QED BY <1>2, <2>1, NotesPop
<1>9. CASE UNCHANGED vars
  BY <1>3, <1>9 DEF vars
<1>10. CASE Next
  <2>1. \/ UNCHANGED <<cbs, mApi, stack>>
        \/ \E a \in RootApis : NotifyApi(a) /\ UNCHANGED <<cbs, mApi>>
        \/ (MakeCallbacks \/ UserReturns) /\ UNCHANGED <<cbs, mApi>>
        \/ NotifyEnds
        \/ \E o \in Objs, n \in Names : Construct(o, n)
        \/ \E a \in Apis, n \in Names, v \in Strings : SetInitValue(a, n, v)
        \/ \E m \in Owners : CreatePrivateApi(m)
        \/ \E a \in Apis : RegisterNewParamCallback(a)
    BY <1>10, Frame DEF Next
  <2> QED BY <1>2, <1>3, <1>4, <1>5, <1>6, <1>7, <1>8, <2>1,
             NotifyApiKeeps, MakeCallbacksKeeps, UserReturnsKeeps
<1> QED BY <1>9, <1>10
-----------------------------------------------------------------------------
(* What holds in every state. *)
IInv == ChainOK /\ Databases /\ Lists(cbs, mApi) /\ Notes(stack, cbs, mApi)

(* The invariant holds for every number of parameters, databases, APIs and
   nested notifications. *)
THEOREM Invariance == Spec => []IInv
<1>1. Init => IInv
  <2> SUFFICES ASSUME Init PROVE IInv
    OBVIOUS
  <2>1. ChainOK
    BY DEF Init, ChainOK, Existing
  <2>2. Absent \in Entry /\ Absent.param = "none" /\ Dead \in Param /\ ~Dead.live
    BY DEF Absent, Dead, Entry, Param
  <2>3. /\ db \in Database /\ obj \in [Objs -> Param] /\ \A o \in Objs : ~obj[o].live
        /\ \A sc \in Scopes, n \in Names : db[sc][n].param = "none"
    <3> HIDE DEF Entry, Param, Absent, Dead
    <3> QED BY <2>2 DEF Init, Database
  <2>4. Points
    BY <2>3, Nesting DEF Points
  <2>5. Lists(cbs, mApi)
    <3>1. cbs \in [Apis -> Seq(Owners \cup {"user"})]
      BY DEF Init
    <3>2. \A a \in Apis : cbs[a] = <<>> /\ Len(cbs[a]) = 0
      BY DEF Init
    <3> QED BY <3>1, <3>2 DEF Lists, Apis
  <2>6. Notes(stack, cbs, mApi)
    <3> HIDE DEF Note
    <3> QED BY DEF Init, Notes
  <2> QED BY <2>1, <2>3, <2>4, <2>5, <2>6 DEF IInv, Databases
<1>2. IInv /\ [Next]_vars => IInv'
  BY ChainStep, DatabasesStep, NotesStep DEF IInv
<1> QED BY <1>1, <1>2, PTL DEF Spec

(* No database keeps a pointer to a parameter that is gone, renamed or        *)
(* registered elsewhere (removeParam), for every number of parameters and     *)
(* every order in which private APIs appear.                                  *)
THEOREM PointersStaySound == Spec => []PointersSound
<1>1. IInv => PointersSound
  <2> SUFFICES ASSUME IInv, NEW sc \in Scopes, NEW n \in Names, db[sc][n].param # "none"
               PROVE  LET p == db[sc][n].param IN obj[p].live /\ obj[p].name = n /\ ScopeOf(obj[p].api, n) = sc
    BY DEF PointersSound
  <2>1. PICK p \in Objs : p = db[sc][n].param
    <3>1. db[sc][n] \in Entry
      BY EntryOf DEF IInv
    <3> QED BY <3>1 DEF Entry
  <2>2. obj[p].live /\ obj[p].name = n /\ \A a \in Apis : obj[p].api = a => ScopeOf(a, n) = sc
    <3>1. RootApi["top"] \in Apis
      BY Nesting DEF Modules, Apis
    <3> QED BY <2>1, <3>1 DEF IInv, Databases, Points
  <2>3. obj[p].api \in Apis
    BY <2>2 DEF IInv, Databases, Existing, Apis
  <2> QED BY <2>1, <2>2, <2>3
<1> QED BY <1>1, Invariance, PTL

(* A locked init value is final, and parameters built under it start with it  *)
(* (setInitValue, lockInitValue, addParam, removeParam).                      *)
THEOREM LocksHold == Spec => LockHolds
<1>1. IInv /\ [Next]_vars => [LockStep]_vars
  BY DatabasesStep DEF IInv
<1>2. Spec => [][LockStep]_vars
  BY <1>1, Invariance, PTL DEF Spec
<1>3. [][LockStep]_vars <=> LockHolds
  BY DEF LockHolds, LockStep
<1> QED BY <1>2, <1>3

(* A notification tells every user callback that was there when it began and  *)
(* that sees the parameter, and none twice, whatever the callbacks do         *)
(* meanwhile (sendNewParameterNotify, makeCallbacks,                          *)
(* register_as_new_param_observer).                                           *)
THEOREM EverybodyIsToldOnce == Spec => []ToldOnce
<1>1. IInv => ToldOnce
  <2> SUFFICES ASSUME IInv, NEW i \in DOMAIN stack
               PROVE  LET x == stack[i] IN ~x.twice /\ (x.path = <<>> /\ x.todo = {} => x.owed \subseteq x.heard)
    BY DEF ToldOnce
  <2>1. stack \in Seq(Note) /\ \A j \in 1 .. Len(stack) : NoteOK(stack[j], cbs, mApi)
    BY DEF IInv, Notes
  <2>2. i \in 1 .. Len(stack)
    <3> HIDE DEF Note
    <3> QED BY <2>1, LenProperties
  <2> DEFINE x == stack[i]
  <2>3. ~x.twice /\ Walk(x.path, x.user, x.heard, x.owed, x.todo, cbs, mApi)
    BY <2>1, <2>2 DEF NoteOK
  <2> HIDE DEF x
  <2>4. x.path = <<>> /\ x.todo = {} => x.owed \subseteq x.heard
    BY <2>3, WalkEnds, ChainIs DEF IInv
  <2> QED BY <2>3, <2>4 DEF x
<1> QED BY <1>1, Invariance, PTL
=============================================================================
