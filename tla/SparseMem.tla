------------------------------ MODULE SparseMem ------------------------------
(***************************************************************************)
(* gs::mem::sparse_mem: an array whose pages are allocated when they are   *)
(* first touched.  The three vectors ins, outs and buffers are one         *)
(* sequence of pages [lo, hi, data]; an index -1 of the code is 0 here.    *)
(* get_block makes a range contiguous by joining pages into a new buffer.  *)
(*                                                                         *)
(* Addresses are unsigned and wrap at Size.  The user stays below the last *)
(* page: there "start + page_size" wraps to 0, a page that ends at 0       *)
(* contains nothing and every access allocates it again.                   *)
(***************************************************************************)
EXTENDS Integers, Sequences, SequencesExt, FiniteSets

CONSTANTS PageSize, Size, Value, Junk

ASSUME Sizes ==
  /\ PageSize \in Nat \ {0} /\ Size \in Nat
  /\ Size % PageSize = 0 /\ Size >= 2 * PageSize
  /\ Junk \notin Value

Addr == 0 .. Size - PageSize - 1

VARIABLES
  pages,      \* ins, outs, buffers
  block       \* what the user holds of get_block: [from, to, lo], lo names the page; or <<>>

vars == <<pages, block>>
-----------------------------------------------------------------------------
(* std::lower_bound on ins with less_equal, minus one *)
LowerBound(a) == Cardinality({k \in DOMAIN pages : pages[k].lo <= a})
(* std::lower_bound on outs *)
EndIndex(e) == 1 + Cardinality({k \in DOMAIN pages : pages[k].hi < e})

Floor(a) == (a \div PageSize) * PageSize
PageOf(lo, hi) == [lo |-> lo, hi |-> hi, data |-> [a \in lo .. hi - 1 |-> Junk]]

InsertPage(i, a) ==
  InsertAt(pages, i, PageOf(Floor(a), (Floor(a) + PageSize) % Size))

(* The new page swallows the pages after it that end inside; each is copied
   and its buffer freed *)
Swallowed(s, i) ==
  LET stops == {k \in i + 1 .. Len(s) : s[k].hi > s[i].hi}
  IN i + 1 .. (IF stops = {} THEN Len(s) ELSE (CHOOSE k \in stops : \A j \in stops : k <= j) - 1)

CopyNothing(page, old) == page     \* mutant
CopyInto(page, old) ==
  [page EXCEPT !.data = [a \in DOMAIN @ |-> IF \E p \in old : a \in DOMAIN p.data
                                            THEN (CHOOSE p \in old : a \in DOMAIN p.data).data[a]
                                            ELSE @[a]]]

JoinPages(i, lo, hi) ==
  LET s == InsertAt(pages, i, PageOf(lo, hi))
      gone == Swallowed(s, i)
  IN SubSeq(s, 1, i - 1) \o <<CopyInto(s[i], {s[k] : k \in gone})>>
       \o SubSeq(s, i + 1 + Cardinality(gone), Len(s))
-----------------------------------------------------------------------------
Init == pages = <<>> /\ block = <<>>

(* the page operator[] ends up with, and the pages once it has allocated it *)
Missing(a) == LowerBound(a) = 0 \/ a >= pages[LowerBound(a)].hi
Touched(a) == IF Missing(a) THEN InsertPage(LowerBound(a) + 1, a) ELSE pages
Index(a) == LowerBound(a) + (IF Missing(a) THEN 1 ELSE 0)

(* operator[] on the right of an assignment *)
Load(a) == pages' = Touched(a) /\ UNCHANGED block

(* operator[] on the left of an assignment *)
Store(a, v) == pages' = [Touched(a) EXCEPT ![Index(a)].data[a] = v] /\ UNCHANGED block

(* an end inside of a page moves to the end of that page *)
BlockEndAsAsked(end) == end     \* mutant
BlockEnd(end) ==
  LET e == EndIndex(end)
  IN IF e <= Len(pages) /\ pages[e].lo < end /\ end < pages[e].hi THEN pages[e].hi ELSE end

GetBlock(from, to) ==
  LET start == Floor(from)
      end == (Floor(to) + PageSize) % Size
      s == LowerBound(start)
      Returns(ps, i) == pages' = ps /\ block' = [from |-> from, to |-> to, lo |-> ps[i].lo]
  IN /\ from < to
     /\ CASE s = 0              -> Returns(JoinPages(1, start, BlockEnd(end)), 1)
          [] s = EndIndex(end)  -> Returns(pages, s)
          [] OTHER -> IF start < pages[s].hi
                      THEN Returns(JoinPages(s, pages[s].lo, BlockEnd(end)), s)
                      ELSE Returns(JoinPages(s + 1, start, BlockEnd(end)), s + 1)

(* the user writes through the pointer get_block returned *)
StoreInBlock(a, v) ==
  /\ block # <<>> /\ a \in block.from .. block.to - 1
  /\ \E k \in DOMAIN pages : pages[k].lo = block.lo /\ pages' = [pages EXCEPT ![k].data[a] = v]
  /\ UNCHANGED block

Next ==
  \E a \in Addr :
    \/ Load(a)
    \/ \E v \in Value : Store(a, v) \/ StoreInBlock(a, v)
    \/ \E to \in Addr : GetBlock(a, to)

Spec == Init /\ [][Next]_vars
-----------------------------------------------------------------------------
Sorted == \A k \in 1 .. Len(pages) - 1 : pages[k].hi <= pages[k + 1].lo
WholePages == \A k \in DOMAIN pages :
  LET p == pages[k] IN /\ p.lo < p.hi /\ p.lo % PageSize = 0 /\ p.hi % PageSize = 0
                       /\ DOMAIN p.data = p.lo .. p.hi - 1
BlockInOnePage ==
  block # <<>> => \E k \in DOMAIN pages :
                    pages[k].lo = block.lo /\ block.lo <= block.from /\ block.to <= pages[k].hi

(* The pages are sorted, do not overlap and are made of whole pages, and the  *)
(* block the user holds lies in one buffer that has not been freed: the       *)
(* binary searches of lower_bound, has and get_block rely on the first,       *)
(* whoever uses the returned pointer on the second.                           *)
PagesSound == Sorted /\ WholePages /\ BlockInOnePage

(* A cell is looked up the way operator[] does. *)
Flat == INSTANCE FlatMem WITH
  mem <- [a \in Addr |-> IF Missing(a) THEN Junk ELSE pages[LowerBound(a)].data[a]]

(* sparse_mem behaves like a flat array: no write through operator[] or a     *)
(* block is lost or lands elsewhere, however pages are allocated and joined.  *)
ImplementsFlat == Flat!Spec
=============================================================================
