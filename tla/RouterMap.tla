------------------------------ MODULE RouterMap ------------------------------
(***************************************************************************)
(* GenericRouter with a SimpleAddressMap: the map generated from the       *)
(* address parameters of the targets, the change of those parameters while *)
(* the simulation runs, and the direct memory interface (DMI): pointers    *)
(* the targets grant, the registry the router keeps of them, and their     *)
(* invalidation.                                                           *)
(*                                                                         *)
(* Addresses are 0 .. AddrMax and wrap around like the unsigned 64 bit     *)
(* numbers of the code.  An entry of a map or of the registry is a record  *)
(* [lo, hi, port]; the bounds of a wrapped entry may be inverted, such an  *)
(* entry contains no address.  std::list::sort orders the map by           *)
(* "upper < other.lower", which is no order once entries overlap: the map  *)
(* is a set here, and decoding takes any entry that contains the address.  *)
(*                                                                         *)
(* SC_REPORT_ERROR throws, as SystemC does by default.                     *)
(***************************************************************************)
EXTENDS Integers, Sequences, FiniteSets, SequencesExt

CONSTANTS
  Targets,       \* number of target ports of GreenSocketAddress sockets, 0 .. Targets-1
  Initiators,    \* initiator ports
  DmiTargets,    \* target ports whose targets grant DMI
  AddrMax,       \* highest address
  InitHigh,      \* first ranges: the targets lie one after the other, InitHigh[t] is the end of t
  WriteBases, WriteHighs,  \* values the user writes to base_addr and high_addr
  MaxEntries,    \* bound: DMI entries of the registry
  MaxHeld        \* bound: DMI pointers alive at a time

Ports == 0 .. Targets - 1
Addr == 0 .. AddrMax

ASSUME Bounds ==
  /\ Targets \in Nat \ {0} /\ AddrMax \in Nat /\ InitHigh \in [Ports -> Addr]
  /\ WriteBases \subseteq Addr /\ WriteHighs \subseteq Addr

VARIABLES
  base, high,    \* parameters base_addr and high_addr of the sockets of the targets
  unread,        \* targets whose high_addr changed since any base_addr was written
  map,           \* m_address_map
  pending,       \* mapCheckPending
  dmi,           \* m_dmi_tport_entry: target port -> entries with the initiator's port
  held,          \* DMI pointers of the initiators: [port, lo, hi, target]
  down           \* undefined behaviour or an endless loop has ended the simulation

config == <<base, high, unread>>
Registered == Cardinality(UNION {{t} \X DOMAIN dmi[t] : t \in Ports})
vars == <<config, map, pending, dmi, held, down>>
-----------------------------------------------------------------------------
(* Entries *)

Wrap(a) == a % (AddrMax + 1)
IsIn(e, a) == e.lo <= a /\ a <= e.hi
Apart(e, lo, hi) == hi < e.lo \/ lo > e.hi
Within(e, lo, hi) == lo >= e.lo /\ hi <= e.hi

MergeWith(e, lo, hi) ==
  [e EXCEPT !.lo = IF lo < @ THEN lo ELSE @, !.hi = IF hi > @ THEN hi ELSE @]

(* remove_range of a range that is neither apart from the entry nor inside it *)
RemoveRange(e, lo, hi) ==
  LET front == IF lo <= e.lo /\ hi <= e.hi THEN [e EXCEPT !.lo = Wrap(hi + 1)] ELSE e
      both == IF lo >= front.lo /\ hi >= front.hi THEN [front EXCEPT !.hi = Wrap(lo - 1)] ELSE front
  IN IF both.lo > both.hi THEN [both EXCEPT !.lo = 0, !.hi = 0] ELSE both

-----------------------------------------------------------------------------
(* The address map *)

(* checkOverlap looks at the ends of the new range only *)
Rejects(m, lo, hi) == lo > hi \/ \E e \in m : IsIn(e, lo) \/ IsIn(e, hi)

Insert(r, lo, hi, p, checkOverlap) ==
  IF ~r.ok THEN r
  ELSE IF checkOverlap /\ Rejects(r.map, lo, hi) THEN [r EXCEPT !.ok = FALSE]
  ELSE [r EXCEPT !.map = @ \cup {[lo |-> lo, hi |-> hi, port |-> p]}]

(* null sized areas are left out when overlaps are checked; an error leaves
   the entries made so far *)
AddTarget(r, t, bs, hs, checkOverlap) ==
  IF checkOverlap /\ bs[t] >= hs[t] THEN r ELSE Insert(r, bs[t], hs[t], t, checkOverlap)

GenerateMap(bs, hs, checkOverlap) ==
  LET upTo[n \in 0 .. Targets] ==
        IF n = 0 THEN [map |-> {}, ok |-> TRUE]
        ELSE AddTarget(upTo[n - 1], n - 1, bs, hs, checkOverlap)
  IN upTo[Targets]

Decode(m, a) == {e.port : e \in {x \in m : IsIn(x, a)}}

(* b_tr, nb_fw, nb_bw, tr_dbg and get_dmi look at the map after this *)
Checked == IF pending THEN GenerateMap(base, high, TRUE) ELSE [map |-> map, ok |-> TRUE]
RefreshPending == map' = Checked.map /\ pending' = (pending /\ ~Checked.ok)

-----------------------------------------------------------------------------
Init ==
  /\ high = InitHigh
  /\ base = [t \in Ports |-> IF t = 0 THEN 0 ELSE InitHigh[t - 1] + 1]
  /\ unread = {}
  /\ GenerateMap(base, high, TRUE).ok
  /\ map = GenerateMap(base, high, TRUE).map
  /\ pending = FALSE
  /\ dmi = [t \in Ports |-> <<>>]
  /\ held = {}
  /\ down = FALSE

(* A transaction, or a phase of one, in either direction: the payload goes to
   Decode(Checked.map, address), or comes back with an address error *)
Transport == RefreshPending /\ UNCHANGED <<config, dmi, held, down>>

(* the range is merged into the first entry of the same initiator it touches *)
Record(s, i, lo, hi) ==
  LET k == SelectInSeq(s, LAMBDA e : e.port = i /\ ~Apart(e, lo, hi))
  IN IF k = 0 THEN Append(s, [lo |-> lo, hi |-> hi, port |-> i])
     ELSE [s EXCEPT ![k] = MergeWith(@, lo, hi)]

GetDmi(i, a) ==
  /\ Checked.ok /\ RefreshPending
  /\ Cardinality(held) < MaxHeld
  /\ \E t \in Decode(Checked.map, a) \cap DmiTargets :
          \E lo \in base[t] .. a, hi \in a .. high[t] :      \* what the target grants
            /\ dmi' = [dmi EXCEPT ![t] = Record(@, i, lo, hi)]
            /\ Registered' <= MaxEntries
            /\ held' = held \cup {[port |-> i, lo |-> lo, hi |-> hi, target |-> t]}
  /\ UNCHANGED <<config, down>>

(* an initiator that is told drops every pointer that overlaps *)
Dropped(told, lo, hi) == {p \in held : p.port \in told /\ ~Apart(p, lo, hi)}

Told(s) == {s[k].port : k \in 1 .. Len(s)}

Exactly(e, lo, hi) == e.lo = lo /\ e.hi = hi
Shrink(e, lo, hi) ==
  IF Apart(e, lo, hi) THEN e
  ELSE IF Within(e, lo, hi) THEN [e EXCEPT !.hi = Wrap(lo - 1)]
  ELSE RemoveRange(e, lo, hi)
RestOneLater(e, lo, hi) == [e EXCEPT !.lo = Wrap(hi + 2)]     \* mutant
Rest(e, lo, hi) == [e EXCEPT !.lo = Wrap(hi + 1)]

(* The loop meets an entry of the range itself, which goes, one that contains
   it, which is split, or another one.  A split's rest goes to the end of the
   list, where the loop meets it and leaves it as it is. *)
Meet(l, e, lo, hi) ==
  IF Exactly(e, lo, hi) THEN l
  ELSE [kept |-> Append(l.kept, Shrink(e, lo, hi)),
        rests |-> IF Within(e, lo, hi) THEN Append(l.rests, Rest(e, lo, hi)) ELSE l.rests]

Invalidated(s, lo, hi) ==
  LET loop[k \in 0 .. Len(s)] ==
        IF k = 0 THEN [kept |-> <<>>, rests |-> <<>>] ELSE Meet(loop[k - 1], s[k], lo, hi)
  IN loop[Len(s)].kept \o loop[Len(s)].rests

(* the rest of an entry up to the highest address wraps to [0, AddrMax], which
   is split again, for ever *)
Endless(s, lo, hi) ==
  hi = AddrMax /\ \E k \in 1 .. Len(s) : Within(s[k], lo, hi) /\ ~Exactly(s[k], lo, hi)

InvDmi(t, lo, hi) ==
  /\ lo <= hi /\ ~Endless(dmi[t], lo, hi)
  /\ dmi' = [dmi EXCEPT ![t] = Invalidated(@, lo, hi)]
  /\ Registered' <= MaxEntries
  /\ held' = held \ Dropped(Told(dmi[t]), lo, hi)
  /\ UNCHANGED <<config, map, pending, down>>

(* the endless split, or the iterator used after erase(it) leads astray *)
InvDmiFails(t, lo, hi) ==
  /\ lo <= hi
  /\ Endless(dmi[t], lo, hi) \/ \E k \in 1 .. Len(dmi[t]) : Exactly(dmi[t][k], lo, hi)
  /\ down' = TRUE /\ dmi' = [p \in Ports |-> <<>>] /\ held' = {}
  /\ UNCHANGED <<config, map, pending>>

(* the router has registered no callback for high_addr *)
WriteHigh(t, h) ==
  /\ unread = {}                       \* bound: one change of a range at a time
  /\ high' = [high EXCEPT ![t] = h]
  /\ unread' = unread \cup {t}
  /\ UNCHANGED <<base, map, pending, dmi, held, down>>

RefreshedOnTop(bs) == map \cup GenerateMap(bs, high, FALSE).map     \* mutant
Refreshed(bs) == GenerateMap(bs, high, FALSE).map

(* post_write callback of base_addr *)
AddressChanged(t, b) ==
  /\ base' = [base EXCEPT ![t] = b]
  /\ unread' = {}                        \* the map is made from all the parameters
  /\ map' = Refreshed(base')
  /\ IF Decode(map', b) = {} THEN UNCHANGED <<pending, held>>
     ELSE \E d \in Decode(map', b) :
            /\ pending' = TRUE
            /\ held' = held \ Dropped(Initiators, base'[d], high[d])
  /\ UNCHANGED <<high, dmi, down>>

Next ==
  /\ ~down
  /\ \/ Transport
     \/ \E i \in Initiators, a \in Addr : GetDmi(i, a)
     \/ \E t \in Ports, lo, hi \in Addr : InvDmi(t, lo, hi) \/ InvDmiFails(t, lo, hi)
     \/ \E t \in Ports, h \in WriteHighs : WriteHigh(t, h)
     \/ \E t \in Ports, b \in WriteBases : AddressChanged(t, b)

Spec == Init /\ [][Next]_vars
-----------------------------------------------------------------------------
(* Properties *)

(* Every DMI pointer an initiator holds is covered by one entry of the        *)
(* registry of its target (inv_dmi and get_dmi: entries are merged, shrunk    *)
(* and split at their boundaries, with unsigned arithmetic that wraps).       *)
Revocable ==
  \A p \in held : \E k \in 1 .. Len(dmi[p.target]) :
    LET e == dmi[p.target][k] IN e.port = p.port /\ e.lo <= p.lo /\ p.hi <= e.hi

Owns(t, a) == base[t] <= a /\ a <= high[t]
Disjoint == \A t, u \in Ports : base[t] < high[t] /\
              (t # u => high[t] < base[u] \/ high[u] < base[t])

(* Unless a change of high_addr waits for a base_addr to be written, a        *)
(* transaction reaches only a target whose range contains its address, and,   *)
(* when the ranges are disjoint, it does reach that target                    *)
(* (addressChanged, mapCheckPending and the checks of refreshAddressMap).     *)
RoutesToOwner ==
  unread = {} =>
    \A a \in Addr :
      /\ Checked.ok => \A t \in Decode(Checked.map, a) : Owns(t, a)
      /\ Disjoint => \A t \in Ports : Owns(t, a) => Checked.ok /\ t \in Decode(Checked.map, a)

(* addressChanged is to "update address map with new address and invalidate   *)
(* DMI": no initiator keeps a pointer to a target for an address that the     *)
(* map does not give to this target.                                          *)
PointersFollowMap ==
  unread = {} /\ (\A t \in Ports : base[t] <= high[t]) =>
    \A p \in held : \A a \in p.lo .. p.hi : p.target \in Decode(map, a)
=============================================================================
