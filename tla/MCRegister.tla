----------------------------- MODULE MCRegister -----------------------------
(***************************************************************************)
(* Registers of two bits for TLC: shared and split, with rules on every    *)
(* occasion, told by events, by callbacks, and with delay.                 *)
(***************************************************************************)
EXTENDS Register, TLC

CONSTANTS m1, m2, b0, b1

All == SUBSET Bits
Whole(c) == [in |-> c, bits |-> Bits, change |-> FALSE, from |-> All, to |-> All,
             callback |-> FALSE, delay |-> FALSE]
OnChange(c) == [Whole(c) EXCEPT !.change = TRUE]
Rises(c, b) == [Whole(c) EXCEPT !.bits = {b}, !.from = {{}}, !.to = {{b}}]
Called(r) == [r EXCEPT !.callback = TRUE]
Late(r) == [r EXCEPT !.delay = TRUE]

Threads == [m \in Masters |-> "thread"]
Kinds == {Threads, (m1 :> "thread" @@ m2 :> "method"), (m1 :> "none" @@ m2 :> "method")}
RuleSets ==
  {{Whole("pre_write"), OnChange("post_write")},
   {Whole("pre_read"), OnChange("post_read"), Rises("usr_in", b0)},
   {Called(Whole("pre_write")), Late(Called(OnChange("post_write"))), Rises("usr_out", b1)},
   {Late(Called(Whole("pre_read"))), Called(Rises("post_write", b0))}}

(* one writable and one read-only bit; delays with threads *)
MCSetups ==
  {s \in [split : BOOLEAN, data : {{}}, mask : {{b0}}, delayed : BOOLEAN,
          rules : RuleSets, kind : Kinds] : s.delayed => s.kind = Threads}
=============================================================================
