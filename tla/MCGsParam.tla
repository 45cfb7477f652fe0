------------------------------ MODULE MCGsParam ------------------------------
(* Instances of GsParam for TLC.  Two adapters may refuse writes, one runs    *)
(* before a write, two after it, of which one writes again; the last is of    *)
(* the legacy type.                                                           *)
EXTENDS GsParam, TLC

CONSTANTS refuser, refuser2, before, writer, reader, legacy

MCTypeOf == [a \in Adapters |-> CASE a \in {refuser, refuser2} -> "reject_write"
                                  [] a = before -> "pre_write"
                                  [] a \in {writer, reader} -> "post_write"
                                  [] OTHER -> "post_write_and_destroy"]
MCObserver == [a \in Adapters |-> IF a \in {refuser, before, reader} THEN 1 ELSE 2]
MCResults == [a \in Adapters |-> IF a \in {refuser, refuser2} THEN {0, 1}
                                 ELSE IF a = reader THEN {0, 2} ELSE {0}]

UseOf(adapters, body, top) ==
  [adapters |-> adapters, top |-> top, body |-> body @@ [a \in Adapters |-> {}]]

Nested ==     \* callbacks write, read, lock and register
  UseOf({refuser, before, writer, reader, legacy},
        before :> {"register", "lock", "unlock"} @@ writer :> {"setString", "getString"}
          @@ reader :> {"register"},
        {"setValue", "getValue", "register", "unregister", "unregisterAll", "destruct"})
Unregistering ==     \* callbacks unregister
  UseOf({refuser, refuser2, writer, reader},
        writer :> {"unregister", "lock"} @@ reader :> {"unregister"},
        {"setValuePwd", "register", "unregisterAll", "unlock"})
Smallest == UseOf({writer, reader}, writer :> {"unregister"}, {"setValue", "register"})

MCUses == {Nested, Unregistering}
MCSmallest == {Smallest}
Symmetry == Permutations(Values)
=============================================================================
