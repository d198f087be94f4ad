------------------------------ MODULE MCSigning ------------------------------
(***************************************************************************)
(* A two-key identifier whose signatures arrive one by one.  Its rotation  *)
(* brings in a third key the old list did not commit to, so any two of the *)
(* new keys reach the signing threshold but only the committed two reach   *)
(* the prior next one; one signer signs it with a retired key.  The        *)
(* rotation may find the interaction it competes with accepted.  Another   *)
(* interaction follows it.  The node may stop between any two writes.      *)
(***************************************************************************)
EXTENDS MCEvents

Old == <<"a1", "a2">>
New == <<"b1", "b2", "c3">>

Bodies ==
       "icp"  :> Incept(Old, <<"b1", "b2">>, <<>>, 0)
    @@ "ixn1" :> Interact(1, "icp")
    @@ "ixn2" :> Interact(2, "ixn1")
    @@ "rot2" :> [Rotate(2, "ixn1", New, <<"d1">>) EXCEPT !.kt = MofN(2, 3)]
    @@ "ixn3" :> Interact(3, "rot2")

Events == DOMAIN Bodies
Keys == {"a1", "a2", "b1", "b2", "c3", "d1"}

Sent == {
    LocalMsg("icp", {Dual(1, Old)}, {}), LocalMsg("icp", {Dual(2, Old)}, {}),
    LocalMsg("ixn1", {Cur(1, Old), Cur(2, Old)}, {}),
    LocalMsg("ixn2", {Cur(1, Old), Cur(2, Old)}, {}),
    LocalMsg("rot2", {Dual(1, New)}, {}), LocalMsg("rot2", {Dual(1, Old), Dual(2, New)}, {}),
    LocalMsg("rot2", {Cur(3, New)}, {}),
    LocalMsg("ixn3", {Cur(1, New)}, {}), LocalMsg("ixn3", {Cur(3, New)}, {}) }
==============================================================================
