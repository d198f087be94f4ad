------------------------------ MODULE MCRecovery ------------------------------
(***************************************************************************)
(* One identifier with one key at a time.  An interaction follows the      *)
(* inception and two compete to follow it; a rotation at sn 1 and another  *)
(* at sn 2 both recover, in either order of arrival; an interaction        *)
(* follows the second; and the holder of the keys the rotations commit to  *)
(* tries to rotate at sn 1, behind them.                                   *)
(***************************************************************************)
EXTENDS MCEvents

Bodies ==
       "icp"  :> Incept(<<"k0">>, <<"k1">>, <<>>, 0)
    @@ "ixn1" :> Interact(1, "icp")
    @@ "ixn2" :> Interact(2, "ixn1")
    @@ "ixn2b" :> Interact(2, "ixn1")
    @@ "rot1" :> Rotate(1, "icp", <<"k1">>, <<"k2">>)
    @@ "rot1b" :> Rotate(1, "icp", <<"k2">>, <<"k0">>)
    @@ "rot2" :> Rotate(2, "ixn1", <<"k1">>, <<"k2">>)
    @@ "ixn3" :> Interact(3, "rot2")

Events == DOMAIN Bodies
Keys == {"k0", "k1", "k2"}

By(k) == {[index |-> 1, ondex |-> 1, key |-> k]}

Sent ==
    {Msg(e, By("k0"), {}) : e \in {"icp", "ixn1", "ixn2", "ixn2b"}}
    \cup {Msg(e, By("k1"), {}) : e \in {"rot1", "rot2", "ixn3"}}
    \cup {Msg("rot1b", By("k2"), {})}
==============================================================================
