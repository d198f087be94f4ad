------------------------------ MODULE MCWitness ------------------------------
(***************************************************************************)
(* Witnesses, in two histories of messages repeated in any order.          *)
(*   Remote: the identifier C has three witnesses of which two must sign.  *)
(* Its rotation replaces the first witness, so the places of the others    *)
(* move and the new witness comes last; an interaction follows.  Receipts  *)
(* come as couples and as indexed signatures, before and after their       *)
(* events, from a witness and from one the rotation cut, and one message   *)
(* carries a witness signature indexed by the list before the rotation.    *)
(*   Protected: this node owns A, witnessed by another, whose events come  *)
(* from its own habitat and also back from the network; the remote B has a *)
(* local witness from its rotation on; the node stops between handlers.    *)
(***************************************************************************)
EXTENDS MCEvents

Of(p, body) == [body EXCEPT !.pre = p]

Bodies ==
       "icpC"  :> Of("C", Incept(<<"k0">>, <<"k1">>, <<"w1", "w2", "w3">>, 2))
    @@ "rotC" :> Of("C", RotateWits(1, "icpC", <<"k1">>, <<"k2">>, <<"w1">>, <<"w4">>, 2))
    @@ "ixnC" :> Of("C", Interact(2, "rotC"))
    @@ "icpA"  :> Incept(<<"a0">>, <<"a1">>, <<"w1">>, 1)
    @@ "ixnA"  :> Interact(1, "icpA")
    @@ "rotA"  :> Rotate(1, "icpA", <<"a1">>, <<"a2">>)
    @@ "icpB"  :> Of("B", Incept(<<"b0">>, <<"b1">>, <<>>, 0))
    @@ "rotB"  :> Of("B", RotateWits(1, "icpB", <<"b1">>, <<"b2">>, <<>>, <<"wl">>, 1))

Events == DOMAIN Bodies
Keys == {"k0", "k1", "k2", "a0", "a1", "a2", "b0", "b1", "b2"}
Wits == {"w1", "w2", "w3", "w4", "wl"}

By(k) == {[index |-> 1, ondex |-> 1, key |-> k]}

SentC == {
    Msg("icpC", By("k0"), {Wig(2, "w2")}),
    Msg("rotC", By("k1"), {Wig(1, "w2"), Wig(3, "w3")}),
    Msg("rotC", By("k1"), {Wig(1, "w2"), Wig(2, "w3")}),
    Msg("ixnC", By("k1"), {}) }
PostedC == {
    Rct("icpC", {"w1"}, {}),
    Rct("rotC", {"w1", "w4"}, {}),
    Rct("ixnC", {"w2"}, {Wig(3, "w4")}) }

SentAB == {
    LocalMsg("icpA", By("a0"), {}), Msg("icpA", By("a0"), {Wig(1, "w1")}),
    LocalMsg("ixnA", By("a0"), {}),
    LocalMsg("rotA", By("a1"), {}),
    LocalMsg("icpB", By("b0"), {}),
    LocalMsg("rotB", By("b1"), {}), Msg("rotB", By("b1"), {Wig(1, "wl")}) }
PostedAB == {Rct("rotB", {"wl"}, {})}

Sent == SentC \cup SentAB
Posted == PostedC \cup PostedAB
Every == Sent \cup Posted

Remote == net = SentC /\ post = PostedC /\ crashes = MaxCrashes
Protected == net = SentAB /\ post = PostedAB /\ crashes = 0

Histories == InitStores /\ (Remote \/ Protected)
HistoriesSpec == Histories /\ [][Next \/ Restart]_vars
==============================================================================
