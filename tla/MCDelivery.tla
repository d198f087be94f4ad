------------------------------ MODULE MCDelivery ------------------------------
(***************************************************************************)
(* Eventual acceptance, in three histories.                                *)
(*   Witnessed: every message of A arrives once, in any order.  No message *)
(* of the inception or the interaction is enough: the one is split between *)
(* its signers and witnesses, the other waits for receipts.  The rotation  *)
(* comes with too few witness signatures and again with enough.            *)
(*   Receipted: every message of B and C arrives once, in any order.  C    *)
(* receipts the inception of B.  The rotation of C recovers from an        *)
(* interaction at the same number, so a seal of that number may name       *)
(* either.  One receipt carries a signature by a wrong key before a good   *)
(* one, and then a group sealed by the interaction; the other the groups   *)
(* of both establishment events.                                           *)
(*   Stopped: the log of the local identifier D, given to the node again   *)
(* and again, whose rotation comes in two halves and so through an escrow, *)
(* while the node stops between any two store writes.                      *)
(***************************************************************************)
EXTENDS MCEvents

Of(p, body) == [body EXCEPT !.pre = p]

OldA == <<"a1", "a2">>
OldC == <<"b0", "b1">>
NewD == <<"b1", "b2">>

Bodies ==
       "icpA" :> Incept(OldA, <<"b1">>, <<"w1", "w2">>, 2)
    @@ "rotA" :> RotateWits(1, "icpA", <<"b1">>, <<"c1">>, <<"w1">>, <<"w3">>, 2)
    @@ "ixnA" :> Interact(2, "rotA")
    @@ "icpB" :> Of("B", Incept(<<"a0">>, <<"a1">>, <<>>, 0))
    @@ "icpC" :> Of("C", Incept(OldC, <<"b2">>, <<>>, 0))
    @@ "ixnC" :> Of("C", Interact(1, "icpC"))
    @@ "rotC" :> Of("C", Rotate(1, "icpC", <<"b2">>, <<"b3">>))
    @@ "icpD" :> Of("D", Incept(<<"a1">>, NewD, <<>>, 0))
    @@ "ixnD" :> Of("D", Interact(1, "icpD"))
    @@ "rotD" :> Of("D", Rotate(2, "ixnD", NewD, <<"c1">>))

Events == DOMAIN Bodies
Keys == {"a0", "a1", "a2", "b0", "b1", "b2", "b3", "c1"}
Wits == {"w1", "w2", "w3"}

SentA == {
    Msg("icpA", {Dual(1, OldA)}, {Wig(1, "w1")}), Msg("icpA", {Dual(2, OldA)}, {}),
    Msg("rotA", {Dual(1, <<"b1">>)}, {Wig(1, "w2")}),
    Msg("rotA", {Dual(1, <<"b1">>)}, {Wig(1, "w2"), Wig(2, "w3")}),
    Msg("ixnA", {Dual(1, <<"b1">>)}, {}) }
PostedA == {
    Rct("icpA", {"w2"}, {}),
    Rct("rotA", {}, {Wig(2, "w3")}),
    Rct("ixnA", {"w2"}, {Wig(2, "w3")}) }

BothC == {Dual(1, OldC), Dual(2, OldC)}
SentBC == {
    Msg("icpB", {Dual(1, <<"a0">>)}, {}), Msg("icpC", BothC, {}),
    Msg("ixnC", BothC, {}), Msg("rotC", {Dual(1, <<"b2">>)}, {}) }
First == Quad("C", 0, "icpC", 1, "b0")
Second == Quad("C", 0, "icpC", 2, "b1")
PostedBC == {
    TransRct("icpB", <<Quad("C", 0, "icpC", 1, "b2"), Second, Quad("C", 1, "ixnC", 1, "b0")>>),
    TransRct("icpB", <<First, Quad("C", 1, "rotC", 1, "b2")>>) }

SentD == {
    LocalMsg("icpD", {Dual(1, <<"a1">>)}, {}), LocalMsg("ixnD", {Dual(1, <<"a1">>)}, {}),
    LocalMsg("rotD", {Dual(1, NewD)}, {}), LocalMsg("rotD", {Dual(2, NewD)}, {}) }

Sent == SentA \cup SentBC \cup SentD
Posted == PostedA \cup PostedBC

Witnessed == net = SentA /\ post = PostedA /\ crashes = MaxCrashes
Receipted == net = SentBC /\ post = PostedBC /\ crashes = MaxCrashes
Stopped == net = SentD /\ post = {} /\ crashes = 0

Histories == InitStores /\ (Witnessed \/ Receipted \/ Stopped)
HistoriesSpec == Histories /\ [][Next \/ Restart \/ Crash]_vars /\ Fairness

(***************************************************************************)
(* processEscrows, processReceipt, processEscrowUnverTrans: once every     *)
(* message has arrived, whatever their order, the sweeps bring the key     *)
(* state to the last event, and leave it there; a receipt whose seal names *)
(* the inception of its receiptor is kept, though the event, the inception *)
(* or both came after it; and the log cut short by a stop is completed.    *)
(* Each history has events of its own identifiers only.                    *)
(***************************************************************************)
LastIs(p, e) == states[p] # NoState /\ states[p].d = e

Converges ==
    <>[](\/ LastIs("A", "ixnA")
         \/ {First, Second} \subseteq vrcs["icpB"]
         \/ LastIs("D", "rotD"))
==============================================================================
