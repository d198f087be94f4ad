------------------------------- MODULE MCEvents -------------------------------
(***************************************************************************)
(* How the instances write down events, signatures and messages.           *)
(***************************************************************************)
EXTENDS KeveryProperties, TLC

(* A numeric threshold of m of n keys; a non-transferable "next" of none.  *)
MofN(m, n) == [size |-> m, quorums |-> {q \in SUBSET (1..n) : Cardinality(q) = m}]
NoThreshold == [size |-> 0, quorums |-> {}]

Blank == [pre |-> "A", ilk |-> "icp", sn |-> 0, prior |-> NoEvent,
          keys |-> <<>>, kt |-> NoThreshold, nkeys |-> <<>>, nt |-> NoThreshold,
          backs |-> <<>>, cuts |-> <<>>, adds |-> <<>>, toad |-> 0,
          traits |-> {}, seals |-> FALSE]

(* Keys that all must sign.                                                *)
All(keys) == IF keys = <<>> THEN NoThreshold ELSE MofN(Len(keys), Len(keys))

Incept(keys, nkeys, ws, toad) ==
    [Blank EXCEPT !.keys = keys, !.kt = All(keys), !.nkeys = nkeys, !.nt = All(nkeys),
                  !.backs = ws, !.toad = toad]

Rotate(sn, prior, keys, nkeys) ==
    [Blank EXCEPT !.ilk = "rot", !.sn = sn, !.prior = prior, !.keys = keys,
                  !.kt = All(keys), !.nkeys = nkeys, !.nt = All(nkeys)]

RotateWits(sn, prior, keys, nkeys, cuts, adds, toad) ==
    [Rotate(sn, prior, keys, nkeys) EXCEPT !.cuts = cuts, !.adds = adds, !.toad = toad]

Interact(sn, prior) == [Blank EXCEPT !.ilk = "ixn", !.sn = sn, !.prior = prior]

(* A signature by the i-th key of a list, dual indexed or current only.    *)
Dual(i, keys) == [index |-> i, ondex |-> i, key |-> keys[i]]
Cur(i, keys) == [index |-> i, ondex |-> NoIndex, key |-> keys[i]]

Msg(e, sg, wg) == [ev |-> e, sigers |-> sg, wigers |-> wg, local |-> FALSE]
LocalMsg(e, sg, wg) == [Msg(e, sg, wg) EXCEPT !.local = TRUE]

Wig(i, w) == [index |-> i, key |-> w]
Couples(ws) == {[verfer |-> w, key |-> w] : w \in ws}
Rct(e, ws, wg) ==
    [ev |-> e, couples |-> Couples(ws), wigers |-> wg, quads |-> <<>>, local |-> FALSE]

(* A receipt by a transferable receiptor: by the i-th key of a sealed event. *)
Quad(p, sn, est, i, key) ==
    [seal |-> [pre |-> p, sn |-> sn, d |-> est],
     siger |-> [index |-> i, ondex |-> i, key |-> key]]
TransRct(e, quads) == [Rct(e, {}, {}) EXCEPT !.quads = quads]
==============================================================================
