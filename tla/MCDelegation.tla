---------------------------- MODULE MCDelegation ----------------------------
(***************************************************************************)
(* Two families of logs.  k anchors the inception and three rotations of   *)
(* its delegate b: the first in an interaction that k then recovers from,  *)
(* by a rotation that anchors the other two; an outsider x anchors b's     *)
(* rotation too.  d is a delegate of r and the delegator of a: two         *)
(* rotations of d, which r approves one after the other, each approve one  *)
(* of a's.  Where x and a are the node's own, each rotates once too often  *)
(* at number 1, and a rotation of a comes back from the network, so that   *)
(* it is accepted again after its rival took its place.                    *)
(***************************************************************************)
EXTENDS Delegation

E(p, ilk, sn, prior, seals) ==
    [pre |-> p, ilk |-> ilk, sn |-> sn, prior |-> prior, seals |-> seals]

MCPre == {"k", "x", "b", "r", "d", "a"}
MCDelegator == [p \in MCPre |-> CASE p = "b" -> "k" [] p = "d" -> "r" [] p = "a" -> "d"
                                  [] OTHER -> "none"]
Log ==
    [k0 |-> E("k", "icp", 0, "none", <<>>),
     k1 |-> E("k", "ixn", 1, "k0", <<"b0">>),
     k2 |-> E("k", "ixn", 2, "k1", <<"b1">>),
     k3 |-> E("k", "ixn", 3, "k2", <<"b1t">>),
     k2r |-> E("k", "rot", 2, "k1", <<"b1r", "b1s">>),
     x0 |-> E("x", "icp", 0, "none", <<>>),
     x1 |-> E("x", "ixn", 1, "x0", <<"b1">>),
     b0 |-> E("b", "dip", 0, "none", <<>>),
     b1 |-> E("b", "drt", 1, "b0", <<>>),
     b2 |-> E("b", "ixn", 2, "b1", <<>>),
     b1r |-> E("b", "drt", 1, "b0", <<>>),
     b1t |-> E("b", "drt", 1, "b0", <<>>),
     b1s |-> E("b", "drt", 1, "b0", <<>>),
     r0 |-> E("r", "icp", 0, "none", <<>>),
     r1 |-> E("r", "ixn", 1, "r0", <<"d0">>),
     r2 |-> E("r", "ixn", 2, "r1", <<"d2">>),
     r3 |-> E("r", "ixn", 3, "r2", <<"d2r">>),
     d0 |-> E("d", "dip", 0, "none", <<>>),
     d1 |-> E("d", "ixn", 1, "d0", <<"a0">>),
     d2 |-> E("d", "drt", 2, "d1", <<"a1">>),
     d2r |-> E("d", "drt", 2, "d1", <<"a1r">>),
     a0 |-> E("a", "dip", 0, "none", <<>>),
     a1 |-> E("a", "drt", 1, "a0", <<>>),
     a1r |-> E("a", "drt", 1, "a0", <<>>),
     a2 |-> E("a", "drt", 2, "a1", <<>>),
     x1r |-> E("x", "rot", 1, "x0", <<>>),
     x2 |-> E("x", "ixn", 2, "x1r", <<>>),
     x1s |-> E("x", "rot", 1, "x0", <<>>)]

Boss == [b0 |-> "k1", b1 |-> "k2", b1r |-> "k2r", b1s |-> "k2r", d0 |-> "r1",
         d2 |-> "r2", d2r |-> "r3", a0 |-> "d1", a1 |-> "d2", a1r |-> "d2r"]

Plain(es, mine) == {[event |-> e, seal |-> "none", local |-> Log[e].pre \in mine] : e \in es}
Sealed(es) == {[event |-> e, seal |-> Boss[e], local |-> FALSE] : e \in es}

One == {"k1", "k2", "k2r", "b0", "b1", "b2", "b1r", "b1s", "x1"}
Own == {"x1r", "x2", "x1s", "a1", "a2", "a1r"}
Two == {"r1", "r2", "r3", "d0", "d1", "d2", "d2r", "a0", "a1", "a1r"}

(* The first events of the roots are known; the rest comes in any order,   *)
(* with source seals or without; or the node is k's own.                   *)
Known(roots) ==
    /\ evts = roots
    /\ kels = [p \in Pre |-> [n \in 0..MaxSn |->
                  IF n = 0 THEN SetToSeq({e \in roots : Log[e].pre = p}) ELSE <<>>]]
    /\ fels = [p \in Pre |-> SetToSeq({e \in roots : Log[e].pre = p})]
    /\ state = [p \in Pre |-> [said |-> IF kels[p][0] = <<>> THEN None ELSE kels[p][0][1],
                                est |-> IF kels[p][0] = <<>> THEN None ELSE kels[p][0][1]]]
    /\ aess = [e \in Event |-> None] /\ udes = [e \in Event |-> None]
    /\ esrs = {} /\ escrow = {} /\ turn = 0 /\ due = {}

MCInit ==
    \/ /\ Known({"k0", "x0"}) /\ own = {}
       /\ net = Plain(One \ {"x1", "b2"}, {}) \cup Sealed({"b1r"})
    \/ /\ Known({"k0", "x0"}) /\ own = {}
       /\ net = Plain(One \ DOMAIN Boss, {}) \cup Sealed({"b0", "b1", "b1r"})
    \/ /\ Known({"k0", "x0"}) /\ own = {"k"}
       /\ net = Plain(One \ {"x1", "b2"}, {"k"})
    \/ /\ Known({"r0"}) /\ own = {}
       /\ net = Plain(Two \ {"a1", "a1r"}, {}) \cup Sealed({"a1", "a1r"})
    \/ /\ Known({"x0", "a0"}) /\ own = {"x", "a"}
       /\ net = Plain(Own, {"x", "a"}) \cup Plain({"a1"}, {})

MCSpec == MCInit /\ [][Next]_vars /\ Fairness
==============================================================================
