---------------------------- MODULE MCRegistries ----------------------------
(***************************************************************************)
(* r is a backerless registry of A, s one of B: A issued c to B, revokes   *)
(* it, and B chains d to it.  A's log recovers from the anchor of the      *)
(* issuance by a rotation that anchors another one.  g is a registry of A  *)
(* with backers.  Or the node is A itself.                                 *)
(***************************************************************************)
EXTENDS Registries

T(ilk, pre, sn, reg, prior) ==
    [ilk |-> ilk, pre |-> pre, sn |-> sn, reg |-> reg, owner |-> "none", plain |-> FALSE,
     prior |-> prior, ra |-> "none", cuts |-> {}, adds |-> {}, toad |-> 0]

MCTel ==
    [r |-> [T("vcp", "r", 0, "r", "none") EXCEPT !.owner = "A", !.plain = TRUE],
     s |-> [T("vcp", "s", 0, "s", "none") EXCEPT !.owner = "B", !.plain = TRUE],
     g |-> [T("vcp", "g", 0, "g", "none") EXCEPT !.owner = "A", !.adds = {"w"}, !.toad = 1],
     g1 |-> [T("vrt", "g", 1, "g", "g") EXCEPT !.cuts = {"w"}, !.adds = {"v"}, !.toad = 1],
     ci |-> T("iss", "c", 0, "r", "none"),
     cj |-> T("iss", "c", 0, "r", "none"),
     cr |-> T("rev", "c", 1, "r", "ci"),
     di |-> T("iss", "d", 0, "s", "none"),
     eb |-> [T("bis", "e", 0, "g", "none") EXCEPT !.ra = "g1"],
     er |-> [T("brv", "e", 1, "g", "eb") EXCEPT !.ra = "g1"]]

K(p, n, prior, rot, seals) == [pre |-> p, sn |-> n, prior |-> prior, rot |-> rot, seals |-> seals]

MCKel ==
    [a0 |-> K("A", 0, "none", TRUE, {}),
     a1 |-> K("A", 1, "a0", FALSE, {"r"}),
     a2 |-> K("A", 2, "a1", FALSE, {"ci"}),
     a3 |-> K("A", 3, "a2", FALSE, {"cr"}),
     a2j |-> K("A", 2, "a1", TRUE, {"cj"}),
     h1 |-> K("A", 1, "a0", FALSE, {"g"}),
     h2 |-> K("A", 2, "h1", FALSE, {"g1"}),
     h3 |-> K("A", 3, "h2", FALSE, {"eb"}),
     h4 |-> K("A", 4, "h3", FALSE, {"er"}),
     b0 |-> K("B", 0, "none", TRUE, {}),
     b1 |-> K("B", 1, "b0", FALSE, {"s"}),
     b2 |-> K("B", 2, "b1", FALSE, {"di"})]

MCCard ==
    [c |-> [reg |-> "r", issuer |-> "A", issuee |-> "B", schema |-> "x", edges |-> <<>>],
     d |-> [reg |-> "s", issuer |-> "B", issuee |-> "none", schema |-> "x",
            edges |-> <<[node |-> "c", op |-> "none"]>>],
     e |-> [reg |-> "g", issuer |-> "A", issuee |-> "none", schema |-> "x", edges |-> <<>>]]

M(e, k, sigs) == [event |-> e, couple |-> k, sigs |-> sigs]
S(c) == [cred |-> c]
A(ks) == {[kel |-> k] : k \in ks}

Start(accepted, registries, resolved, mine) ==
    /\ kels = [p \in Aid |-> [n \in 0..MaxSn |->
                  SetToSeq({k \in accepted : MCKel[k].pre = p /\ MCKel[k].sn = n})]]
    /\ tels = [p \in Registry \cup Cred |-> [n \in 0..MaxSn |->
                  IF n = 0 /\ p \in registries THEN p ELSE None]]
    /\ tvts = registries
    /\ ancs = [e \in TelEvent |-> IF e = "r" /\ e \in registries THEN "a1"
                                  ELSE IF e = "s" /\ e \in registries THEN "b1" ELSE None]
    /\ tibs = [e \in TelEvent |-> {}] /\ baks = [e \in TelEvent |-> {}]
    /\ states = [x \in Registry |-> IF x \in registries THEN [said |-> x, baks |-> {}] ELSE NoState]
    /\ rows = {} /\ creds = {} /\ saved = {} /\ waits = {} /\ late = {} /\ schemas = resolved
    /\ own = mine /\ ctel = {} /\ cmse = {} /\ ccrd = {}

Chained ==
    /\ Start({"a0", "a1", "b0", "b1", "b2"}, {"s"}, {"x"}, {})
    /\ net = A({"a2", "a3"}) \cup {S("c"), S("d"), M("r", "a1", {}), M("ci", "a2", {}),
                                   M("cr", "a3", {}), M("di", "b2", {})}
    /\ hours = 0

Recovered ==
    /\ Start({"a0", "a1"}, {"r"}, {}, {})
    /\ net = A({"a2", "a3", "a2j"}) \cup {S("c"), M("ci", "a2", {}), M("cj", "a2j", {}),
                                          M("cr", "a3", {}), M("cr", "none", {})}
    /\ hours = 1

WithBackers ==
    /\ Start({"a0"}, {}, {"x"}, {})
    /\ net = A({"h1", "h2", "h3", "h4"}) \cup
             {M("g", "h1", {"w"}), M("g1", "h2", {"v", "w"}), M("eb", "h3", {"v"}),
              M("er", "h4", {"v"}), S("e")}
    /\ hours = 0

Owning ==
    /\ Start({"a0"}, {}, {"x"}, {"A"})
    /\ net = {} /\ hours = 0

Early ==
    /\ Start({"a0"}, {}, {"x"}, {})
    /\ net = A({"a1", "a2"}) \cup {M("r", "a1", {}), M("ci", "a2", {}), S("c")}
    /\ hours = 0

EarlySpec == Early /\ [][Next]_vars /\ Fairness

MCInit == Chained \/ Recovered \/ WithBackers \/ Owning

MCSpec == MCInit /\ [][Next]_vars /\ Fairness
==============================================================================
