------------------------------ MODULE MCReplies ------------------------------
(***************************************************************************)
(* Replies of a controller C, whose first keys must both sign and whose    *)
(* rotation recovers from an interaction at the same number, of an         *)
(* endpoint W and a stranger V that are non-transferable, in four          *)
(* histories, each of whose messages is sent again and again while the log *)
(* grows.                                                                  *)
(*   Roles: three replies of C about one role, in halves, under the        *)
(* inception and under the rotation, with a stop between two writes.       *)
(*   Ties: two of one date under the rotation, and a stop.                 *)
(*   Locations: three of W about its location, two of one date, and a stop.*)
(*   Notices: C, W and V tell of the key state of C.                       *)
(***************************************************************************)
EXTENDS Revery, TLC

Est(sn, keys, kt) == [pre |-> "C", sn |-> sn, est |-> TRUE, keys |-> keys, kt |-> kt]
Bodies ==
       "icp" :> Est(0, <<"k0", "k1">>, 2)
    @@ "ixn" :> [Est(1, <<>>, 0) EXCEPT !.est = FALSE]
    @@ "rot" :> Est(1, <<"k2">>, 1)
Events == DOMAIN Bodies
Order == "C" :> <<"icp", "ixn", "rot">>

Role(slot, dt, allowed) ==
    [route |-> "end", slot |-> slot, aid |-> "C", dt |-> dt, says |-> allowed]
Loc(dt, url) == [route |-> "loc", slot |-> "loc", aid |-> "W", dt |-> dt, says |-> url]
Notice(aid, e, dt) ==
    [route |-> "ksn", slot |-> aid, aid |-> aid, dt |-> dt,
     says |-> [pre |-> "C", sn |-> Bodies[e].sn, d |-> e]]
Replies ==
       "add"  :> Role("role", 4, "add")
    @@ "cut"  :> Role("role", 3, "cut")
    @@ "back" :> Role("role", 1, "again")
    @@ "rest" :> Role("role", 3, "rest")
    @@ "url1" :> Loc(1, "old")
    @@ "url2" :> Loc(2, "new")
    @@ "url3" :> Loc(2, "other")
    @@ "ksn0" :> Notice("C", "icp", 1)
    @@ "ksn1" :> Notice("C", "ixn", 2)
    @@ "ksn2" :> Notice("C", "rot", 2)
    @@ "ksnW" :> Notice("W", "rot", 2)
    @@ "ksnV" :> Notice("V", "rot", 2)
ReplyNames == DOMAIN Replies
Slots == {"role", "loc", "C", "W", "V"}
Sources == {[aid |-> "W", pre |-> "C"]}

Group(e, I) ==
    [seal |-> [pre |-> "C", sn |-> Bodies[e].sn, d |-> e],
     sigers |-> {[index |-> i, key |-> Bodies[e].keys[i]] : i \in I}]
Wrong(e) == [Group(e, {}) EXCEPT !.sigers = {[index |-> 1, key |-> "k9"]}]
Misnumbered(e, I) == [Group(e, I) EXCEPT !.seal.sn = 0]
ByGroups(r, groups) == [rp |-> r, cigars |-> {}, tsgs |-> groups]
ByCigarOf(r, w) == [rp |-> r, cigars |-> {[verfer |-> w, key |-> w]}, tsgs |-> <<>>]

Roles == {
    ByGroups("add", <<Group("icp", {1})>>), ByGroups("add", <<Group("icp", {2})>>),
    ByGroups("cut", <<Wrong("icp"), Group("rot", {1})>>),
    ByGroups("cut", <<Group("icp", {2})>>),
    ByGroups("back", <<Misnumbered("rot", {1})>>) }
Ties == {
    ByGroups("cut", <<Wrong("icp"), Group("rot", {1})>>),
    ByGroups("rest", <<Group("rot", {1})>>) }
Locations == { ByCigarOf("url1", "W"), ByCigarOf("url2", "W"), ByCigarOf("url3", "W") }
Notices == {
    ByGroups("ksn0", <<Group("icp", {1, 2})>>),
    ByGroups("ksn1", <<Wrong("ixn"), Group("icp", {1, 2})>>),
    ByGroups("ksn2", <<Group("rot", {1})>>),
    ByCigarOf("ksnW", "W"), ByCigarOf("ksnV", "V") }
All == Roles \cup Ties \cup Locations \cup Notices

Histories ==
    /\ InitStores
    /\ \/ sent \in {Roles, Ties, Locations} /\ crashes = 0
       \/ sent = Notices /\ crashes = MaxCrashes
    /\ net = sent
(* Under which what is shown stays on record.                              *)
ASSUME OrderlyHistories == Orderly

HistoriesSpec == Histories /\ [][Next]_vars /\ Fairness
==============================================================================
