---------------------------- MODULE HabitatProofs ----------------------------
(***************************************************************************)
(* Proofs about habitats and the keeper, for any names, groups and numbers *)
(* of rotations: wherever the node stops, the keys that an accepted log is *)
(* signed with or promised are kept, and the node owns what it accepted.   *)
(***************************************************************************)
EXTENDS Habitat, TLAPS

------------------------------------------------------------------------------
(* Making a lot: it is of its name and place, and new.                     *)
LEMMA NewLotTyped ==
    ASSUME NEW name \in Name, NEW k \in 0..MaxRidx, MadeAfter(name) <= MaxMade, made \in Nat
    PROVE  /\ NewLot(name, k) \in Lot /\ NewLot(name, k).ridx = k
           /\ NewLot(name, k).name = name
           /\ name \in Salty => NewLot(name, k).nonce = 0
           /\ name \in Randy => NewLot(name, k).nonce = made
           /\ MadeAfter(name) \in Nat /\ made <= MadeAfter(name)
           /\ name \in Randy => MadeAfter(name) = made + 1
<1>1. CASE name \in Randy
  BY <1>1, HabitatAssumption DEF NewLot, MadeAfter, Lot, Name
<1>2. CASE name \notin Randy
  BY <1>2, HabitatAssumption DEF NewLot, MadeAfter, Lot, Name
<1> QED BY <1>1, <1>2, HabitatAssumption

------------------------------------------------------------------------------
(* The lots of an identifier *)

Sit == [old : Lot \cup {None}, new : Lot \cup {None}, nxt : Lot \cup {None}]

KeeperTypes ==
    /\ pres \subseteq Pre /\ pris \subseteq Lot
    /\ sits \in [Pre -> Sit]
    /\ pubs \in [Pre -> [0..MaxRidx -> Lot \cup {None}]]
    /\ log \in [Pre \cup Group -> [cur : Lot \cup Group \cup {None}, next : Lot \cup Group \cup {None}]]
    /\ made \in Nat

(* Nothing is kept of an identifier not made yet.                          *)
Blank(p) == sits[p] = NoSit /\ log[p] = NoLog /\ \A k \in 0..MaxRidx : pubs[p][k] = None

Lots(p) ==
    {p, sits[p].old, sits[p].new, sits[p].nxt, log[p].cur, log[p].next}
      \cup {pubs[p][k] : k \in 0..MaxRidx}

(* A lot of p is of its name, and of random keys made before.              *)
Mine(l, p) ==
    /\ l \in Lot /\ l.name = p.name
    /\ p.name \in Salty => l.nonce = 0
    /\ p.name \in Randy => l.nonce < made

Owned == \A p \in pres : \A l \in Lots(p) \ {None} : Mine(l, p)

Apart == \A p, q \in pres : p # q => Lots(p) \cap Lots(q) \subseteq {None}

(* Lots follow one another, in the keeper, its public keys and the log.    *)
SitNumbered(p) ==
    sits[p] # NoSit =>
        /\ sits[p].new \in Lot /\ sits[p].nxt \in Lot
        /\ sits[p].nxt.ridx = sits[p].new.ridx + 1
        /\ sits[p].old # None => sits[p].new.ridx = sits[p].old.ridx + 1

PubsNumbered(p) == \A k \in 0..MaxRidx : pubs[p][k] # None => pubs[p][k].ridx = k

LogNumbered(p) ==
    Accepted(p) => /\ log[p].cur \in Lot /\ log[p].next \in Lot
                   /\ log[p].next.ridx = log[p].cur.ridx + 1
                   /\ sits[p] # NoSit

(* Private keys are stored before the public ones of a lot, and erased     *)
(* only once the log is past it.                                           *)
LaterKept(p) ==
    Accepted(p) => \A k \in 0..MaxRidx :
        k > log[p].cur.ridx /\ pubs[p][k] # None => pubs[p][k] \in pris

Numbered == \A p \in pres : SitNumbered(p) /\ PubsNumbered(p) /\ LogNumbered(p) /\ LaterKept(p)

KeysInv ==
    /\ KeeperTypes
    /\ \A p \in Pre \ pres : Blank(p)
    /\ Owned /\ Apart /\ Numbered
    /\ KeysKept

------------------------------------------------------------------------------
(* Steps of the keeper *)

(* Two identifiers of one name differ in the nonce of their first lots.    *)
LEMMA SaltyAlone ==
    ASSUME KeysInv, NEW p \in Pre, NEW q \in pres, p.name \in Salty, p.nonce = 0, q.name = p.name
    PROVE  p = q
<1>1. q \in Pre /\ Mine(q, q)
  BY HabitatAssumption DEF KeysInv, KeeperTypes, Owned, Lots, Pre
<1> QED BY <1>1 DEF Mine, Pre, Lot

(* A lot just made is none of another identifier's.                        *)
LEMMA NewLotApart ==
    ASSUME KeysInv, NEW p \in Pre, NEW q \in pres, p # q, NEW l \in Lot, l.name = p.name,
           p.name \in Salty => p.nonce = 0, p.name \in Randy => l.nonce = made
    PROVE  l \notin Lots(q)
<1> SUFFICES ASSUME l \in Lots(q) PROVE FALSE
  OBVIOUS
<1>1. Mine(l, q) /\ l # None
  BY HabitatAssumption DEF KeysInv, Owned
<1>2. q.name = p.name /\ (p.name \in Salty \/ p.name \in Randy)
  BY <1>1 DEF Mine, Pre, Lot, Name
<1>3. CASE p.name \in Salty
  BY <1>2, <1>3, SaltyAlone
<1>4. CASE p.name \in Randy
  BY <1>1, <1>2, <1>4 DEF Mine, KeysInv, KeeperTypes
<1> QED BY <1>2, <1>3, <1>4

(* What is kept of an identifier that a step does not touch stays good.    *)
Untouched(q) ==
    sits'[q] = sits[q] /\ log'[q] = log[q] /\ pubs'[q] = pubs[q]

LEMMA UntouchedLots ==
    ASSUME NEW q, Untouched(q)
    PROVE  /\ Lots(q)' = Lots(q)
           /\ Blank(q) => Blank(q)'
           /\ SitNumbered(q) => SitNumbered(q)'
           /\ PubsNumbered(q) => PubsNumbered(q)'
           /\ LogNumbered(q) => LogNumbered(q)'
BY DEF Untouched, Lots, Blank, SitNumbered, PubsNumbered, LogNumbered, Accepted

LEMMA MineLonger ==
    ASSUME made \in Nat, made' \in Nat, made <= made', NEW l, NEW p, l \in Lot, Mine(l, p)
    PROVE  Mine(l, p)'
BY DEF Mine, Lot

(* Hab.make, up to any write: the new identifier stands by itself.         *)
LEMMA MakeKeys ==
    ASSUME KeysInv, NEW n \in 0..MakeWrites, NEW name \in Name, NEW fate, Make(n, name, fate)
    PROVE  KeysInv'
<1>1. made \in Nat /\ MadeAfter(name) <= MaxMade /\ open /\ made' = MadeAfter(name)
  BY DEF Make, KeysInv, KeeperTypes
<1>2. PICK p \in Lot, next \in Lot :
        /\ p = NewLot(name, 0) /\ next = NewLot(name, 1) /\ p \notin pres
        /\ Incept(n, p, next) /\ Record(n, name, p, next, fate)
  BY <1>1, NewLotTyped, HabitatAssumption DEF Make
<1>3. /\ p.ridx = 0 /\ next.ridx = 1 /\ p \in Pre /\ p # None /\ next # None
      /\ p.name = name /\ next.name = name
      /\ name \in Salty => p.nonce = 0 /\ next.nonce = 0
      /\ name \in Randy => p.nonce = made /\ next.nonce = made /\ made' = made + 1
      /\ made' \in Nat /\ made <= made'
  BY <1>1, <1>2, NewLotTyped, HabitatAssumption DEF Pre
<1>4. Blank(p)
  BY <1>2, <1>3 DEF KeysInv
<1> DEFINE sit == [old |-> None, new |-> p, nxt |-> next]
           lot == [cur |-> p, next |-> next]
           pub == [pubs[p] EXCEPT ![0] = p, ![1] = next]
<1>5. /\ pres \subseteq pres' /\ pres' \subseteq pres \cup {p}
      /\ p \notin pres' => n = 0
      /\ sits' \in [Pre -> Sit] /\ sits'[p] = IF n >= 3 THEN sit ELSE NoSit
      /\ \A q \in Pre : q # p => sits'[q] = sits[q]
  <2>1. sit \in Sit
    BY <1>3 DEF Sit
  <2> QED BY <1>2, <1>3, <1>4, <2>1 DEF Incept, KeysInv, KeeperTypes, Blank
<1>6. /\ pris' = IF n >= 4 THEN pris \cup {p, next} ELSE pris
      /\ pub \in [0..MaxRidx -> Lot \cup {None}]
      /\ \A k \in 0..MaxRidx : pub[k] = IF k = 0 THEN p ELSE IF k = 1 THEN next ELSE None
      /\ pubs' \in [Pre -> [0..MaxRidx -> Lot \cup {None}]]
      /\ pubs'[p] = IF n >= 5 THEN pub ELSE pubs[p]
      /\ \A q \in Pre : q # p => pubs'[q] = pubs[q]
  <2>1. /\ pris' = IF n >= 4 THEN pris \cup {p, next} ELSE pris
        /\ pubs' = IF n >= 5 THEN [pubs EXCEPT ![p] = pub] ELSE pubs
    BY <1>2 DEF Incept
  <2>2. pubs[p] \in [0..MaxRidx -> Lot \cup {None}]
    BY <1>3 DEF KeysInv, KeeperTypes
  <2>3. pub \in [0..MaxRidx -> Lot \cup {None}]
    BY <2>2, <1>3
  <2>4. \A k \in 0..MaxRidx : pub[k] = IF k = 0 THEN p ELSE IF k = 1 THEN next ELSE None
    BY <2>2, <1>4, HabitatAssumption DEF Blank
  <2> HIDE DEF pub
  <2> QED BY <2>1, <2>3, <2>4, <1>3 DEF KeysInv, KeeperTypes
<1>7. /\ log' \in [Pre \cup Group -> [cur : Lot \cup Group \cup {None}, next : Lot \cup Group \cup {None}]]
      /\ log'[p] \in {NoLog, lot}
      /\ log'[p] # NoLog => n = 10
      /\ \A q \in Pre : q # p => log'[q] = log[q]
  <2>1. lot \in [cur : Lot \cup Group \cup {None}, next : Lot \cup Group \cup {None}]
    OBVIOUS
  <2> QED BY <1>2, <1>3, <1>4, <2>1 DEF Record, KeysInv, KeeperTypes, Blank, MakeWrites
<1> HIDE DEF pub
<1>8. KeeperTypes'
  BY <1>3, <1>5, <1>6, <1>7 DEF KeysInv, KeeperTypes
<1>9. \A q \in Pre : q # p => Untouched(q)
  BY <1>5, <1>6, <1>7 DEF Untouched
<1>10. Lots(p)' \subseteq {p, next, None}
  BY <1>3, <1>4, <1>5, <1>6, <1>7 DEF Lots, NoSit, NoLog, Blank
<1>11. Mine(p, p)' /\ Mine(next, p)'
  BY <1>1, <1>3, HabitatAssumption DEF Mine
<1>12. (\A q \in Pre \ pres : Blank(q))'
  <2> SUFFICES ASSUME NEW q \in Pre, q \notin pres' PROVE Blank(q)'
    OBVIOUS
  <2>1. Blank(q)
    BY <1>5 DEF KeysInv
  <2>2. CASE q = p
    BY <2>2, <1>4, <1>5, <1>6, <1>7 DEF Blank
  <2> QED BY <2>1, <2>2, <1>9, UntouchedLots
<1>13. Owned'
  <2> SUFFICES ASSUME NEW q \in pres', NEW l \in Lots(q)', l # None PROVE Mine(l, q)'
    BY DEF Owned
  <2>1. CASE q = p
    BY <2>1, <1>10, <1>11
  <2>2. CASE q # p
    <3>1. q \in pres /\ l \in Lots(q)
      BY <2>2, <1>5, <1>9, UntouchedLots DEF KeysInv, KeeperTypes
    <3>2. Mine(l, q)
      BY <3>1 DEF KeysInv, Owned
    <3> QED BY <3>2, <1>1, <1>3, MineLonger DEF Mine
  <2> QED BY <2>1, <2>2
<1>14. Apart'
  <2>1. \A q \in pres : p \notin Lots(q) /\ next \notin Lots(q)
    BY <1>2, <1>3, NewLotApart
  <2>2. \A q \in pres : q \in Pre /\ q # p /\ Lots(q)' = Lots(q)
    BY <1>2, <1>9, UntouchedLots DEF KeysInv, KeeperTypes
  <2>3. \A q \in pres : Lots(p)' \cap Lots(q)' \subseteq {None}
    BY <2>1, <2>2, <1>10
  <2>4. \A q, r \in pres : q # r => Lots(q)' \cap Lots(r)' \subseteq {None}
    BY <2>2 DEF KeysInv, Apart
  <2> QED BY <2>3, <2>4, <1>5 DEF Apart
<1>15. Numbered'
  <2> SUFFICES ASSUME NEW q \in pres'
               PROVE  (SitNumbered(q) /\ PubsNumbered(q) /\ LogNumbered(q) /\ LaterKept(q))'
    BY DEF Numbered
  <2>1. CASE q = p
    <3>1. SitNumbered(p)'
      BY <1>3, <1>5 DEF SitNumbered
    <3>2. PubsNumbered(p)'
      BY <1>3, <1>4, <1>6 DEF PubsNumbered, Blank
    <3>3. LogNumbered(p)'
      BY <1>3, <1>5, <1>7 DEF LogNumbered, Accepted, NoSit
    <3>4. LaterKept(p)'
      BY <1>3, <1>6, <1>7 DEF LaterKept, Accepted
    <3> QED BY <2>1, <3>1, <3>2, <3>3, <3>4
  <2>2. CASE q # p
    <3>1. q \in pres /\ q \in Pre /\ Untouched(q)
      BY <2>2, <1>5, <1>9 DEF KeysInv, KeeperTypes
    <3>2. LaterKept(q)'
      BY <3>1, <1>6 DEF KeysInv, Numbered, LaterKept, Untouched, Accepted
    <3> QED BY <3>1, <3>2, UntouchedLots DEF KeysInv, Numbered
  <2> QED BY <2>1, <2>2
<1>16. KeysKept'
  <2> SUFFICES ASSUME NEW q \in Pre, Accepted(q)' PROVE ({log[q].cur, log[q].next} \subseteq pris)'
    BY DEF KeysKept
  <2>1. CASE q = p
    BY <2>1, <1>6, <1>7 DEF Accepted
  <2>2. CASE q # p
    BY <2>2, <1>6, <1>9 DEF KeysInv, KeysKept, Untouched, Accepted
  <2> QED BY <2>1, <2>2
<1> QED BY <1>8, <1>12, <1>13, <1>14, <1>15, <1>16 DEF KeysInv

(* The lot a rotation takes is a later one kept, or one newly made.        *)
LEMMA LaterLot ==
    ASSUME KeysInv, NEW p \in pres, CanRotate(p)
    PROVE  /\ p \in Pre /\ Accepted(p)
           /\ sits[p] # NoSit /\ sits[p].new \in Lot /\ sits[p].nxt \in Lot
           /\ Later(p) \in Lot /\ Later(p).ridx = sits[p].nxt.ridx + 1
           /\ Later(p).ridx \in 0..MaxRidx /\ Later(p).name = p.name
           /\ IF Kept(p) # None THEN Later(p) = pubs[p][Later(p).ridx]
              ELSE /\ MadeAfter(p.name) \in Nat /\ made <= MadeAfter(p.name)
                   /\ p.name \in Salty => Later(p).nonce = 0
                   /\ p.name \in Randy => Later(p).nonce = made /\ MadeAfter(p.name) = made + 1
<1> DEFINE k == sits[p].nxt.ridx + 1
<1>1. p \in Pre /\ Accepted(p) /\ sits[p].nxt # None /\ sits[p].nxt.ridx < MaxRidx
  BY DEF CanRotate, KeysInv, KeeperTypes
<1>2. sits[p] # NoSit /\ sits[p].new \in Lot /\ sits[p].nxt \in Lot
  BY <1>1 DEF KeysInv, Numbered, LogNumbered, SitNumbered
<1>3. k \in 0..MaxRidx
  BY <1>1, <1>2, HabitatAssumption DEF Lot
<1>4. CASE Kept(p) # None
  <2>1. Later(p) = pubs[p][k] /\ pubs[p][k] # None
    BY <1>4, <1>3 DEF Later, Kept
  <2>2. pubs[p] \in [0..MaxRidx -> Lot \cup {None}] /\ PubsNumbered(p)
    BY <1>1 DEF KeysInv, KeeperTypes, Numbered
  <2> HIDE DEF k
  <2>4. pubs[p][k] \in Lot /\ pubs[p][k].ridx = k
    BY <1>3, <2>1, <2>2 DEF PubsNumbered
  <2>3. pubs[p][k].name = p.name
    BY <1>3, <2>1 DEF KeysInv, Owned, Lots, Mine
  <2> QED BY <1>1, <1>2, <1>3, <1>4, <2>1, <2>3, <2>4 DEF k
<1>5. CASE Kept(p) = None
  <2>1. Later(p) = NewLot(p.name, k) /\ MadeAfter(p.name) <= MaxMade
    BY <1>5 DEF Later, CanRotate
  <2>2. p.name \in Name /\ made \in Nat
    BY <1>1 DEF Pre, Lot, KeysInv, KeeperTypes
  <2> QED BY <1>1, <1>2, <1>3, <1>5, <2>1, <2>2, NewLotTyped
<1> QED BY <1>4, <1>5

(* Hab.rotate, up to any write, accepted or not.                           *)
LEMMA RotateKeys ==
    ASSUME KeysInv, NEW n \in 0..RotateWrites, NEW p \in pres, NEW sound \in BOOLEAN,
           Rotate(n, p, sound)
    PROVE  KeysInv'
<1> DEFINE good == n >= 4 /\ RotationAccepted(p, sound)
<1>0. sits[p].old \in Lot \cup {None} /\ sits[p].new \in Lot /\ sits[p].nxt \in Lot
      /\ Later(p) \in Lot /\ Later(p).ridx \in 0..MaxRidx
  BY LaterLot DEF Rotate, KeysInv, KeeperTypes, Sit
<1>1. PICK l \in Lot, old \in Lot \cup {None}, new \in Lot, nxt \in Lot, k \in 0..MaxRidx :
        l = Later(p) /\ old = sits[p].old /\ new = sits[p].new /\ nxt = sits[p].nxt /\ k = l.ridx
  BY <1>0
<1> DEFINE on == [old |-> new, new |-> nxt, nxt |-> l]
           pub == [pubs[p] EXCEPT ![k] = l]
           lot == [cur |-> nxt, next |-> l]
<1>2. /\ p \in Pre /\ Accepted(p) /\ sits[p] # NoSit /\ k = nxt.ridx + 1 /\ l.name = p.name
      /\ new # None /\ nxt # None /\ l # None
      /\ nxt.ridx = new.ridx + 1
      /\ old # None => new.ridx = old.ridx + 1
      /\ IF Kept(p) # None THEN l = pubs[p][k] /\ made' = made
         ELSE /\ made' \in Nat /\ made <= made'
              /\ p.name \in Salty => l.nonce = 0
              /\ p.name \in Randy => l.nonce = made /\ made' = made + 1
      /\ made' \in Nat /\ made <= made'
  <2>1. made \in Nat /\ SitNumbered(p) /\ CanRotate(p)
    BY DEF Rotate, KeysInv, KeeperTypes, Numbered
  <2>2. made' = IF Kept(p) = None THEN MadeAfter(p.name) ELSE made
    BY DEF Rotate
  <2> QED BY <1>1, <2>1, <2>2, LaterLot, HabitatAssumption DEF SitNumbered
<1>a. /\ nxt.ridx \in Int /\ new.ridx \in Int /\ (old # None => old.ridx \in Int)
      /\ l.ridx = nxt.ridx + 1 /\ nxt.ridx = new.ridx + 1
      /\ (old # None => new.ridx = old.ridx + 1)
  BY <1>1, <1>2, HabitatAssumption DEF Lot
<1>b. \A x \in Lot : x.ridx \in Int /\ x.ridx > new.ridx => x # old
  BY <1>a, HabitatAssumption
<1>c. nxt # old /\ l # old
  BY <1>a, <1>b
<1>d. Kept(p) # None => l = pubs[p][k] /\ pubs[p][k] \in Lots(p)
  BY <1>2 DEF Lots
<1>3. /\ pres' = pres
      /\ sits' \in [Pre -> Sit] /\ sits'[p] \in {sits[p], on}
      /\ \A q \in Pre : q # p => sits'[q] = sits[q]
  <2>1. on \in Sit /\ Advanced(p) = on
    BY <1>1 DEF Sit, Advanced
  <2>2. pres' = pres /\ \E v \in {sits[p], on} : sits' = [sits EXCEPT ![p] = v]
    BY <2>1 DEF Rotate, SitAfter
  <2> HIDE DEF on
  <2> QED BY <1>2, <2>1, <2>2 DEF KeysInv, KeeperTypes
<1>4. /\ pubs' \in [Pre -> [0..MaxRidx -> Lot \cup {None}]]
      /\ \A q \in Pre : q # p => pubs'[q] = pubs[q]
      /\ \A j \in 0..MaxRidx : pubs'[p][j] \in {pubs[p][j]} \cup (IF j = k THEN {l} ELSE {})
      /\ n < 3 => pubs' = pubs
  <2>1. pubs' = IF n >= 3 THEN [pubs EXCEPT ![p] = pub] ELSE pubs
    BY <1>1 DEF Rotate
  <2>2. /\ pub \in [0..MaxRidx -> Lot \cup {None}]
        /\ \A j \in 0..MaxRidx : pub[j] = IF j = k THEN l ELSE pubs[p][j]
    BY <1>1, <1>2 DEF KeysInv, KeeperTypes
  <2> HIDE DEF pub
  <2> QED BY <1>2, <2>1, <2>2 DEF KeysInv, KeeperTypes
<1>5. /\ log' \in [Pre \cup Group -> [cur : Lot \cup Group \cup {None}, next : Lot \cup Group \cup {None}]]
      /\ log'[p] = IF good THEN lot ELSE log[p]
      /\ good => nxt = log[p].next
      /\ \A q \in Pre : q # p => log'[q] = log[q]
  <2>1. log' = IF good THEN [log EXCEPT ![p] = lot] ELSE log
    BY <1>1 DEF Rotate
  <2>2. lot \in [cur : Lot \cup Group \cup {None}, next : Lot \cup Group \cup {None}]
    BY <1>1
  <2>3. good => nxt = log[p].next
    BY <1>1 DEF RotationAccepted
  <2> HIDE DEF lot, good
  <2> QED BY <1>2, <2>1, <2>2, <2>3 DEF KeysInv, KeeperTypes
<1>6. /\ pris' \subseteq Lot
      /\ \A x \in pris : x \notin pris' => good /\ x = old
      /\ n >= 2 /\ Kept(p) = None => l \in pris'
  <2>1. pris' = (IF n >= 2 /\ Kept(p) = None THEN pris \cup {l} ELSE pris)
                   \ (IF n >= 5 THEN Erased(p, sound) ELSE {})
    BY <1>1 DEF Rotate
  <2>2. Erased(p, sound) \subseteq (IF RotationAccepted(p, sound) THEN {old} ELSE {})
    BY <1>1 DEF Erased
  <2>3. l # old
    BY <1>c
  <2> QED BY <2>1, <2>2, <2>3, <1>1 DEF KeysInv, KeeperTypes
<1> HIDE DEF pub, good
<1>7. KeeperTypes'
  BY <1>2, <1>3, <1>4, <1>5, <1>6 DEF KeysInv, KeeperTypes
<1>8. \A q \in Pre : q # p => Untouched(q)
  BY <1>3, <1>4, <1>5 DEF Untouched
<1>9. Lots(p)' \subseteq Lots(p) \cup {l}
  BY <1>1, <1>2, <1>3, <1>4, <1>5 DEF Lots
<1>10. (\A q \in Pre \ pres : Blank(q))'
  BY <1>3, <1>8, UntouchedLots DEF KeysInv
<1>11. \A q \in pres : q \in Pre /\ (q # p => Lots(q)' = Lots(q))
  BY <1>8, UntouchedLots DEF KeysInv, KeeperTypes
<1>12. \A q \in pres : \A x \in Lots(q) : x # None => Mine(x, q)'
  BY <1>2, MineLonger DEF KeysInv, KeeperTypes, Owned, Mine
<1>13. Mine(l, p)'
  <2>1. CASE Kept(p) # None
    BY <2>1, <1>2, <1>12, <1>d
  <2>2. CASE Kept(p) = None
    BY <2>2, <1>1, <1>2 DEF Mine, KeysInv, KeeperTypes
  <2> QED BY <2>1, <2>2
<1>14. Owned'
  BY <1>3, <1>9, <1>11, <1>12, <1>13 DEF Owned
<1>15. \A q \in pres : q # p => l \notin Lots(q)
  <2>1. CASE Kept(p) # None
    BY <2>1, <1>2, <1>d DEF KeysInv, Apart
  <2>2. CASE Kept(p) = None
    <3>1. p.name \in Salty => p.nonce = 0
      BY <1>2, HabitatAssumption DEF KeysInv, Owned, Lots, Mine, Pre
    <3> QED BY <2>2, <3>1, <1>1, <1>2, NewLotApart
  <2> QED BY <2>1, <2>2
<1>16. Apart'
  BY <1>3, <1>9, <1>11, <1>15 DEF KeysInv, Apart
<1>17. Numbered'
  <2> SUFFICES ASSUME NEW q \in pres
               PROVE  (SitNumbered(q) /\ PubsNumbered(q) /\ LogNumbered(q) /\ LaterKept(q))'
    BY <1>3 DEF Numbered
  <2>1. CASE q = p
    <3>1. SitNumbered(p)'
      <4>1. CASE sits'[p] = sits[p]
        BY <4>1 DEF SitNumbered, KeysInv, Numbered
      <4>2. CASE sits'[p] = on
        BY <4>2, <1>2, <1>a DEF SitNumbered
      <4> QED BY <4>1, <4>2, <1>3
    <3>2. PubsNumbered(p)'
      BY <1>1, <1>4 DEF PubsNumbered, KeysInv, Numbered
    <3>3. LogNumbered(p)'
      <4>1. sits'[p] # NoSit
        BY <1>2, <1>3 DEF NoSit
      <4>2. CASE good
        BY <4>1, <4>2, <1>a, <1>5 DEF LogNumbered
      <4>3. CASE ~good
        BY <4>1, <4>3, <1>5 DEF LogNumbered, KeysInv, Numbered, Accepted
      <4> QED BY <4>2, <4>3
    <3>4. LaterKept(p)'
      <4>1. log[p].cur \in Lot /\ log[p].next.ridx = log[p].cur.ridx + 1 /\ LaterKept(p)
        BY <1>2 DEF KeysInv, Numbered, LogNumbered
      <4>2. \A j \in 0..MaxRidx : pubs'[p][j] # None /\ pubs'[p][j] # pubs[p][j] =>
                j = k /\ pubs'[p][j] = l /\ n >= 3
        BY <1>4
      <4>3. Kept(p) = pubs[p][k]
        BY <1>1, <1>2 DEF Kept
      <4>4. log'[p].cur \in Lot /\ log'[p].cur.ridx >= log[p].cur.ridx
            /\ (good => log'[p].cur = nxt)
        BY <4>1, <1>1, <1>5, HabitatAssumption DEF Lot
      <4> SUFFICES ASSUME NEW j \in 0..MaxRidx, j > log'[p].cur.ridx, pubs'[p][j] # None
                   PROVE  pubs'[p][j] \in pris'
        BY DEF LaterKept
      <4>5. CASE pubs'[p][j] = pubs[p][j]
        <5>1. j > log[p].cur.ridx
          BY <4>1, <4>4, HabitatAssumption DEF Lot
        <5>2. pubs[p][j] \in pris /\ pubs[p][j].ridx = j /\ pubs[p][j] \in Lot
          BY <5>1, <4>1, <4>5, <1>2, <1>4 DEF LaterKept, KeysInv, KeeperTypes, Numbered, PubsNumbered
        <5>3. good => pubs[p][j] # old
          BY <5>2, <4>4, <1>a, <1>b
        <5> QED BY <5>2, <5>3, <4>5, <1>6
      <4>6. CASE pubs'[p][j] # pubs[p][j]
        <5>1. j = k /\ pubs'[p][j] = l /\ n >= 3
          BY <4>2, <4>6
        <5>2. Kept(p) = None
          BY <5>1, <4>3, <4>6, <1>2
        <5> QED BY <5>1, <5>2, <1>6
      <4> QED BY <4>5, <4>6
    <3> QED BY <2>1, <3>1, <3>2, <3>3, <3>4
  <2>2. CASE q # p
    <3>1. q \in Pre /\ Untouched(q)
      BY <2>2, <1>8, <1>11
    <3>2. LaterKept(q)'
      <4>1. old \notin Lots(q) \ {None}
        BY <2>2, <1>1 DEF KeysInv, Apart, Lots
      <4>2. \A j \in 0..MaxRidx : pubs[q][j] \in Lots(q)
        BY DEF Lots
      <4> QED BY <3>1, <4>1, <4>2, <1>6 DEF KeysInv, Numbered, LaterKept, Untouched, Accepted
    <3> QED BY <3>1, <3>2, UntouchedLots DEF KeysInv, Numbered
  <2> QED BY <2>1, <2>2
<1>18. KeysKept'
  <2> SUFFICES ASSUME NEW q \in Pre, Accepted(q)' PROVE ({log[q].cur, log[q].next} \subseteq pris)'
    BY DEF KeysKept
  <2>1. CASE q # p
    <3>1. Accepted(q) /\ log'[q] = log[q] /\ q \in pres
      BY <2>1, <1>8 DEF Untouched, Accepted, KeysInv, Blank
    <3>2. {log[q].cur, log[q].next} \subseteq pris
      BY <3>1 DEF KeysInv, KeysKept
    <3>3. log[q].cur # old /\ log[q].next # old
      BY <3>1, <2>1, <1>1, HabitatAssumption
      DEF KeysInv, Apart, Lots, Numbered, LogNumbered
    <3> QED BY <3>1, <3>2, <3>3, <1>6
  <2>2. CASE q = p
    <3>1. log[p].cur \in pris /\ log[p].next \in pris
      BY <1>2 DEF KeysInv, KeysKept
    <3>2. CASE ~good
      BY <2>2, <3>1, <3>2, <1>5, <1>6
    <3>3. CASE good
      <4>1. nxt \in pris /\ n >= 4
        BY <3>1, <3>3, <1>5 DEF good
      <4>2. nxt # old /\ l # old
        BY <1>c
      <4>3. CASE Kept(p) = None
        BY <4>1, <4>2, <4>3, <3>3, <2>2, <1>5, <1>6
      <4>4. CASE Kept(p) # None
        <5>1. log[p].cur.ridx < k
          BY <3>3, <1>1, <1>2, <1>5, HabitatAssumption DEF KeysInv, Numbered, LogNumbered, Lot
        <5>2. l \in pris
          BY <5>1, <4>4, <1>1, <1>2 DEF KeysInv, Numbered, LaterKept
        <5> QED BY <5>2, <4>1, <4>2, <3>3, <2>2, <1>5, <1>6
      <4> QED BY <4>3, <4>4
    <3> QED BY <3>2, <3>3
  <2> QED BY <2>1, <2>2
<1> QED BY <1>7, <1>10, <1>14, <1>16, <1>17, <1>18 DEF KeysInv

(* Groups have no lots: their steps leave the keeper and the logs of the   *)
(* other identifiers alone.                                                *)
LEMMA OtherKeys ==
    ASSUME KeysInv, UNCHANGED <<keeper, made>>,
           log' \in [Pre \cup Group -> [cur : Lot \cup Group \cup {None}, next : Lot \cup Group \cup {None}]],
           \A p \in Pre : log'[p] = log[p]
    PROVE  KeysInv'
<1> USE DEF KeysInv, keeper
<1>1. KeeperTypes'
  BY DEF KeeperTypes
<1>2. pres' = pres /\ pris' = pris /\ made' = made /\ pres \subseteq Pre
  BY DEF KeeperTypes
<1>3. \A p \in Pre : Untouched(p)
  BY DEF Untouched
<1>4. \A p \in Pre : Lots(p)' = Lots(p)
  BY <1>3, UntouchedLots
<1>5. (\A p \in Pre \ pres : Blank(p))'
  BY <1>2, <1>3, UntouchedLots
<1>6. Owned' /\ Apart'
  BY <1>2, <1>4 DEF Owned, Apart, Mine
<1>7. Numbered'
  BY <1>2, <1>3, UntouchedLots DEF Numbered, LaterKept, Untouched, Accepted
<1>8. KeysKept'
  BY <1>2, <1>3 DEF KeysKept, Untouched, Accepted
<1> QED BY <1>1, <1>5, <1>6, <1>7, <1>8

GroupStep(g) ==
    \/ \E fate \in {"accepted", "waits", "refused"} : MakeGroupHab(g, fate)
    \/ JoinGroupHab(g) \/ GroupEventArrives(g) \/ AcceptWaiting(g)

LEMMA GroupKeys == ASSUME KeysInv, NEW g \in Group, GroupStep(g) PROVE KeysInv'
<1> DEFINE logs == [Pre \cup Group -> [cur : Lot \cup Group \cup {None}, next : Lot \cup Group \cup {None}]]
<1>1. log \in logs /\ g \notin Pre
  BY HabitatAssumption DEF KeysInv, KeeperTypes, Pre
<1>2. UNCHANGED <<keeper, made>> /\ log' \in {log, [log EXCEPT ![g] = GroupLog(g)]}
  BY DEF GroupStep, MakeGroupHab, JoinGroupHab, GroupEventArrives, AcceptWaiting
<1>3. GroupLog(g) \in [cur : Lot \cup Group \cup {None}, next : Lot \cup Group \cup {None}]
  BY DEF GroupLog
<1>4. log' \in logs /\ \A p \in Pre : log'[p] = log[p]
  BY <1>1, <1>2, <1>3
<1> QED BY <1>2, <1>4, OtherKeys

LEMMA KeysInit == ASSUME Init PROVE KeysInv
<1> USE HabitatAssumption DEF Init
<1>1. KeeperTypes
  BY DEF KeeperTypes, NoSit, NoLog, Sit
<1>2. \A p \in Pre : Blank(p)
  BY DEF Blank
<1>3. KeysKept
  BY DEF KeysKept, Accepted
<1> QED BY <1>1, <1>2, <1>3 DEF KeysInv, Owned, Apart, Numbered

LEMMA KeysStep == ASSUME KeysInv, [Next]_vars PROVE KeysInv'
<1>1. ASSUME NEW x \in Name, NEW fate \in Fate, MakeHab(x, fate) PROVE KeysInv'
  BY <1>1, MakeKeys DEF MakeHab, MakeWrites
<1>2. ASSUME NEW p \in pres, NEW sound \in BOOLEAN, RotateHab(p, sound) PROVE KeysInv'
  BY <1>2, RotateKeys DEF RotateHab, RotateWrites
<1>3. ASSUME NEW g \in Group, GroupStep(g) PROVE KeysInv'
  BY <1>3, GroupKeys
<1>4. ASSUME NEW n \in 0..(MakeWrites - 1), NEW x \in Name, NEW fate \in Fate, CrashInMake(n, x, fate)
      PROVE  KeysInv'
  BY <1>4, MakeKeys DEF CrashInMake, MakeWrites
<1>5. ASSUME NEW n \in 0..(RotateWrites - 1), NEW p \in pres, NEW sound \in BOOLEAN,
             CrashInRotate(n, p, sound)
      PROVE  KeysInv'
  BY <1>5, RotateKeys DEF CrashInRotate, RotateWrites
<1>6. CASE Reopen \/ UNCHANGED vars
  BY <1>6, OtherKeys DEF Reopen, vars, keeper, KeysInv, KeeperTypes
<1> QED BY <1>1, <1>2, <1>3, <1>4, <1>5, <1>6 DEF Next, GroupStep

LEMMA KeysAlways == Spec => []KeysInv
<1>1. Init => KeysInv
  BY KeysInit
<1>2. KeysInv /\ [Next]_vars => KeysInv'
  BY KeysStep
<1> QED BY <1>1, <1>2, PTL DEF Spec

------------------------------------------------------------------------------
(* What the node owns *)

OwnerInv == habs \subseteq Pre \cup Group /\ open \in BOOLEAN /\ OwnsItsHabitats

(* An identifier the keeper has no entry for has no accepted log.          *)
LEMMA MakeOwner ==
    ASSUME KeysInv, OwnerInv, NEW name \in Name, NEW fate \in Fate, MakeHab(name, fate)
    PROVE  OwnerInv'
<1>1. made \in Nat /\ MadeAfter(name) <= MaxMade /\ open /\ open' = open /\ groups' = groups
  BY DEF MakeHab, Make, KeysInv, KeeperTypes
<1>2. PICK p \in Lot, next \in Lot :
        /\ p = NewLot(name, 0) /\ p \notin pres /\ Record(MakeWrites, name, p, next, fate)
        /\ prefixes' = OwnAfter(p, fate)
  BY <1>1, NewLotTyped, HabitatAssumption DEF MakeHab, Make
<1>3. p \in Pre /\ p # None /\ p \notin Group
  BY <1>1, <1>2, NewLotTyped, HabitatAssumption DEF Pre
<1>4. ~Accepted(p)
  BY <1>2, <1>3 DEF KeysInv, Blank, Accepted
<1>5. /\ habs' = IF fate # "malformed" THEN habs \cup {p} ELSE habs
      /\ log' = IF fate = "accepted" THEN [log EXCEPT ![p] = [cur |-> p, next |-> next]] ELSE log
      /\ prefixes' = IF fate = "accepted" THEN prefixes \cup {p} ELSE prefixes
  BY <1>2 DEF Record, OwnAfter, MakeWrites
<1>6. /\ \A h \in Pre \cup Group : h # p => (Accepted(h)' <=> Accepted(h))
      /\ Accepted(p)' <=> fate = "accepted"
  BY <1>3, <1>4, <1>5 DEF Accepted, NoLog, KeysInv, KeeperTypes
<1>7. prefixes = {h \in habs : Accepted(h)} /\ habs \cap Group \cap prefixes \subseteq groups
  BY <1>1 DEF OwnerInv, OwnsItsHabitats
<1>8. (prefixes = {h \in habs : Accepted(h)})'
  BY <1>4, <1>5, <1>6, <1>7 DEF OwnerInv, Fate
<1> QED BY <1>1, <1>3, <1>5, <1>7, <1>8 DEF OwnerInv, OwnsItsHabitats

LEMMA RotateOwner ==
    ASSUME KeysInv, OwnerInv, NEW p \in pres, NEW sound \in BOOLEAN, RotateHab(p, sound)
    PROVE  OwnerInv'
<1>1. Accepted(p) /\ p \in Pre /\ UNCHANGED <<habs, prefixes, groups, open>>
  BY DEF RotateHab, Rotate, CanRotate, KeysInv, KeeperTypes
<1>2. \E next : log' \in {log, [log EXCEPT ![p] = [cur |-> sits[p].nxt, next |-> next]]}
  BY DEF RotateHab, Rotate
<1>3. sits[p].nxt # None
  BY DEF RotateHab, Rotate, CanRotate
<1>4. \A h \in Pre \cup Group : Accepted(h)' <=> Accepted(h)
  BY <1>1, <1>2, <1>3 DEF Accepted, NoLog, KeysInv, KeeperTypes
<1> QED BY <1>1, <1>4 DEF OwnerInv, OwnsItsHabitats

LEMMA GroupOwner == ASSUME KeysInv, OwnerInv, NEW g \in Group, GroupStep(g) PROVE OwnerInv'
<1>1. open /\ open' = open
  BY DEF GroupStep, MakeGroupHab, JoinGroupHab, GroupEventArrives, AcceptWaiting
<1>2. GroupLog(g) # NoLog
  BY HabitatAssumption DEF GroupLog, NoLog
<1>3. prefixes = {h \in habs : Accepted(h)} /\ habs \cap Group \cap prefixes \subseteq groups
  BY <1>1 DEF OwnerInv, OwnsItsHabitats
<1>4. \A h \in Pre \cup Group : h # g => (log' \in {log, [log EXCEPT ![g] = GroupLog(g)]} =>
                                            (Accepted(h)' <=> Accepted(h)))
  BY DEF Accepted, KeysInv, KeeperTypes
<1>5. log' = [log EXCEPT ![g] = GroupLog(g)] => Accepted(g)'
  BY <1>2 DEF Accepted, KeysInv, KeeperTypes
<1>6. log' = log => (Accepted(g)' <=> Accepted(g))
  BY DEF Accepted
<1>7. ASSUME NEW fate \in {"accepted", "waits", "refused"}, MakeGroupHab(g, fate) PROVE OwnerInv'
  BY <1>1, <1>3, <1>4, <1>5, <1>6, <1>7 DEF MakeGroupHab, OwnerInv, OwnsItsHabitats
<1>8. CASE JoinGroupHab(g)
  BY <1>1, <1>3, <1>4, <1>6, <1>8 DEF JoinGroupHab, OwnerInv, OwnsItsHabitats
<1>9. CASE GroupEventArrives(g)
  BY <1>1, <1>3, <1>4, <1>6, <1>9 DEF GroupEventArrives, OwnerInv, OwnsItsHabitats
<1>10. CASE AcceptWaiting(g)
  BY <1>1, <1>3, <1>4, <1>5, <1>10 DEF AcceptWaiting, Cues, OwnerInv, OwnsItsHabitats
<1> QED BY <1>7, <1>8, <1>9, <1>10 DEF GroupStep

LEMMA StopOwner ==
    ASSUME KeysInv, OwnerInv, Next, open' = FALSE
    PROVE  OwnerInv'
<1>1. ASSUME NEW n \in 0..(MakeWrites - 1), NEW x \in Name, NEW fate \in Fate, CrashInMake(n, x, fate)
      PROVE  habs' \subseteq Pre \cup Group
  BY <1>1, NewLotTyped, HabitatAssumption
  DEF CrashInMake, Make, Record, OwnerInv, Pre, KeysInv, KeeperTypes
<1>2. ASSUME NEW n \in 0..(RotateWrites - 1), NEW p \in pres, NEW sound \in BOOLEAN,
             CrashInRotate(n, p, sound)
      PROVE  habs' \subseteq Pre \cup Group
  BY <1>2 DEF CrashInRotate, Rotate, OwnerInv
<1>3. \/ \E n \in 0..(MakeWrites - 1), x \in Name, fate \in Fate : CrashInMake(n, x, fate)
      \/ \E n \in 0..(RotateWrites - 1), p \in pres, sound \in BOOLEAN : CrashInRotate(n, p, sound)
  BY DEF Next, MakeHab, Make, RotateHab, Rotate, CanRotate, MakeGroupHab, JoinGroupHab,
         GroupEventArrives, AcceptWaiting, Reopen
<1> QED BY <1>1, <1>2, <1>3 DEF OwnerInv, OwnsItsHabitats

LEMMA OwnerStep == ASSUME KeysInv, OwnerInv, [Next]_vars PROVE OwnerInv'
<1>1. ASSUME NEW x \in Name, NEW fate \in Fate, MakeHab(x, fate) PROVE OwnerInv'
  BY <1>1, MakeOwner
<1>2. ASSUME NEW p \in pres, NEW sound \in BOOLEAN, RotateHab(p, sound) PROVE OwnerInv'
  BY <1>2, RotateOwner
<1>3. ASSUME NEW g \in Group, GroupStep(g) PROVE OwnerInv'
  BY <1>3, GroupOwner
<1>4. CASE Next /\ open' = FALSE
  BY <1>4, StopOwner
<1>5. CASE Reopen
  BY <1>5 DEF Reopen, OwnerInv, OwnsItsHabitats, Accepted
<1>6. CASE UNCHANGED vars
  BY <1>6 DEF vars, OwnerInv, OwnsItsHabitats, Accepted
<1>7. ASSUME NEW n, NEW x, NEW fate, CrashInMake(n, x, fate) PROVE open' = FALSE
  BY <1>7 DEF CrashInMake, Stop
<1>8. ASSUME NEW n, NEW p, NEW sound, CrashInRotate(n, p, sound) PROVE open' = FALSE
  BY <1>8 DEF CrashInRotate, Stop
<1> QED BY <1>1, <1>2, <1>3, <1>4, <1>5, <1>6, <1>7, <1>8 DEF Next, GroupStep

------------------------------------------------------------------------------
(***************************************************************************)
(* Where the keeper stands.  A rotation erases the lot before the one that *)
(* was in use: so that the public keys of every lot before that one have   *)
(* lost their private ones, they are filed at the places the lots name,    *)
(* and the first log starts with no lot before it.  A node that stopped in *)
(* a rotation may be elsewhere: until it has, this holds at every step.    *)
(***************************************************************************)
PlacesKept(p) ==
    /\ FollowsLog(p)
    /\ sits[p].old = None => log[p].cur.ridx = 0
    /\ \A l \in {sits[p].old, sits[p].new, sits[p].nxt} : l # None => pubs[p][l.ridx] = l
    /\ \A k \in 0..MaxRidx : k + 1 < log[p].cur.ridx => pubs[p][k] \notin pris

FollowInv == crashes \in Nat /\ (crashes = 0 => \A p \in Pre : Accepted(p) => PlacesKept(p))

(* A step that makes no key of q's leaves q's keys where they are.         *)
LEMMA StillPlaced ==
    ASSUME NEW q, PlacesKept(q), Untouched(q),
           \A x \in pris' : x \in pris \/ x \notin Lots(q)
    PROVE  PlacesKept(q)'
<1>1. \A k \in 0..MaxRidx : pubs[q][k] \in Lots(q)
  BY DEF Lots
<1> QED BY <1>1 DEF PlacesKept, Untouched, FollowsLog

(* Hab.make: two lots, in use and next, at the first two places.           *)
LEMMA MakePlaces ==
    ASSUME KeysInv, NEW name \in Name, NEW fate \in Fate, MakeHab(name, fate),
           \A q \in Pre : Accepted(q) => PlacesKept(q)
    PROVE  \A q \in Pre : Accepted(q)' => PlacesKept(q)'
<1>1. made \in Nat /\ MadeAfter(name) <= MaxMade
  BY DEF MakeHab, Make, KeysInv, KeeperTypes
<1>2. PICK p \in Lot, next \in Lot :
        /\ p = NewLot(name, 0) /\ next = NewLot(name, 1) /\ p \notin pres
        /\ Incept(MakeWrites, p, next) /\ Record(MakeWrites, name, p, next, fate)
  BY <1>1, NewLotTyped, HabitatAssumption DEF MakeHab, Make
<1>3. /\ p.ridx = 0 /\ next.ridx = 1 /\ p \in Pre /\ p # None /\ next # None
      /\ p.name = name /\ next.name = name
      /\ name \in Salty => p.nonce = 0
      /\ name \in Randy => p.nonce = made /\ next.nonce = made
  BY <1>1, <1>2, NewLotTyped, HabitatAssumption DEF Pre
<1>4. Blank(p)
  BY <1>2, <1>3 DEF KeysInv
<1> DEFINE sit == [old |-> None, new |-> p, nxt |-> next]
           pub == [pubs[p] EXCEPT ![0] = p, ![1] = next]
           lot == [cur |-> p, next |-> next]
<1>5. /\ sits' = [sits EXCEPT ![p] = sit] /\ pubs' = [pubs EXCEPT ![p] = pub]
      /\ pris' = pris \cup {p, next}
      /\ log' \in {log, [log EXCEPT ![p] = lot]}
  BY <1>2 DEF Incept, Record, MakeWrites
<1>6. /\ sits'[p] = sit /\ log'[p] \in {NoLog, lot}
      /\ pubs'[p][0] = p /\ pubs'[p][1] = next
      /\ \A q \in Pre : q # p => Untouched(q)
  <2>1. pubs[p] \in [0..MaxRidx -> Lot \cup {None}] /\ pubs \in [Pre -> [0..MaxRidx -> Lot \cup {None}]]
    BY <1>3 DEF KeysInv, KeeperTypes
  <2>2. pub[0] = p /\ pub[1] = next
    BY <2>1, HabitatAssumption
  <2> HIDE DEF pub
  <2>3. pubs'[p] = pub /\ \A q \in Pre : q # p => pubs'[q] = pubs[q]
    BY <1>3, <1>5, <2>1
  <2>4. sits'[p] = sit /\ \A q \in Pre : q # p => sits'[q] = sits[q]
    BY <1>3, <1>5 DEF KeysInv, KeeperTypes
  <2>5. log'[p] \in {NoLog, lot} /\ \A q \in Pre : q # p => log'[q] = log[q]
    BY <1>3, <1>4, <1>5 DEF KeysInv, KeeperTypes, Blank
  <2> QED BY <2>2, <2>3, <2>4, <2>5 DEF Untouched
<1>7. Accepted(p)' => PlacesKept(p)'
  <2> SUFFICES ASSUME log'[p] = lot PROVE PlacesKept(p)'
    BY <1>6 DEF Accepted
  <2>1. FollowsLog(p)' /\ log'[p].cur.ridx = 0
    BY <1>3, <1>6 DEF FollowsLog
  <2>2. \A l \in {sits'[p].old, sits'[p].new, sits'[p].nxt} : l # None => pubs'[p][l.ridx] = l
    BY <1>3, <1>6
  <2> QED BY <2>1, <2>2 DEF PlacesKept
<1>8. ASSUME NEW q \in Pre, q # p, Accepted(q)' PROVE PlacesKept(q)'
  <2>1. Untouched(q) /\ Accepted(q) /\ PlacesKept(q) /\ q \in pres
    BY <1>6, <1>8 DEF Untouched, Accepted, KeysInv, Blank
  <2>2. p \notin Lots(q) /\ next \notin Lots(q)
    BY <1>2, <1>3, <1>8, <2>1, NewLotApart
  <2> QED BY <1>5, <2>1, <2>2, StillPlaced
<1> QED BY <1>7, <1>8

(***************************************************************************)
(* Hab.rotate: accepted, the lots move on by one and the oldest is erased; *)
(* not accepted, they are put back, and only a later lot was added.        *)
(***************************************************************************)
LEMMA RotatePlaces ==
    ASSUME KeysInv, NEW p \in pres, NEW sound \in BOOLEAN, RotateHab(p, sound),
           \A q \in Pre : Accepted(q) => PlacesKept(q)
    PROVE  \A q \in Pre : Accepted(q)' => PlacesKept(q)'
<1> DEFINE good == RotationAccepted(p, sound)
<1>0. sits[p].old \in Lot \cup {None} /\ sits[p].new \in Lot /\ sits[p].nxt \in Lot
      /\ Later(p) \in Lot /\ Later(p).ridx \in 0..MaxRidx
  BY LaterLot DEF RotateHab, Rotate, KeysInv, KeeperTypes, Sit
<1>1. PICK l \in Lot, old \in Lot \cup {None}, new \in Lot, nxt \in Lot, k \in 0..MaxRidx :
        l = Later(p) /\ old = sits[p].old /\ new = sits[p].new /\ nxt = sits[p].nxt /\ k = l.ridx
  BY <1>0
<1> DEFINE on == [old |-> new, new |-> nxt, nxt |-> l]
           pub == [pubs[p] EXCEPT ![k] = l]
           lot == [cur |-> nxt, next |-> l]
<1>2. /\ p \in Pre /\ Accepted(p) /\ PlacesKept(p) /\ SitNumbered(p) /\ sits[p] # NoSit
      /\ log[p].cur = new /\ log[p].next = nxt
  BY <1>1, LaterLot DEF RotateHab, Rotate, PlacesKept, FollowsLog, KeysInv, Numbered
<1>3. /\ new.ridx \in 0..MaxRidx /\ nxt.ridx = new.ridx + 1 /\ k = new.ridx + 2
      /\ nxt.ridx \in 0..MaxRidx
      /\ old # None => old.ridx \in 0..MaxRidx /\ new.ridx = old.ridx + 1
      /\ old = None => new.ridx = 0
  <2>1. CanRotate(p)
    BY DEF RotateHab, Rotate
  <2> QED BY <2>1, <1>1, <1>2, LaterLot, HabitatAssumption DEF SitNumbered, PlacesKept, Lot
<1>4. /\ sits' = [sits EXCEPT ![p] = IF good THEN on ELSE @]
      /\ pubs' = [pubs EXCEPT ![p] = pub]
      /\ log' = IF good THEN [log EXCEPT ![p] = lot] ELSE log
      /\ pris' = (IF Kept(p) = None THEN pris \cup {l} ELSE pris) \ (IF good THEN {old} ELSE {})
  BY <1>1 DEF RotateHab, RotateWrites, Rotate, SitAfter, Advanced, Erased
<1>5. /\ pubs'[p][k] = l
      /\ \A j \in 0..MaxRidx : j # k => pubs'[p][j] = pubs[p][j]
      /\ \A q \in Pre : q # p => pubs'[q] = pubs[q]
  <2>1. pubs \in [Pre -> [0..MaxRidx -> Lot \cup {None}]] /\ pubs[p] \in [0..MaxRidx -> Lot \cup {None}]
    BY <1>2 DEF KeysInv, KeeperTypes
  <2>2. pub[k] = l /\ \A j \in 0..MaxRidx : j # k => pub[j] = pubs[p][j]
    BY <2>1
  <2> HIDE DEF pub
  <2>3. pubs'[p] = pub /\ \A q \in Pre : q # p => pubs'[q] = pubs[q]
    BY <1>2, <1>4, <2>1
  <2> QED BY <2>2, <2>3
<1>6. /\ sits'[p] = IF good THEN on ELSE sits[p]
      /\ log'[p] = IF good THEN lot ELSE log[p]
      /\ \A q \in Pre : q # p => sits'[q] = sits[q] /\ log'[q] = log[q]
  <2> HIDE DEF on, lot, good
  <2> QED BY <1>2, <1>4 DEF KeysInv, KeeperTypes
<1>7. \A q \in pres : q # p => (\A x \in pris' : x \in pris \/ x \notin Lots(q))
  <2>1. CASE Kept(p) # None
    BY <1>4, <2>1
  <2>2. CASE Kept(p) = None
    <3>1. /\ p.name \in Salty => p.nonce = 0
          /\ l.name = p.name /\ (p.name \in Randy => l.nonce = made)
      BY <1>1, <1>2, <2>2, LaterLot, HabitatAssumption
      DEF KeysInv, Owned, Lots, Mine, Pre, RotateHab, Rotate
    <3>2. \A q \in pres : q # p => l \notin Lots(q)
      BY <1>2, <3>1, NewLotApart
    <3> QED BY <1>4, <3>2
  <2> QED BY <2>1, <2>2
<1>8. ASSUME NEW q \in Pre, q # p, Accepted(q)' PROVE PlacesKept(q)'
  <2>1. Untouched(q) /\ Accepted(q) /\ PlacesKept(q) /\ q \in pres
    BY <1>5, <1>6, <1>8 DEF Untouched, Accepted, KeysInv, Blank
  <2> QED BY <1>7, <1>8, <2>1, StillPlaced
<1>9. \A j \in 0..MaxRidx : j < k - 2 => pubs'[p][j] \notin pris' \/ pubs'[p][j] \in pris
  <2> SUFFICES ASSUME NEW j \in 0..MaxRidx, j < k - 2, pubs'[p][j] \in pris', pubs'[p][j] \notin pris
               PROVE  FALSE
    OBVIOUS
  <2>1. pubs'[p][j] = l /\ j # k /\ pubs[p][j] = l
    BY <1>4, <1>5
  <2>2. PubsNumbered(p) /\ l # None
    BY <1>1, HabitatAssumption DEF KeysInv, Numbered
  <2> QED BY <1>1, <2>1, <2>2 DEF PubsNumbered
<1>10. ASSUME ~good PROVE PlacesKept(p)'
  <2>1. FollowsLog(p)' /\ (sits'[p].old = None => log'[p].cur.ridx = 0)
    BY <1>2, <1>6, <1>10 DEF PlacesKept, FollowsLog
  <2>2. \A x \in {sits'[p].old, sits'[p].new, sits'[p].nxt} : x # None => pubs'[p][x.ridx] = x
    <3>1. /\ pubs[p][new.ridx] = new /\ pubs[p][nxt.ridx] = nxt
          /\ old # None => pubs[p][old.ridx] = old
      BY <1>1, <1>2, HabitatAssumption DEF PlacesKept
    <3>2. new.ridx # k /\ nxt.ridx # k /\ (old # None => old.ridx # k)
      BY <1>3
    <3> QED BY <1>1, <1>3, <1>5, <1>6, <1>10, <3>1, <3>2
  <2>3. \A j \in 0..MaxRidx : j + 1 < log'[p].cur.ridx => pubs'[p][j] \notin pris'
    <3> SUFFICES ASSUME NEW j \in 0..MaxRidx, j + 1 < log'[p].cur.ridx PROVE pubs'[p][j] \notin pris'
      OBVIOUS
    <3>1. j + 1 < new.ridx /\ j < k - 2 /\ j # k
      BY <1>2, <1>3, <1>6, <1>10
    <3>2. pubs[p][j] \notin pris /\ pubs'[p][j] = pubs[p][j]
      BY <1>2, <1>5, <3>1 DEF PlacesKept
    <3> QED BY <1>9, <3>1, <3>2
  <2> QED BY <2>1, <2>2, <2>3 DEF PlacesKept
<1>11. ASSUME good PROVE PlacesKept(p)'
  <2>1. FollowsLog(p)' /\ sits'[p].old = new /\ sits'[p].new = nxt /\ sits'[p].nxt = l
        /\ log'[p].cur = nxt
    BY <1>6, <1>11 DEF FollowsLog
  <2>2. \A x \in {sits'[p].old, sits'[p].new, sits'[p].nxt} : x # None => pubs'[p][x.ridx] = x
    <3>1. pubs[p][new.ridx] = new /\ pubs[p][nxt.ridx] = nxt
      BY <1>1, <1>2, HabitatAssumption DEF PlacesKept
    <3>2. new.ridx # k /\ nxt.ridx # k
      BY <1>3
    <3> QED BY <1>1, <1>3, <1>5, <2>1, <3>1, <3>2
  <2>3. \A j \in 0..MaxRidx : j + 1 < nxt.ridx => pubs'[p][j] \notin pris'
    <3> SUFFICES ASSUME NEW j \in 0..MaxRidx, j + 1 < nxt.ridx PROVE pubs'[p][j] \notin pris'
      OBVIOUS
    <3>1. j < k - 2 /\ j < new.ridx /\ j # k /\ pubs'[p][j] = pubs[p][j] /\ old # None
      BY <1>3, <1>5
    <3>2. CASE j = old.ridx
      <4>1. pubs[p][j] = old
        BY <1>1, <1>2, <3>1, <3>2 DEF PlacesKept
      <4> QED BY <1>4, <1>11, <3>1, <4>1
    <3>3. CASE j # old.ridx
      <4>1. j + 1 < new.ridx
        BY <1>3, <3>1, <3>3
      <4>2. pubs[p][j] \notin pris
        BY <1>2, <4>1 DEF PlacesKept
      <4> QED BY <1>9, <3>1, <4>2
    <3> QED BY <3>2, <3>3
  <2>4. new # None
    BY <1>1, HabitatAssumption
  <2> QED BY <2>1, <2>2, <2>3, <2>4 DEF PlacesKept
<1> QED BY <1>8, <1>10, <1>11

(* A step that touches no keys and no log of lots.                         *)
LEMMA OtherPlaces ==
    ASSUME UNCHANGED keeper, \A p \in Pre : log'[p] = log[p], \A q \in Pre : Accepted(q) => PlacesKept(q)
    PROVE  \A q \in Pre : Accepted(q)' => PlacesKept(q)'
BY DEF keeper, Accepted, PlacesKept, FollowsLog

LEMMA PlacesStep == ASSUME KeysInv, FollowInv, [Next]_vars PROVE FollowInv'
<1> DEFINE Placed == \A q \in Pre : Accepted(q) => PlacesKept(q)
<1>0. crashes \in Nat /\ (crashes = 0 => Placed)
  BY DEF FollowInv
<1>1. ASSUME NEW x \in Name, NEW fate \in Fate, MakeHab(x, fate) PROVE FollowInv'
  <2>1. crashes' = crashes
    BY <1>1 DEF MakeHab
  <2> QED BY <1>0, <1>1, <2>1, MakePlaces DEF FollowInv
<1>2. ASSUME NEW p \in pres, NEW sound \in BOOLEAN, RotateHab(p, sound) PROVE FollowInv'
  <2>1. crashes' = crashes
    BY <1>2 DEF RotateHab
  <2> QED BY <1>0, <1>2, <2>1, RotatePlaces DEF FollowInv
<1>3. ASSUME NEW g \in Group, GroupStep(g) PROVE FollowInv'
  <2>1. UNCHANGED <<keeper, crashes>> /\ log' \in {log, [log EXCEPT ![g] = GroupLog(g)]}
    BY <1>3 DEF GroupStep, MakeGroupHab, JoinGroupHab, GroupEventArrives, AcceptWaiting
  <2>2. g \notin Pre /\ \A p \in Pre : log'[p] = log[p]
    BY <2>1, HabitatAssumption DEF Pre, KeysInv, KeeperTypes
  <2> QED BY <1>0, <2>1, <2>2, OtherPlaces DEF FollowInv
<1>4. ASSUME Stop PROVE FollowInv'
  BY <1>0, <1>4 DEF Stop, FollowInv
<1>5. CASE Reopen \/ UNCHANGED vars
  <2>1. UNCHANGED <<keeper, log, crashes>>
    BY <1>5 DEF Reopen, vars, keeper
  <2> QED BY <1>0, <2>1, OtherPlaces DEF FollowInv
<1> QED BY <1>1, <1>2, <1>3, <1>4, <1>5 DEF Next, GroupStep, CrashInMake, CrashInRotate

------------------------------------------------------------------------------
(***************************************************************************)
(* Manager.rotate, Hab.rotate: for any number of identifiers, rotations    *)
(* that were not accepted and stops between writes, the private keys an    *)
(* accepted log is signed with and those it promised are kept.             *)
(***************************************************************************)
THEOREM KeysNeverLost == Spec => []KeysKept
<1>1. KeysInv => KeysKept
  BY DEF KeysInv
<1> QED BY <1>1, KeysAlways, PTL

(***************************************************************************)
(* Hab.make, makeGroupHab, joinGroupHab, emitAcceptanceCues, reloadKevers: *)
(* an open node owns exactly the accepted identifiers it has a record of.  *)
(***************************************************************************)
THEOREM HabitatsOwned == Spec => []OwnsItsHabitats
<1>1. Init => OwnerInv
  BY DEF Init, OwnerInv, OwnsItsHabitats
<1>2. KeysInv /\ OwnerInv /\ [Next]_vars => OwnerInv'
  BY OwnerStep
<1>3. OwnerInv => OwnsItsHabitats
  BY DEF OwnerInv
<1> QED BY <1>1, <1>2, <1>3, KeysAlways, PTL DEF Spec
(***************************************************************************)
(* Hab.rotate: until the node stops in the middle of one, and after any    *)
(* number of rotations that were not accepted, the keeper and each log     *)
(* agree on the lots in use and next, and of the lots before only the last *)
(* one's private keys are still stored.                                    *)
(***************************************************************************)
THEOREM KeeperKeepsPace == Spec => []KeeperFollowsLog
<1>1. Init => FollowInv
  BY DEF Init, FollowInv, Accepted
<1>2. KeysInv /\ FollowInv /\ [Next]_vars => FollowInv'
  BY PlacesStep
<1>3. FollowInv => KeeperFollowsLog
  BY DEF FollowInv, KeeperFollowsLog, PlacesKept
<1> QED BY <1>1, <1>2, <1>3, KeysAlways, PTL DEF Spec
==============================================================================
