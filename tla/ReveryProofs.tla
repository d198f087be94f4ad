----------------------------- MODULE ReveryProofs -----------------------------
(***************************************************************************)
(* What a slot holds was authorized, for every set of replies, messages    *)
(* and logs.  A signature that is stored was sent, for the reply it is     *)
(* stored with and under an event of its identifier (SignaturesSent); so a *)
(* group that is accepted, from a message or from the escrow, counts only  *)
(* signatures the messages carry (AcceptedGroup), and every step that      *)
(* writes a slot writes what such a group or cigar decided (ProcessBacked).*)
(*                                                                         *)
(* Where replies are Orderly, what a slot shows also stays on record: what *)
(* is stored about it is pinned over but never with less that verifies     *)
(* (PinKeepsRest), and the escrow never drops its row.                     *)
(***************************************************************************)
EXTENDS Revery, FiniteSetTheorems, WellFoundedInduction, TLAPS

(* A group of a reply as the messages carry it, or a part of it.           *)
Carried(r, g) ==
    /\ g.seal \in Seal
    /\ g.seal.pre = Rep[r].aid =>
          /\ g.seal.d \in {h.seal.d : h \in OwnGroups(r)}
          /\ g.sigers \subseteq Signers(r, g.seal.d)

(* What is stored was sent.                                                *)
SignatureSent(r, x) ==
    /\ x.seal \in Seal /\ x.seal.pre = Rep[r].aid
    /\ x.siger \in Signers(r, x.seal.d)
SignaturesSent == \A r \in Reply : \A x \in ssgs[r] : SignatureSent(r, x)

Typed ==
    /\ known \in [Pre -> Nat] /\ \A p \in Pre : known[p] <= Len(Accepting[p])
    /\ ssgs = [r \in Reply |-> ssgs[r]]
    /\ latest = [s \in Slot |-> latest[s]] /\ shown = [s \in Slot |-> shown[s]]
    /\ sent \subseteq Messages /\ net \subseteq Messages
    /\ crashes \in Nat

Authority == Typed /\ SignaturesSent /\ ShownAuthorized

------------------------------------------------------------------------------
(* Signatures and groups *)

LEMMA RepliesTyped ==
    ASSUME NEW r \in Reply
    PROVE  /\ Rep[r].slot \in Slot /\ (Rep[r].route = "ksn" => Rep[r].says \in Seal)
           /\ \A o \in Reply : Rep[o].slot = Rep[r].slot =>
                                 (Rep[o].route = "ksn" <=> Rep[r].route = "ksn")
<1>1. \A q \in Reply : /\ Rep[q].slot \in Slot /\ Rep[q].dt \in Nat
                       /\ Rep[q].route = "ksn" => Rep[q].says \in Seal
  BY ReplyAssumption
<1>2. \A q, o \in Reply : Rep[q].slot = Rep[o].slot =>
                            (Rep[q].route = "ksn" <=> Rep[o].route = "ksn")
  BY ReplyAssumption
<1>3. Rep[r].slot \in Slot
  BY <1>1
<1>4. Rep[r].route = "ksn" => Rep[r].says \in Seal
  BY <1>1
<1>5. ASSUME NEW o \in Reply, Rep[o].slot = Rep[r].slot
      PROVE  Rep[o].route = "ksn" <=> Rep[r].route = "ksn"
  BY <1>2, <1>5
<1> QED BY <1>3, <1>4, <1>5

(* A key verifies one signature, so an event has finitely many.            *)
LEMMA VerifiedFinite ==
    ASSUME NEW e \in Event, NEW S \in SUBSET Siger
    PROVE  IsFiniteSet(VerifiedBy(e, S))
<1> DEFINE V == VerifiedBy(e, S)
           f == [s \in V |-> s.index]
<1>1. Ev[e].keys \in Seq(Key) /\ DOMAIN Ev[e].keys = 1..Len(Ev[e].keys)
      /\ Len(Ev[e].keys) \in Nat
  BY ReplyAssumption
<1>2. \A s \in V : s \in Siger /\ s.index \in 1..Len(Ev[e].keys) /\ s.key = Ev[e].keys[s.index]
  BY <1>1 DEF VerifiedBy
<1>3. \A s, t \in V : s.index = t.index => s = t
  BY <1>2 DEF Siger
<1> HIDE DEF V
<1>4. f \in Injection(V, 1..Len(Ev[e].keys))
  BY <1>2, <1>3 DEF Injection, IsInjective
<1>5. IsFiniteSet(1..Len(Ev[e].keys))
  BY <1>1, FS_Interval
<1> QED BY <1>4, <1>5, FS_Injection DEF V

(* What verifies among more signatures is no less.                         *)
LEMMA EnoughOfMore ==
    ASSUME NEW e \in Event, NEW S \in SUBSET Siger, NEW T \in SUBSET S, Enough(e, T)
    PROVE  Enough(e, S)
<1>1. VerifiedBy(e, T) \in SUBSET VerifiedBy(e, S)
  BY DEF VerifiedBy
<1>2. IsFiniteSet(VerifiedBy(e, S)) /\ IsFiniteSet(VerifiedBy(e, T))
  BY VerifiedFinite
<1>3. Cardinality(VerifiedBy(e, T)) <= Cardinality(VerifiedBy(e, S))
  BY <1>1, <1>2, FS_Subset
<1>4. /\ Cardinality(VerifiedBy(e, S)) \in Nat /\ Cardinality(VerifiedBy(e, T)) \in Nat
      /\ Ev[e].kt \in Nat
  BY <1>2, FS_CardinalityType, ReplyAssumption
<1> QED BY <1>3, <1>4 DEF Enough, Satisfied

LEMMA EnoughIsSome ==
    ASSUME NEW e \in Event, NEW S, Enough(e, S)
    PROVE  S # {}
<1> SUFFICES ASSUME S = {} PROVE FALSE
  OBVIOUS
<1>1. VerifiedBy(e, S) = {}
  BY DEF VerifiedBy
<1>2. Cardinality(VerifiedBy(e, S)) = 0
  BY <1>1, FS_EmptySet
<1>3. Ev[e].kt \in Nat /\ Ev[e].kt > 0 /\ 0 >= Ev[e].kt
  BY <1>2, ReplyAssumption DEF Enough, Satisfied
<1> QED BY <1>3

LEMMA GroupTyped ==
    ASSUME NEW m \in Messages, NEW g \in Groups(m)
    PROVE  g.seal \in Seal /\ g.sigers \in SUBSET Siger
<1> DEFINE Group == [seal : Seal, sigers : SUBSET Siger]
<1>1. PICK s : s = m.tsgs
  OBVIOUS
<1>2. s \in Seq(Group)
  BY <1>1, ReplyAssumption
<1>3. PICK i \in DOMAIN s : g = s[i]
  BY <1>1 DEF Groups, Range
<1>4. g \in Group
  <2> HIDE DEF Group
  <2> QED BY <1>2, <1>3
<1> QED BY <1>4

LEMMA SignersTyped ==
    ASSUME NEW r, NEW e
    PROVE  Signers(r, e) \in SUBSET Siger
<1> SUFFICES ASSUME NEW s \in Signers(r, e) PROVE s \in Siger
  OBVIOUS
<1>1. PICK g \in OwnGroups(r) : s \in g.sigers
  BY DEF Signers
<1>2. PICK m \in Messages : g \in Groups(m)
  BY DEF OwnGroups
<1> QED BY <1>1, <1>2, GroupTyped

LEMMA StoredGroupSent ==
    ASSUME SignaturesSent, NEW r \in Reply, NEW seal
    PROVE  /\ StoredGroup(r, seal) \subseteq Signers(r, seal.d)
           /\ StoredGroup(r, seal) # {} => seal \in Seal /\ seal.pre = Rep[r].aid
<1> SUFFICES ASSUME NEW s \in StoredGroup(r, seal)
             PROVE  s \in Signers(r, seal.d) /\ seal \in Seal /\ seal.pre = Rep[r].aid
  OBVIOUS
<1>1. PICK x \in ssgs[r] : x.seal = seal /\ x.siger = s
  BY DEF StoredGroup
<1> QED BY <1>1 DEF SignaturesSent, SignatureSent

(* Groups of a message, and those read back from the escrow, are carried.  *)
LEMMA DeliveredCarried ==
    ASSUME NEW m \in Messages, NEW g \in Groups(m)
    PROVE  Carried(m.rp, g)
<1>1. g.seal \in Seal
  BY GroupTyped
<1>2. g.seal.pre = Rep[m.rp].aid => g \in OwnGroups(m.rp)
  BY DEF OwnGroups
<1> QED BY <1>1, <1>2 DEF Carried, Signers

LEMMA ReadBackCarried ==
    ASSUME SignaturesSent, NEW r \in Reply, NEW seal \in StoredSeals(r)
    PROVE  Carried(r, ReadBack(r, seal))
<1> DEFINE g == ReadBack(r, seal)
<1>1. PICK x \in ssgs[r] : x.seal = seal
  BY DEF StoredSeals
<1>2. seal \in Seal /\ x.siger \in Signers(r, seal.d)
  BY <1>1 DEF SignaturesSent, SignatureSent
<1>3. Ev[seal.d].sn \in Nat
  BY <1>2, ReplyAssumption DEF Seal
<1>4. g.seal \in Seal /\ g.seal.d = seal.d /\ g.sigers = StoredGroup(r, seal)
  BY <1>2, <1>3 DEF ReadBack, Seal
<1>5. seal.d \in {h.seal.d : h \in OwnGroups(r)}
  BY <1>2 DEF Signers
<1>6. StoredGroup(r, seal) \subseteq Signers(r, seal.d)
  BY StoredGroupSent
<1> QED BY <1>4, <1>5, <1>6 DEF Carried

(* What counts for a group was sent: the signatures it carries and those   *)
(* stored under its seal.                                                  *)
LEMMA CountedSent ==
    ASSUME SignaturesSent, NEW r \in Reply, NEW g, Carried(r, g), g.seal.pre = Rep[r].aid
    PROVE  /\ g.seal.d \in {h.seal.d : h \in OwnGroups(r)}
           /\ g.sigers \cup StoredGroup(r, g.seal) \subseteq Signers(r, g.seal.d)
<1>1. StoredGroup(r, g.seal) \subseteq Signers(r, g.seal.d)
  BY StoredGroupSent
<1> QED BY <1>1 DEF Carried

(* A set of numbers that is not empty has a least.                         *)
LEMMA Least ==
    ASSUME NEW T \in SUBSET Nat, T # {} PROVE \E m \in T : \A y \in T : m <= y
<1> DEFINE R == {ss \in Nat \X Nat : ss[1] < ss[2]}
<1>1. IsWellFoundedOn(OpToRel(<, Nat), Nat)
  BY NatLessThanWellFounded, Zenon
<1>2. OpToRel(<, Nat) = R
  BY DEF OpToRel
<1>3. IsWellFoundedOn(R, Nat)
  BY <1>1, <1>2, Zenon
<1> HIDE DEF R
<1>4. \E m \in T : \A y \in T : ~(<<y, m>> \in R)
  BY <1>3, WFMin
<1>5. \A x, y \in Nat : ~(<<y, x>> \in R) => x <= y
  BY DEF R
<1> QED BY <1>4, <1>5

(* A set of numbers under a bound has a greatest: the one furthest below.  *)
LEMMA Greatest ==
    ASSUME NEW n \in Nat, NEW T \in SUBSET (0..n), T # {}
    PROVE  \E m \in T : \A y \in T : m >= y
<1> DEFINE below == {k \in 0..n : n - k \in T}
<1>1. below \in SUBSET Nat
  OBVIOUS
<1>2. \A t \in T : n - t \in below
  OBVIOUS
<1>3. below # {}
  BY <1>2
<1>4. PICK m \in below : \A y \in below : m <= y
  <2> HIDE DEF below
  <2> QED BY <1>1, <1>3, Least
<1>5. \A t \in T : n - m >= t
  BY <1>2, <1>4
<1> QED BY <1>4, <1>5


(* The last event at a number is one that was accepted.                    *)
LEMMA LastAtAccepted ==
    ASSUME Typed, NEW p \in Pre, NEW n, LastAt(p, n) # None
    PROVE  LastAt(p, n) \in Accepted(p)
<1> DEFINE At == {i \in 1..known[p] : Ev[Accepting[p][i]].sn = n}
<1>1. At # {} /\ LastAt(p, n) = Accepting[p][CHOOSE i \in At : \A j \in At : j <= i]
  BY DEF LastAt
<1>2. known[p] \in Nat /\ At \in SUBSET (0..known[p])
  BY DEF Typed
<1>3. \E i \in At : \A j \in At : i >= j
  <2> HIDE DEF At
  <2> QED BY <1>1, <1>2, Greatest
<1>4. (CHOOSE i \in At : \A j \in At : j <= i) \in At
  <2>1. \A i, j \in At : i >= j => j <= i
    BY <1>2
  <2> HIDE DEF At
  <2> QED BY <1>3, <2>1
<1> QED BY <1>1, <1>4 DEF Accepted

(* A group that is accepted is one the messages authorize its reply by.    *)
LEMMA AcceptedGroup ==
    ASSUME Typed, SignaturesSent, NEW r \in Reply, NEW g, Carried(r, g),
           GroupVerdict(r, g) = "accept"
    PROVE  \E e \in Authorities[r] : e \in Accepted(Rep[r].aid)
<1> DEFINE e == g.seal.d
           p == Rep[r].aid
<1>1. /\ g.seal.pre = p /\ Resolved(g) /\ Ev[e].est
      /\ Satisfied(e, Verified(r, g))
  BY DEF GroupVerdict
<1>2. p \in Pre /\ e \in Event
  BY <1>1 DEF Carried, Seal
<1>3. e \in Accepted(p)
  <2>1. LastAt(p, g.seal.sn) = e /\ e # None
    BY <1>1, <1>2, ReplyAssumption DEF Resolved
  <2> QED BY <1>2, <2>1, LastAtAccepted
<1> DEFINE sigers == g.sigers \cup StoredGroup(r, g.seal)
<1>4. e \in {h.seal.d : h \in OwnGroups(r)} /\ sigers \subseteq Signers(r, e)
  BY <1>1, CountedSent
<1>5. Enough(e, sigers)
  BY <1>1 DEF Enough, Verified
<1>6. Enough(e, Signers(r, e))
  <2>1. Signers(r, e) \in SUBSET Siger
    BY SignersTyped
  <2> HIDE DEF sigers, e
  <2> QED BY <1>2, <1>4, <1>5, <2>1, EnoughOfMore
<1> QED BY <1>3, <1>4, <1>6 DEF Authorities

------------------------------------------------------------------------------
(* What is decided about a reply, and written *)

(* A message or an escrowed reply, as it is handed to acceptReply.         *)
AllCarried(r, tsgs) == \A i \in DOMAIN tsgs : Carried(r, tsgs[i])
CigarsSent(r, cigars) == ByCigar(r, cigars) => CigarSent(r)

LEMMA DecideWins ==
    ASSUME NEW r, NEW cigars, NEW tsgs, NEW d, d = Decide(r, cigars, tsgs, Verdicts(r, tsgs)),
           Wins(d)
    PROVE  /\ ~Refused(r)
           /\ ByCigar(r, cigars) \/ \E i \in DOMAIN tsgs : GroupVerdict(r, tsgs[i]) = "accept"
<1>1. ~Refused(r)
  BY DEF Decide, Wins
<1>2. ASSUME ~ByCigar(r, cigars), \A i \in DOMAIN tsgs : GroupVerdict(r, tsgs[i]) # "accept"
      PROVE  FALSE
  <2>1. \A i \in DOMAIN tsgs : Verdicts(r, tsgs)[i] # "accept"
    BY <1>2 DEF Verdicts
  <2> QED BY <1>1, <1>2, <2>1 DEF Decide, Wins
<1> QED BY <1>1, <1>2

(* Only groups of the identifier itself are pinned.                        *)
LEMMA DecideStores ==
    ASSUME NEW r, NEW cigars, NEW tsgs, NEW d, d = Decide(r, cigars, tsgs, Verdicts(r, tsgs)),
           NEW x \in d.groups
    PROVE  \/ x \in ssgs[r]
           \/ \E i \in DOMAIN tsgs : /\ tsgs[i].seal.pre = Rep[r].aid
                                     /\ x.seal = tsgs[i].seal /\ x.siger \in Kept(r, tsgs[i])
<1> DEFINE Own == {i \in DOMAIN tsgs : GroupVerdict(r, tsgs[i]) # "skip"}
<1>1. PICK I \in SUBSET Own : d.groups = PinGroups(r, tsgs, I)
  BY DEF Decide, Verdicts
<1>2. \A i \in I : i \in DOMAIN tsgs /\ tsgs[i].seal.pre = Rep[r].aid
  BY DEF GroupVerdict
<1> HIDE DEF Own
<1>3. x \in ssgs[r] \/ \E i \in I : \E s \in Kept(r, tsgs[i]) : x = [seal |-> tsgs[i].seal, siger |-> s]
  BY <1>1 DEF PinGroups
<1> QED BY <1>2, <1>3

LEMMA GroupsSent ==
    ASSUME SignaturesSent, NEW r \in Reply, NEW cigars, NEW tsgs, AllCarried(r, tsgs), NEW d,
           d = Decide(r, cigars, tsgs, Verdicts(r, tsgs)), NEW x \in d.groups
    PROVE  SignatureSent(r, x)
<1>1. CASE x \in ssgs[r]
  BY <1>1 DEF SignaturesSent
<1>2. CASE x \notin ssgs[r]
  <2>1. PICK i \in DOMAIN tsgs : /\ tsgs[i].seal.pre = Rep[r].aid
                                 /\ x.seal = tsgs[i].seal /\ x.siger \in Kept(r, tsgs[i])
    BY <1>2, DecideStores
  <2> DEFINE g == tsgs[i]
  <2>2. Carried(r, g)
    BY DEF AllCarried
  <2>3. g.sigers \cup StoredGroup(r, g.seal) \subseteq Signers(r, g.seal.d)
    BY <2>1, <2>2, CountedSent
  <2>4. Kept(r, g) \subseteq g.sigers \cup StoredGroup(r, g.seal)
    BY DEF Kept, Verified, VerifiedBy
  <2> QED BY <2>1, <2>2, <2>3, <2>4 DEF SignatureSent, Carried
<1> QED BY <1>1, <1>2

(* A reply that wins is one its slot may hold.                             *)
LEMMA WinnerBacked ==
    ASSUME Typed, SignaturesSent, NEW r \in Reply, NEW cigars, NEW tsgs,
           AllCarried(r, tsgs), CigarsSent(r, cigars), NEW d,
           d = Decide(r, cigars, tsgs, Verdicts(r, tsgs)), Wins(d)
    PROVE  r \in Backed(Rep[r].slot)
<1>1. /\ ~Refused(r)
      /\ ByCigar(r, cigars) \/ \E i \in DOMAIN tsgs : GroupVerdict(r, tsgs[i]) = "accept"
  BY DecideWins
<1>2. Rep[r].route = "ksn" => Trusted(r)
  BY <1>1 DEF Refused
<1>3. CigarSent(r) \/ \E e \in Authorities[r] : e \in Accepted(Rep[r].aid)
  <2>1. CASE ByCigar(r, cigars)
    BY <2>1 DEF CigarsSent
  <2>2. ASSUME NEW i \in DOMAIN tsgs, GroupVerdict(r, tsgs[i]) = "accept"
        PROVE  \E e \in Authorities[r] : e \in Accepted(Rep[r].aid)
    <3>1. Carried(r, tsgs[i])
      BY DEF AllCarried
    <3> QED BY <2>2, <3>1, AcceptedGroup
  <2> QED BY <1>1, <2>1, <2>2
<1> QED BY <1>2, <1>3 DEF Backed

(* What is accepted stays so: a reply a slot may hold remains one.         *)
LEMMA BackedStays ==
    ASSUME Typed, known' \in [Pre -> Nat], \A p \in Pre : known'[p] >= known[p],
           NEW s \in Slot, NEW r \in Backed(s)
    PROVE  r \in Backed(s)'
<1>1. ASSUME NEW e \in Authorities[r], e \in Accepted(Rep[r].aid)
      PROVE  e \in Accepted(Rep[r].aid)'
  <2> DEFINE p == Rep[r].aid
  <2>1. p \in Pre
    <3>1. PICK g \in OwnGroups(r) : g.seal.d = e
      BY DEF Authorities, Backed
    <3>2. PICK m \in Messages : g \in Groups(m)
      BY DEF OwnGroups
    <3>3. g.seal \in Seal /\ g.seal.pre = p
      BY <3>2, GroupTyped DEF OwnGroups
    <3> QED BY <3>3 DEF Seal
  <2>2. known[p] \in Nat /\ known'[p] \in Nat /\ known[p] <= known'[p]
    BY <2>1 DEF Typed
  <2>3. 1..known[p] \subseteq 1..known'[p]
    BY <2>2
  <2> QED BY <1>1, <2>3 DEF Accepted
<1> QED BY <1>1 DEF Backed

(* Up to any of its writes, what is written was sent and authorized.       *)
LEMMA ProcessBacked ==
    ASSUME Authority, NEW r \in Reply, NEW n, NEW d, NEW rows, Process(n, r, d, rows),
           Wins(d) => r \in Backed(Rep[r].slot),
           \A x \in d.groups : SignatureSent(r, x),
           known' = known, sent' = sent, net' \subseteq net, crashes' \in Nat,
           crashes' = 0 => crashes = 0 /\ n = AllWrites
    PROVE  Authority'
<1> DEFINE o == Rival(r)
           Signed == [ssgs EXCEPT ![r] = IF n >= 3 THEN d.groups ELSE @]
           slot == Rep[r].slot
           ksn == Rep[r].route = "ksn"
           done == Wins(d) /\ ~Mismatched(r)
<1>1. /\ ssgs' = IF n >= 5 /\ Wins(d) /\ o # None THEN [Signed EXCEPT ![o] = {}] ELSE Signed
      /\ latest' = IF done /\ n >= (IF ksn THEN 10 ELSE 9)
                   THEN [latest EXCEPT ![slot] = Mark(r)] ELSE latest
      /\ shown' = IF done /\ n >= (IF ksn THEN 9 ELSE 10)
                  THEN [shown EXCEPT ![slot] = Rep[r].says] ELSE shown
  BY DEF Process
<1>2. Typed /\ SignaturesSent /\ ShownAuthorized /\ slot \in Slot
  <2>1. slot \in Slot
    BY RepliesTyped
  <2> QED BY <2>1 DEF Authority
<1>3. ssgs' = [q \in Reply |-> ssgs'[q]] /\ \A q \in Reply : ssgs'[q] \subseteq ssgs[q] \cup (IF q = r THEN d.groups ELSE {})
  <2> HIDE DEF o
  <2> QED BY <1>1, <1>2 DEF Typed
<1>4. SignaturesSent'
  BY <1>2, <1>3 DEF SignaturesSent, SignatureSent
<1>5. latest' = [s \in Slot |-> latest'[s]] /\ shown' = [s \in Slot |-> shown'[s]]
  BY <1>1, <1>2 DEF Typed
<1>6. Typed'
  BY <1>2, <1>3, <1>5 DEF Typed
<1>7. \A s \in Slot : Backed(s)' = Backed(s)
  BY DEF Backed, Accepted
<1>8. ASSUME NEW s \in Slot
      PROVE  /\ latest'[s] # None => \E q \in Backed(s) : Mark(q) = latest'[s]
             /\ shown'[s] # None => \E q \in Backed(s) : Rep[q].says = shown'[s]
             /\ crashes' = 0 /\ latest'[s] # None =>
                    \E q \in Backed(s) : Mark(q) = latest'[s] /\ Rep[q].says = shown'[s]
  <2>1. CASE s = slot /\ Wins(d) /\ latest'[s] = Mark(r) /\ shown'[s] = Rep[r].says
    BY <2>1
  <2>2. CASE latest'[s] = latest[s] /\ shown'[s] = shown[s]
    BY <1>2, <2>2 DEF ShownAuthorized
  <2>3. CASE s = slot /\ Wins(d) /\ n # AllWrites /\ latest'[s] \in {latest[s], Mark(r)}
             /\ shown'[s] \in {shown[s], Rep[r].says}
    <3>1. latest[s] # None => \E q \in Backed(s) : Mark(q) = latest[s]
      BY <1>2 DEF ShownAuthorized
    <3>2. shown[s] # None => \E q \in Backed(s) : Rep[q].says = shown[s]
      BY <1>2 DEF ShownAuthorized
    <3> QED BY <2>3, <3>1, <3>2
  <2>4. \/ latest'[s] = latest[s] /\ shown'[s] = shown[s]
        \/ s = slot /\ Wins(d) /\ n = AllWrites /\ latest'[s] = Mark(r) /\ shown'[s] = Rep[r].says
        \/ s = slot /\ Wins(d) /\ n # AllWrites /\ latest'[s] \in {latest[s], Mark(r)}
           /\ shown'[s] \in {shown[s], Rep[r].says}
    <3>1. s # slot => latest'[s] = latest[s] /\ shown'[s] = shown[s]
      BY <1>1, <1>2 DEF Typed
    <3>2. s = slot => latest'[s] \in {latest[s], Mark(r)} /\ shown'[s] \in {shown[s], Rep[r].says}
      BY <1>1, <1>2 DEF Typed
    <3>3. ~done => latest'[s] = latest[s] /\ shown'[s] = shown[s]
      BY <1>1
    <3>4. s = slot /\ done /\ n = AllWrites => latest'[s] = Mark(r) /\ shown'[s] = Rep[r].says
      BY <1>1, <1>2 DEF Typed, AllWrites
    <3> QED BY <3>1, <3>2, <3>3, <3>4
  <2> QED BY <2>1, <2>2, <2>3, <2>4
<1>9. ShownAuthorized'
  BY <1>7, <1>8 DEF ShownAuthorized, Mark
<1> QED BY <1>4, <1>6, <1>9 DEF Authority

------------------------------------------------------------------------------
(* The steps *)

(* The log of a signer grows.                                              *)
LEMMA AcceptKeeps ==
    ASSUME Authority, NEW p \in Pre, AcceptEvent(p)
    PROVE  Authority'
<1>1. Typed /\ SignaturesSent /\ ShownAuthorized
  BY DEF Authority
<1>2. /\ known[p] < Len(Accepting[p]) /\ known' = [known EXCEPT ![p] = @ + 1]
      /\ UNCHANGED <<ssgs, latest, shown, sent, net, crashes>>
  BY DEF AcceptEvent, stores
<1>3. Len(Accepting[p]) \in Nat
  BY ReplyAssumption
<1>4. /\ known' \in [Pre -> Nat] /\ \A q \in Pre : known'[q] <= Len(Accepting[q])
      /\ \A q \in Pre : known'[q] >= known[q]
  BY <1>1, <1>2, <1>3 DEF Typed
<1>5. Typed' /\ SignaturesSent'
  BY <1>1, <1>2, <1>4 DEF Typed, SignaturesSent, SignatureSent
<1>6. \A s \in Slot : \A r \in Backed(s) : r \in Backed(s)'
  BY <1>1, <1>4, BackedStays
<1>7. ShownAuthorized'
  BY <1>1, <1>2, <1>6 DEF ShownAuthorized, Mark
<1> QED BY <1>5, <1>7 DEF Authority

(* A message, decided on as it arrives.                                    *)
LEMMA MessageDecided ==
    ASSUME Typed, SignaturesSent, NEW m \in net, NEW d,
           d = Decide(m.rp, m.cigars, m.tsgs, Verdicts(m.rp, m.tsgs))
    PROVE  /\ m.rp \in Reply
           /\ Wins(d) => m.rp \in Backed(Rep[m.rp].slot)
           /\ \A x \in d.groups : SignatureSent(m.rp, x)
<1>1. m \in Messages /\ m.rp \in Reply
  BY ReplyAssumption DEF Typed
<1>2. AllCarried(m.rp, m.tsgs)
  BY <1>1, DeliveredCarried DEF AllCarried, Groups, Range
<1>3. CigarsSent(m.rp, m.cigars)
  BY <1>1 DEF CigarsSent, ByCigar, CigarSent
<1>4. Wins(d) => m.rp \in Backed(Rep[m.rp].slot)
  BY <1>1, <1>2, <1>3, WinnerBacked
<1> QED BY <1>1, <1>2, <1>4, GroupsSent

LEMMA DeliverKeeps ==
    ASSUME Authority, NEW m \in net, Deliver(m)
    PROVE  Authority'
<1>1. Typed /\ SignaturesSent
  BY DEF Authority
<1>2. PICK d : /\ d = Decide(m.rp, m.cigars, m.tsgs, Verdicts(m.rp, m.tsgs))
               /\ Process(AllWrites, m.rp, d, rpes)
  BY DEF Deliver
<1>3. net' \subseteq net /\ known' = known /\ sent' = sent /\ crashes' = crashes
  BY DEF Deliver
<1>4. crashes \in Nat
  BY <1>1 DEF Typed
<1>5. /\ m.rp \in Reply
      /\ Wins(d) => m.rp \in Backed(Rep[m.rp].slot)
      /\ \A x \in d.groups : SignatureSent(m.rp, x)
  BY <1>1, <1>2, MessageDecided
<1> QED BY <1>2, <1>3, <1>4, <1>5, ProcessBacked

LEMMA CrashKeeps ==
    ASSUME Authority, NEW m \in net, NEW n \in 0..(AllWrites - 1), Crash(m, n)
    PROVE  Authority'
<1>1. Typed /\ SignaturesSent
  BY DEF Authority
<1>2. PICK d : /\ d = Decide(m.rp, m.cigars, m.tsgs, Verdicts(m.rp, m.tsgs))
               /\ Process(n, m.rp, d, rpes)
  BY DEF Crash
<1>3. net' \subseteq net /\ known' = known /\ sent' = sent /\ crashes' = crashes + 1
  BY DEF Crash
<1>4. crashes' \in Nat /\ crashes' # 0
  BY <1>1, <1>3 DEF Typed
<1>5. /\ m.rp \in Reply
      /\ Wins(d) => m.rp \in Backed(Rep[m.rp].slot)
      /\ \A x \in d.groups : SignatureSent(m.rp, x)
  BY <1>1, <1>2, MessageDecided
<1> QED BY <1>2, <1>3, <1>4, <1>5, ProcessBacked

(* Dropping a row removes signatures and leaves the slots alone.           *)
LEMMA DropKeeps ==
    ASSUME Authority, NEW r, DropRow(r), UNCHANGED <<known, sent, net, crashes>>
    PROVE  Authority'
<1>1. Typed /\ SignaturesSent /\ ShownAuthorized
  BY DEF Authority
<1>2. ssgs' = [ssgs EXCEPT ![r] = {}] /\ UNCHANGED <<latest, shown>>
  BY DEF DropRow
<1>3. ssgs' = [q \in Reply |-> ssgs'[q]] /\ \A q \in Reply : ssgs'[q] \subseteq ssgs[q]
  BY <1>1, <1>2 DEF Typed
<1>4. Typed' /\ SignaturesSent'
  BY <1>1, <1>2, <1>3 DEF Typed, SignaturesSent, SignatureSent
<1>5. \A s \in Slot : Backed(s)' = Backed(s)
  BY DEF Backed, Accepted
<1>6. ShownAuthorized'
  BY <1>1, <1>2, <1>5 DEF ShownAuthorized, Mark
<1> QED BY <1>4, <1>6 DEF Authority

(* A reply of the escrow is decided on with what is read back of it.       *)
LEMMA SweepKeeps ==
    ASSUME Authority, NEW r \in rpes, r \in Reply, Sweep(r)
    PROVE  Authority'
<1>1. Typed /\ SignaturesSent /\ crashes \in Nat
  BY DEF Authority, Typed
<1>2. CASE DropRow(r)
  BY <1>2, DropKeeps DEF Sweep
<1>3. CASE ~DropRow(r)
  <2>1. PICK tsgs \in StoredTsgs(r) : \E d \in {Decide(r, {}, tsgs, Verdicts(r, tsgs))} :
            Process(AllWrites, r, [d EXCEPT !.waits = d.waits /\ ~Wins(d)],
                    IF Wins(d) THEN rpes \ {r} ELSE rpes)
    BY <1>3 DEF Sweep
  <2>2. PICK d : /\ d = Decide(r, {}, tsgs, Verdicts(r, tsgs))
                 /\ Process(AllWrites, r, [d EXCEPT !.waits = d.waits /\ ~Wins(d)],
                            IF Wins(d) THEN rpes \ {r} ELSE rpes)
    BY <2>1
  <2>3. AllCarried(r, tsgs)
    <3>1. PICK order \in StoredOrders(r) : tsgs = [i \in DOMAIN order |-> ReadBack(r, order[i])]
      BY <2>1 DEF StoredTsgs
    <3>2. \A i \in DOMAIN order : order[i] \in StoredSeals(r)
      BY DEF StoredOrders
    <3>3. \A i \in DOMAIN order : Carried(r, ReadBack(r, order[i]))
      BY <1>1, <3>2, ReadBackCarried
    <3> QED BY <3>1, <3>3 DEF AllCarried
  <2>4. CigarsSent(r, {})
    BY DEF CigarsSent, ByCigar
  <2>5. /\ Wins(d) => r \in Backed(Rep[r].slot)
        /\ \A x \in d.groups : SignatureSent(r, x)
    BY <1>1, <2>2, <2>3, <2>4, WinnerBacked, GroupsSent
  <2> DEFINE w == [d EXCEPT !.waits = d.waits /\ ~Wins(d)]
  <2>6. w.kind = d.kind /\ w.groups = d.groups
    BY <2>2 DEF Decide
  <2>7. /\ Wins(w) => r \in Backed(Rep[r].slot)
        /\ \A x \in w.groups : SignatureSent(r, x)
    BY <2>5, <2>6 DEF Wins
  <2>8. known' = known /\ sent' = sent /\ net' \subseteq net /\ crashes' = crashes
    BY DEF Sweep
  <2> HIDE DEF w
  <2> QED BY <1>1, <2>2, <2>7, <2>8, ProcessBacked DEF w
<1> QED BY <1>2, <1>3

(* Only replies of messages wait in the escrow.                            *)
Waiting == rpes \subseteq Reply

LEMMA WaitingKept ==
    ASSUME Authority, Waiting, [Next]_vars
    PROVE  Waiting'
<1>1. ASSUME NEW m \in net, NEW n, NEW d, Process(n, m.rp, d, rpes) PROVE Waiting'
  <2>1. m.rp \in Reply
    BY ReplyAssumption DEF Authority, Typed
  <2> QED BY <1>1, <2>1 DEF Process, Waiting
<1>2. ASSUME NEW r \in rpes, Sweep(r) PROVE Waiting'
  <2>1. CASE DropRow(r)
    BY <2>1 DEF DropRow, Waiting
  <2>2. CASE ~DropRow(r)
    <3>1. \E w, rows : Process(AllWrites, r, w, rows) /\ rows \in {rpes, rpes \ {r}}
      BY <1>2, <2>2 DEF Sweep
    <3>2. rpes' \subseteq rpes \cup {r}
      BY <3>1 DEF Process
    <3> QED BY <3>2 DEF Waiting
  <2> QED BY <2>1, <2>2
<1>3. ASSUME NEW p \in Pre, AcceptEvent(p) PROVE Waiting'
  BY <1>3 DEF AcceptEvent, stores, Waiting
<1>4. CASE Resend \/ UNCHANGED vars
  BY <1>4 DEF Resend, stores, vars, Waiting
<1> QED BY <1>1, <1>2, <1>3, <1>4 DEF Next, Deliver, Crash

LEMMA AuthorityStep ==
    ASSUME Authority, Waiting, [Next]_vars
    PROVE  Authority'
<1>1. CASE UNCHANGED vars
  <2>1. \A s \in Slot : Backed(s)' = Backed(s)
    BY <1>1 DEF vars, Backed, Accepted
  <2> QED BY <1>1, <2>1 DEF vars, Authority, Typed, SignaturesSent, SignatureSent, ShownAuthorized, Mark
<1>2. CASE Resend
  <2>1. UNCHANGED <<known, ssgs, latest, shown, sent, crashes>> /\ net' = sent
    BY <1>2 DEF Resend, stores
  <2>2. \A s \in Slot : Backed(s)' = Backed(s)
    BY <2>1 DEF Backed, Accepted
  <2> QED BY <2>1, <2>2 DEF Authority, Typed, SignaturesSent, SignatureSent, ShownAuthorized, Mark
<1>3. ASSUME NEW r \in rpes, Sweep(r) PROVE Authority'
  BY <1>3, SweepKeeps DEF Waiting
<1> QED BY <1>1, <1>2, <1>3, AcceptKeeps, DeliverKeeps, CrashKeeps DEF Next

(***************************************************************************)
(* acceptReply, processEscrowReply, processReplyKeyStateNotice: whatever   *)
(* order replies and events come in, however often they are sent again and *)
(* wherever the node stops, a slot holds what its identifier signed under  *)
(* an establishment event of its accepted log, and a notice one whose      *)
(* source is trusted.                                                      *)
(***************************************************************************)
THEOREM ShownIsAuthorized == Spec => []ShownAuthorized
<1>1. Init => Authority /\ Waiting
  <2> SUFFICES ASSUME Init PROVE Authority /\ Waiting
    OBVIOUS
  <2>1. \A p \in Pre : 0 <= Len(Accepting[p])
    BY ReplyAssumption
  <2>2. Typed /\ SignaturesSent
    BY <2>1 DEF Init, InitStores, Typed, SignaturesSent
  <2>3. ShownAuthorized /\ Waiting
    BY DEF Init, InitStores, ShownAuthorized, Waiting
  <2> QED BY <2>2, <2>3 DEF Authority
<1>2. Authority /\ Waiting /\ [Next]_vars => (Authority /\ Waiting)'
  BY AuthorityStep, WaitingKept
<1>3. Authority => ShownAuthorized
  BY DEF Authority
<1> QED BY <1>1, <1>2, <1>3, PTL DEF Spec

------------------------------------------------------------------------------
(* What a slot shows is on record *)

(* Stored and escrowed replies have their date, body and signers.          *)
StoresAgree ==
    /\ rpys \subseteq sdts
    /\ \A r \in rpes : OwnGroups(r) # {}
    /\ \A r \in scgs : CigarSent(r)

RecordInv == Authority /\ Waiting /\ StoresAgree /\ ShownOnRecord

(* A reply in a slot is not a notice, and is about that slot.              *)
LEMMA HeldReply ==
    ASSUME ShownAuthorized, NEW s \in Slot, latest[s] \in Reply
    PROVE  Rep[latest[s]].slot = s /\ Rep[latest[s]].route # "ksn"
<1>1. latest[s] # None
  BY ReplyAssumption
<1>2. PICK q \in Backed(s) : Mark(q) = latest[s]
  BY <1>1 DEF ShownAuthorized
<1>3. q \in Reply /\ Rep[q].slot = s
  BY <1>2 DEF Backed
<1>4. Rep[q].route # "ksn"
  <2> SUFFICES ASSUME Rep[q].route = "ksn" PROVE FALSE
    OBVIOUS
  <2>1. Rep[q].says \in Seal
    BY <1>3, RepliesTyped
  <2>2. latest[s] \in Event
    BY <1>2, <2>1 DEF Mark, Seal
  <2> QED BY <2>2, ReplyAssumption
<1> QED BY <1>2, <1>3, <1>4 DEF Mark

(* The numbers of a log: what was accepted at one, and is the last there.  *)
LEMMA LastAtNumber ==
    ASSUME Typed, NEW p \in Pre, NEW n, LastAt(p, n) # None
    PROVE  Ev[LastAt(p, n)].sn = n
<1> DEFINE At == {i \in 1..known[p] : Ev[Accepting[p][i]].sn = n}
<1>1. At # {} /\ LastAt(p, n) = Accepting[p][CHOOSE i \in At : \A j \in At : j <= i]
  BY DEF LastAt
<1>2. known[p] \in Nat /\ At \in SUBSET (0..known[p])
  BY DEF Typed
<1>3. \E i \in At : \A j \in At : i >= j
  <2> HIDE DEF At
  <2> QED BY <1>1, <1>2, Greatest
<1>4. (CHOOSE i \in At : \A j \in At : j <= i) \in At
  <2>1. \A i, j \in At : i >= j => j <= i
    BY <1>2
  <2> HIDE DEF At
  <2> QED BY <1>3, <2>1
<1> QED BY <1>1, <1>4

LEMMA EstIsLast ==
    ASSUME Typed, EstStays, NEW p \in Pre, NEW e \in Accepted(p), Ev[e].est
    PROVE  LastAt(p, Ev[e].sn) = e
<1> DEFINE n == Ev[e].sn
           At == {i \in 1..known[p] : Ev[Accepting[p][i]].sn = n}
           top == CHOOSE i \in At : \A j \in At : j <= i
<1>1. PICK k \in 1..known[p] : e = Accepting[p][k]
  BY DEF Accepted
<1>2. known[p] \in Nat /\ known[p] <= Len(Accepting[p]) /\ Len(Accepting[p]) \in Nat
  BY ReplyAssumption DEF Typed
<1>3. k \in At
  BY <1>1
<1>4. \A j \in At : j <= k
  <2> SUFFICES ASSUME NEW j \in 1..known[p], Ev[Accepting[p][j]].sn = n, k < j PROVE FALSE
    BY <1>1, <1>2
  <2>1. k \in 1..Len(Accepting[p]) /\ j \in 1..Len(Accepting[p])
    BY <1>1, <1>2
  <2> QED BY <1>1, <2>1 DEF EstStays
<1>5. \A i, j \in At : i <= j /\ j <= i => i = j
  BY <1>2
<1>6. LastAt(p, n) = Accepting[p][top]
  BY <1>3 DEF LastAt
<1>7. top \in At /\ \A j \in At : j <= top
  <2> HIDE DEF At
  <2> QED BY <1>3, <1>4
<1>8. top = k
  <2> HIDE DEF At, top
  <2> QED BY <1>3, <1>4, <1>5, <1>7
<1> QED BY <1>1, <1>6, <1>8

(* A seal of a stored establishment event resolves, and keeps what verifies.*)
LEMMA SealKeepsVerified ==
    ASSUME Typed, EstStays, NEW r \in Reply, NEW g, g.seal.pre \in Pre,
           g.seal.d \in Accepted(g.seal.pre), g.seal.sn = Ev[g.seal.d].sn, Ev[g.seal.d].est
    PROVE  Kept(r, g) = Verified(r, g)
BY EstIsLast DEF Kept, Resolved

(* What a record rests on: enough signatures under an accepted event.      *)
GroupOf(S, seal) == {x.siger : x \in {y \in S : y.seal = seal}}
Rests(r, S) ==
    \E x \in S : /\ x.seal.pre = Rep[r].aid /\ x.seal.d \in Accepted(x.seal.pre)
                 /\ x.seal.sn = Ev[x.seal.d].sn
                 /\ Enough(x.seal.d, GroupOf(S, x.seal))

LEMMA RecordRests ==
    ASSUME NEW r
    PROVE  OnRecord(r) <=> r \in rpys /\ (r \in scgs \/ Rests(r, ssgs[r]))
BY DEF OnRecord, Rests, GroupOf, StoredGroup

(* The signatures stored under a seal, whatever set of them was sent.      *)
LEMMA MoreRests ==
    ASSUME NEW r \in Reply, NEW S, \A x \in S : SignatureSent(r, x),
           NEW seal \in Seal, seal.pre = Rep[r].aid, seal.d \in Accepted(seal.pre),
           seal.sn = Ev[seal.d].sn, NEW V \in SUBSET GroupOf(S, seal), Enough(seal.d, V)
    PROVE  Rests(r, S)
<1> DEFINE W == GroupOf(S, seal)
           e == seal.d
<1>1. e \in Event
  BY DEF Seal
<1>2. W \subseteq Signers(r, e)
  BY DEF GroupOf, SignatureSent
<1>3. W \in SUBSET Siger
  BY <1>2, SignersTyped
<1>4. Enough(e, W)
  <2> HIDE DEF W, e
  <2> QED BY <1>1, <1>3, EnoughOfMore DEF W, e
<1>5. V # {}
  BY <1>1, EnoughIsSome
<1>6. PICK x \in S : x.seal = seal
  BY <1>5 DEF GroupOf
<1> QED BY <1>4, <1>6 DEF Rests

(* Groups pinned under the seal of a record keep what the record rests on. *)
LEMMA PinKeepsRest ==
    ASSUME Typed, SignaturesSent, EstStays, NEW r \in Reply, NEW tsgs, NEW I \in SUBSET DOMAIN tsgs,
           NEW S, S = PinGroups(r, tsgs, I), \A x \in S : SignatureSent(r, x),
           Rests(r, ssgs[r])
    PROVE  Rests(r, S)
<1>1. PICK z \in ssgs[r] : /\ z.seal.pre = Rep[r].aid /\ z.seal.d \in Accepted(z.seal.pre)
                           /\ z.seal.sn = Ev[z.seal.d].sn
                           /\ Enough(z.seal.d, GroupOf(ssgs[r], z.seal))
  BY DEF Rests
<1> DEFINE seal == z.seal
           e == seal.d
           V == VerifiedBy(e, GroupOf(ssgs[r], seal))
<1>2. seal \in Seal /\ seal.pre \in Pre /\ Ev[e].est
  BY <1>1 DEF SignaturesSent, SignatureSent, Seal, Enough
<1>3. V \subseteq GroupOf(S, seal)
  <2> SUFFICES ASSUME NEW v \in V PROVE \E y \in S : y.seal = seal /\ y.siger = v
    BY DEF GroupOf
  <2>1. PICK x \in ssgs[r] : x.seal = seal /\ x.siger = v
    BY DEF VerifiedBy, GroupOf
  <2>2. CASE \A i \in I : x.seal # tsgs[i].seal
    <3>1. x \in S
      BY <2>1, <2>2 DEF PinGroups
    <3> QED BY <2>1, <3>1
  <2>3. ASSUME NEW i \in I, x.seal = tsgs[i].seal PROVE \E y \in S : y.seal = seal /\ y.siger = v
    <3> DEFINE g == tsgs[i]
               y == [seal |-> tsgs[i].seal, siger |-> v]
    <3>1. Kept(r, g) = Verified(r, g)
      BY <1>1, <1>2, <2>1, <2>3, SealKeepsVerified
    <3>2. v \in Verified(r, g)
      BY <2>1, <2>3 DEF Verified, VerifiedBy, GroupOf, StoredGroup
    <3>3. y \in {[seal |-> tsgs[i].seal, siger |-> s] : s \in Kept(r, tsgs[i])}
      BY <3>1, <3>2
    <3>4. y \in UNION {{[seal |-> tsgs[j].seal, siger |-> s] : s \in Kept(r, tsgs[j])} : j \in I}
      <4> HIDE DEF y
      <4> QED BY <3>3, Zenon
    <3>5. y \in S
      <4> HIDE DEF y
      <4> QED BY <3>4, Zenon DEF PinGroups
    <3> QED BY <2>1, <2>3, <3>5
  <2> QED BY <2>2, <2>3
<1>4. Enough(e, V)
  <2>1. VerifiedBy(e, V) = V
    BY DEF VerifiedBy
  <2> QED BY <1>1, <2>1 DEF Enough
<1> HIDE DEF V
<1> QED BY <1>1, <1>2, <1>3, <1>4, MoreRests

(* A group that is accepted leaves its reply on record.                    *)
LEMMA PinMakesRest ==
    ASSUME Typed, NEW r \in Reply, NEW tsgs, AllCarried(r, tsgs), NEW I \in SUBSET DOMAIN tsgs,
           NEW S, S = PinGroups(r, tsgs, I), \A x \in S : SignatureSent(r, x),
           NEW i \in I, GroupVerdict(r, tsgs[i]) = "accept"
    PROVE  Rests(r, S)
<1> DEFINE g == tsgs[i]
           seal == g.seal
           e == seal.d
           V == Verified(r, g)
<1>1. /\ seal.pre = Rep[r].aid /\ Resolved(g) /\ Ev[e].est /\ Satisfied(e, V)
  BY DEF GroupVerdict
<1>2. seal \in Seal /\ e \in Event /\ seal.pre \in Pre
  BY DEF AllCarried, Carried, Seal
<1>3. LastAt(seal.pre, seal.sn) = e /\ e # None
  BY <1>1, <1>2, ReplyAssumption DEF Resolved
<1>4. e \in Accepted(seal.pre) /\ seal.sn = Ev[e].sn
  BY <1>2, <1>3, LastAtAccepted, LastAtNumber
<1>5. V \subseteq GroupOf(S, seal)
  <2> SUFFICES ASSUME NEW v \in V PROVE \E y \in S : y.seal = seal /\ y.siger = v
    BY DEF GroupOf
  <2> DEFINE y == [seal |-> tsgs[i].seal, siger |-> v]
  <2>1. Kept(r, g) = V
    BY <1>1 DEF Kept
  <2>2. y \in {[seal |-> tsgs[i].seal, siger |-> s] : s \in Kept(r, tsgs[i])}
    BY <2>1
  <2>3. y \in UNION {{[seal |-> tsgs[j].seal, siger |-> s] : s \in Kept(r, tsgs[j])} : j \in I}
    <3> HIDE DEF y
    <3> QED BY <2>2, Zenon
  <2>4. y \in S
    <3> HIDE DEF y
    <3> QED BY <2>3, Zenon DEF PinGroups
  <2> QED BY <2>4
<1>6. Enough(e, V)
  <2>1. VerifiedBy(e, V) = V
    BY DEF VerifiedBy, Verified
  <2> QED BY <1>1, <2>1 DEF Enough
<1> HIDE DEF V
<1> QED BY <1>1, <1>2, <1>4, <1>5, <1>6, MoreRests

(* What is decided keeps the records of its reply and, if it wins, makes one.*)
Sound(r, d) ==
    /\ Wins(d) => d.stores
    /\ d.kind = "cigar" => CigarSent(r)
    /\ d.waits => OwnGroups(r) # {}
    /\ d.kind = "group" \/ Rests(r, ssgs[r]) => Rests(r, d.groups)

LEMMA DecideSound ==
    ASSUME Typed, SignaturesSent, EstStays, NEW r \in Reply, NEW cigars, NEW tsgs,
           AllCarried(r, tsgs), CigarsSent(r, cigars), NEW d,
           d = Decide(r, cigars, tsgs, Verdicts(r, tsgs))
    PROVE  Sound(r, d)
<1> DEFINE Waits == {i \in DOMAIN tsgs : GroupVerdict(r, tsgs[i]) \in {"unresolved", "partial"}}
           Accepts == {i \in DOMAIN tsgs : GroupVerdict(r, tsgs[i]) = "accept"}
<1>1. \A x \in d.groups : SignatureSent(r, x)
  BY GroupsSent
<1>2. \E I \in SUBSET DOMAIN tsgs : /\ d.groups = PinGroups(r, tsgs, I)
                                    /\ d.kind = "group" => Accepts \cap I # {} /\ d.stores
                                    /\ d.kind = "cigar" => ByCigar(r, cigars) /\ d.stores
                                    /\ d.waits => Waits # {}
  <2> DEFINE verdict == Verdicts(r, tsgs)
             last == {i \in DOMAIN tsgs : verdict[i] \in {"accept", "throw"}}
             read == {i \in DOMAIN tsgs : \A j \in last : i <= j}
             deciding == {verdict[i] : i \in read} \cap {"accept", "throw"}
             wait == {i \in read : verdict[i] \in {"unresolved", "partial"}
                                   /\ Kept(r, tsgs[i]) # {}}
             winning == {i \in read : verdict[i] = "accept"}
             Decision(kind, waits, used) ==
                 [kind |-> kind, waits |-> waits, stores |-> used # {},
                  groups |-> PinGroups(r, tsgs, used)]
  <2>1. d = IF Refused(r) THEN Decision("throw", FALSE, {})
            ELSE IF ByCigar(r, cigars) THEN [Decision("cigar", FALSE, {}) EXCEPT !.stores = TRUE]
            ELSE IF deciding = {} THEN Decision("unverified", wait # {}, wait)
            ELSE IF deciding = {"throw"} THEN Decision("throw", wait # {}, wait)
            ELSE Decision("group", wait # {}, wait \cup winning)
    BY DEF Decide
  <2>2. /\ wait \in SUBSET DOMAIN tsgs /\ wait \cup winning \in SUBSET DOMAIN tsgs
        /\ {} \in SUBSET DOMAIN tsgs /\ wait \subseteq Waits /\ winning \subseteq Accepts
    BY DEF Verdicts
  <2>3. deciding \notin {{}, {"throw"}} => winning # {}
    OBVIOUS
  <2>parts. \A kind, W, U : LET c == Decision(kind, W # {}, U) IN
                            (c.waits => W # {}) /\ (U # {} => c.stores)
    OBVIOUS
  <2> HIDE DEF wait, winning, deciding, Waits, Accepts
  <2>4. CASE Refused(r) \/ ByCigar(r, cigars)
    <3>1. d.groups = PinGroups(r, tsgs, {}) /\ ~d.waits /\ d.kind # "group"
          /\ (d.kind = "cigar" => ByCigar(r, cigars) /\ d.stores)
      BY <2>1, <2>4
    <3> QED BY <2>2, <3>1
  <2>5. CASE ~Refused(r) /\ ~ByCigar(r, cigars) /\ deciding \in {{}, {"throw"}}
    <3>1. d \in {Decision("unverified", wait # {}, wait), Decision("throw", wait # {}, wait)}
      BY <2>1, <2>5
    <3>2. d.groups = PinGroups(r, tsgs, wait)
      BY <3>1
    <3>3. d.waits => wait # {}
      BY <2>parts, <3>1, Zenon
    <3>4. d.kind \in {"unverified", "throw"}
      BY <3>1
    <3> QED BY <2>2, <3>2, <3>3, <3>4
  <2>6. CASE ~Refused(r) /\ ~ByCigar(r, cigars) /\ deciding \notin {{}, {"throw"}}
    <3>1. d = Decision("group", wait # {}, wait \cup winning)
      BY <2>1, <2>6
    <3>2. d.groups = PinGroups(r, tsgs, wait \cup winning) /\ d.kind = "group"
      BY <3>1
    <3>3. d.waits => wait # {}
      BY <2>parts, <3>1, Zenon
    <3>4. Accepts \cap (wait \cup winning) # {}
      BY <2>2, <2>3, <2>6
    <3>5. d.stores
      <4>1. wait \cup winning # {}
        BY <2>3, <2>6
      <4>2. wait \cup winning # {} => d.stores
        BY <2>parts, <3>1, Zenon
      <4> QED BY <4>1, <4>2
    <3> QED BY <2>2, <3>2, <3>3, <3>4, <3>5
  <2> QED BY <2>4, <2>5, <2>6
<1>3. PICK I \in SUBSET DOMAIN tsgs : /\ d.groups = PinGroups(r, tsgs, I)
                                      /\ d.kind = "group" => Accepts \cap I # {} /\ d.stores
                                      /\ d.kind = "cigar" => ByCigar(r, cigars) /\ d.stores
                                      /\ d.waits => Waits # {}
  BY <1>2
<1>4. d.waits => OwnGroups(r) # {}
  <2> SUFFICES ASSUME NEW i \in Waits PROVE OwnGroups(r) # {}
    BY <1>3
  <2>1. tsgs[i].seal.pre = Rep[r].aid
    BY DEF GroupVerdict
  <2>2. tsgs[i].seal.d \in {h.seal.d : h \in OwnGroups(r)}
    BY <2>1 DEF AllCarried, Carried
  <2> QED BY <2>2
<1>5. d.kind = "group" => Rests(r, d.groups)
  <2> SUFFICES ASSUME NEW i \in I, GroupVerdict(r, tsgs[i]) = "accept" PROVE Rests(r, d.groups)
    BY <1>3
  <2> QED BY <1>1, <1>3, PinMakesRest
<1>6. Rests(r, ssgs[r]) => Rests(r, d.groups)
  BY <1>1, <1>3, PinKeepsRest
<1>7. (Wins(d) => d.stores) /\ (d.kind = "cigar" => CigarSent(r))
  BY <1>3 DEF Wins, CigarsSent
<1> QED BY <1>4, <1>5, <1>6, <1>7 DEF Sound

(* A write of another reply, or one that does not win, leaves a record.    *)
LEMMA RecordStays ==
    ASSUME Typed, NEW q \in Reply, NEW n \in Nat, NEW d, NEW rows, Process(n, q, d, rows),
           Sound(q, d), known' = known, NEW r \in Reply, OnRecord(r), ~Wins(d) \/ n < 3 \/ r # Rival(q)
    PROVE  OnRecord(r)'
<1> DEFINE o == Rival(q)
           Signed == [ssgs EXCEPT ![q] = IF n >= 3 THEN d.groups ELSE @]
<1>1. r \in rpys /\ (r \in scgs \/ Rests(r, ssgs[r]))
  BY RecordRests
<1>2. r \in rpys'
  BY <1>1 DEF Process
<1>3. r \in scgs => r \in scgs'
  BY DEF Process
<1>4. ssgs'[r] \in {ssgs[r]} \cup (IF r = q THEN {d.groups} ELSE {})
  <2>1. /\ ssgs' = IF n >= 5 /\ Wins(d) /\ o # None THEN [Signed EXCEPT ![o] = {}] ELSE Signed
        /\ (n >= 5 => ~(n < 3))
    BY DEF Process
  <2>2. Signed[r] \in {ssgs[r]} \cup (IF r = q THEN {d.groups} ELSE {})
    BY DEF Typed
  <2>3. r \in DOMAIN Signed
    BY DEF Typed
  <2> HIDE DEF o, Signed
  <2> QED BY <2>1, <2>2, <2>3 DEF o
<1>5. Rests(r, ssgs[r]) => Rests(r, ssgs'[r])
  BY <1>4 DEF Sound
<1>6. Rests(r, ssgs'[r]) => (r \in rpys' /\ Rests(r, ssgs'[r]) => OnRecord(r)')
  BY DEF OnRecord, Rests, GroupOf, StoredGroup, Accepted
<1>7. r \in rpys' /\ r \in scgs' => OnRecord(r)'
  BY DEF OnRecord
<1> QED BY <1>1, <1>2, <1>3, <1>5, <1>6, <1>7

(* What wins is on record as soon as its signatures are written.           *)
LEMMA RecordMade ==
    ASSUME Typed, NEW q \in Reply, NEW n \in Nat, NEW d, NEW rows, Process(n, q, d, rows),
           Sound(q, d), known' = known, Wins(d), n >= 3
    PROVE  OnRecord(q)'
<1> DEFINE o == Rival(q)
           Signed == [ssgs EXCEPT ![q] = IF n >= 3 THEN d.groups ELSE @]
<1>1. o # q
  BY ReplyAssumption DEF Rival
<1>2. q \in rpys'
  BY <1>1 DEF Process, Sound
<1>3. d.kind = "cigar" => q \in scgs'
  BY <1>1 DEF Process, Sound
<1>4. ssgs'[q] = d.groups
  <2>1. ssgs' = IF n >= 5 /\ Wins(d) /\ o # None THEN [Signed EXCEPT ![o] = {}] ELSE Signed
    BY DEF Process
  <2>2. Signed[q] = d.groups /\ q \in DOMAIN Signed
    BY DEF Typed
  <2> HIDE DEF o, Signed
  <2> QED BY <1>1, <2>1, <2>2
<1>5. d.kind = "group" => Rests(q, ssgs'[q])
  BY <1>4 DEF Sound
<1>6. q \in rpys' /\ Rests(q, ssgs'[q]) => OnRecord(q)'
  BY DEF OnRecord, Rests, GroupOf, StoredGroup, Accepted
<1>7. q \in rpys' /\ q \in scgs' => OnRecord(q)'
  BY DEF OnRecord
<1> QED BY <1>2, <1>3, <1>5, <1>6, <1>7 DEF Wins

LEMMA ProcessRecorded ==
    ASSUME Authority, ShownOnRecord, NEW q \in Reply, NEW n \in Nat, NEW d, NEW rows,
           Process(n, q, d, rows), Sound(q, d), known' = known,
           crashes' \in Nat, crashes' >= crashes, n # AllWrites => crashes' > 0
    PROVE  ShownOnRecord'
<1> DEFINE slot == Rep[q].slot
           ksn == Rep[q].route = "ksn"
           done == Wins(d) /\ ~Mismatched(q)
           writes == done /\ n >= (IF ksn THEN 10 ELSE 9)
<1>1. Typed /\ ShownAuthorized /\ slot \in Slot /\ crashes \in Nat
  <2>1. slot \in Slot
    BY RepliesTyped
  <2> QED BY <2>1 DEF Authority, Typed
<1>2. SUFFICES ASSUME NEW s \in Slot, latest'[s] \in Reply
               PROVE  \E r \in Reply : /\ Rep[r].slot = s /\ OnRecord(r)'
                                       /\ (r = latest'[s] \/ crashes' > 0)
  BY DEF ShownOnRecord
<1>3. latest' = IF writes THEN [latest EXCEPT ![slot] = Mark(q)] ELSE latest
  BY DEF Process
<1>4. CASE s = slot /\ writes
  <2>1. latest'[s] = Mark(q)
    BY <1>1, <1>3, <1>4 DEF Typed
  <2>2. ~ksn
    <3> SUFFICES ASSUME ksn PROVE FALSE
      OBVIOUS
    <3>1. Rep[q].says \in Seal
      BY RepliesTyped
    <3>2. latest'[s] \in Event
      BY <2>1, <3>1 DEF Mark, Seal
    <3> QED BY <1>2, <3>2, ReplyAssumption
  <2>3. latest'[s] = q /\ n >= 3 /\ Wins(d)
    BY <1>4, <2>1, <2>2 DEF Mark
  <2>4. OnRecord(q)'
    BY <1>1, <2>3, RecordMade
  <2> QED BY <1>4, <2>3, <2>4
<1>5. CASE ~(s = slot /\ writes)
  <2>1. latest'[s] = latest[s]
    BY <1>1, <1>3, <1>5 DEF Typed
  <2>2. PICK r \in Reply : Rep[r].slot = s /\ OnRecord(r) /\ (r = latest[s] \/ crashes > 0)
    BY <1>2, <2>1 DEF ShownOnRecord
  <2>3. Rep[latest[s]].slot = s /\ Rep[latest[s]].route # "ksn"
    BY <1>1, <1>2, <2>1, HeldReply
  <2>4. CASE ~Wins(d) \/ n < 3 \/ r # Rival(q)
    <3>1. OnRecord(r)'
      BY <1>1, <2>2, <2>4, RecordStays
    <3> QED BY <1>1, <2>1, <2>2, <3>1
  <2>5. CASE Wins(d) /\ n >= 3 /\ r = Rival(q)
    <3>1. r = latest[slot]
      BY <2>5, ReplyAssumption DEF Rival
    <3>2. s = slot
      BY <1>1, <2>2, <3>1, HeldReply
    <3>3. ~ksn /\ ~Mismatched(q)
      <4>1. ~ksn
        BY <1>2, <2>1, <2>3, <3>2, RepliesTyped
      <4> QED BY <4>1 DEF Mismatched
    <3>4. n # AllWrites
      BY <1>5, <2>5, <3>2, <3>3 DEF AllWrites
    <3>5. OnRecord(q)'
      BY <1>1, <2>5, RecordMade
    <3> QED BY <3>2, <3>4, <3>5
  <2> QED BY <2>4, <2>5
<1> QED BY <1>4, <1>5

LEMMA ProcessAgrees ==
    ASSUME StoresAgree, NEW q \in Reply, NEW n \in Nat, NEW d, NEW rows,
           Process(n, q, d, rows), Sound(q, d), rows \subseteq rpes
    PROVE  StoresAgree'
<1>1. rpys' \subseteq sdts'
  BY DEF Process, StoresAgree
<1>2. \A r \in rpes' : OwnGroups(r) # {}
  BY DEF Process, StoresAgree, Sound
<1>3. \A r \in scgs' : CigarSent(r)
  BY DEF Process, StoresAgree, Sound
<1> QED BY <1>1, <1>2, <1>3 DEF StoresAgree

(* A reply that shows in a slot, and waits, is not dropped: what it rests  *)
(* on is read back, and none of it throws.                                 *)
LEMMA WaitingRecordSwept ==
    ASSUME Orderly, Authority, StoresAgree, NEW r \in Reply, r \in rpes, OnRecord(r)
    PROVE  ~Lost(r)
<1>1. r \in rpys /\ r \in sdts /\ r \notin Late /\ r \notin scgs
  BY DEF OnRecord, StoresAgree, Orderly, SignedOneWay
<1>2. PICK x \in ssgs[r] : x.seal.pre = Rep[r].aid /\ x.seal.d \in Accepted(x.seal.pre)
  BY <1>1 DEF OnRecord
<1>3. x.seal \in Seal
  BY DEF Authority, SignaturesSent, SignatureSent
<1>4. Ev[x.seal.d].pre = x.seal.pre
  <2> DEFINE p == x.seal.pre
  <2>1. p \in Pre /\ known[p] \in Nat /\ known[p] <= Len(Accepting[p])
    BY <1>3 DEF Authority, Typed, Seal
  <2>2. Accepting[p] \in Seq({e \in Event : Ev[e].pre = p})
    BY <2>1, ReplyAssumption
  <2>3. PICK i \in 1..known[p] : x.seal.d = Accepting[p][i]
    BY <1>2 DEF Accepted
  <2>4. Accepting[p][i] \in {e \in Event : Ev[e].pre = p}
    BY <2>1, <2>2, <2>3
  <2> QED BY <2>3, <2>4
<1>5. x.seal \in StoredSeals(r)
  BY <1>2, <1>4 DEF StoredSeals
<1> QED BY <1>1, <1>5 DEF Lost

LEMMA EstNotThrown ==
    ASSUME Orderly, Authority, NEW r \in Reply, Rep[r].route # "ksn",
           NEW tsgs \in StoredTsgs(r), NEW d, d = Decide(r, {}, tsgs, Verdicts(r, tsgs))
    PROVE  ~Throws(r, d)
<1>1. ~Refused(r) /\ ~Mismatched(r)
  BY DEF Refused, Mismatched
<1>2. \A i \in DOMAIN tsgs : Carried(r, tsgs[i])
  <2>1. PICK order \in StoredOrders(r) : tsgs = [i \in DOMAIN order |-> ReadBack(r, order[i])]
    BY DEF StoredTsgs
  <2>2. \A i \in DOMAIN order : order[i] \in StoredSeals(r)
    BY DEF StoredOrders
  <2> QED BY <2>1, <2>2, ReadBackCarried DEF Authority
<1>3. \A i \in DOMAIN tsgs : Verdicts(r, tsgs)[i] # "throw"
  <2> SUFFICES ASSUME NEW i \in DOMAIN tsgs, GroupVerdict(r, tsgs[i]) = "throw" PROVE FALSE
    BY DEF Verdicts
  <2>1. tsgs[i].seal.pre = Rep[r].aid /\ ~Ev[tsgs[i].seal.d].est
    BY DEF GroupVerdict
  <2>2. tsgs[i].seal.d \in {h.seal.d : h \in OwnGroups(r)}
    BY <1>2, <2>1 DEF Carried
  <2> QED BY <2>1, <2>2 DEF Orderly, SignedByEst
<1>4. d.kind # "throw"
  BY <1>1, <1>3 DEF Decide
<1> QED BY <1>1, <1>4 DEF Throws

(* Dropping a row leaves what the slots rest on.                           *)
LEMMA DropLeavesRecord ==
    ASSUME Authority, NEW q \in Reply, DropRow(q), known' = known, NEW r \in Reply,
           OnRecord(r), r # q
    PROVE  OnRecord(r)'
<1>1. r \in rpys' /\ (r \in scgs => r \in scgs')
  BY DEF DropRow, OnRecord
<1>2. ssgs'[r] = ssgs[r]
  BY DEF DropRow, Authority, Typed
<1> QED BY <1>1, <1>2 DEF OnRecord, StoredGroup, Accepted

LEMMA SweepRecorded ==
    ASSUME Orderly, RecordInv, NEW q \in rpes, Sweep(q)
    PROVE  StoresAgree' /\ ShownOnRecord'
<1>1. /\ Authority /\ Typed /\ SignaturesSent /\ ShownAuthorized /\ StoresAgree /\ ShownOnRecord
      /\ q \in Reply
  BY DEF RecordInv, Authority, Waiting
<1>2. known' = known /\ crashes' = crashes /\ crashes \in Nat
  BY <1>1 DEF Sweep, Typed
<1> DEFINE Thrown == \E tsgs \in StoredTsgs(q) : Throws(q, Decide(q, {}, tsgs, Verdicts(q, tsgs)))
<1>3. CASE DropRow(q) /\ (Lost(q) \/ Thrown)
  <2>1. StoresAgree'
    BY <1>1, <1>3 DEF DropRow, StoresAgree
  <2>2. SUFFICES ASSUME NEW s \in Slot, latest'[s] \in Reply
                 PROVE  \E r \in Reply : /\ Rep[r].slot = s /\ OnRecord(r)'
                                         /\ (r = latest'[s] \/ crashes' > 0)
    BY <2>1 DEF ShownOnRecord
  <2>3. latest'[s] = latest[s]
    BY <1>3 DEF DropRow
  <2>4. PICK r \in Reply : Rep[r].slot = s /\ OnRecord(r) /\ (r = latest[s] \/ crashes > 0)
    BY <1>1, <2>2, <2>3 DEF ShownOnRecord
  <2>5. Rep[r].route # "ksn"
    BY <1>1, <2>2, <2>3, <2>4, HeldReply, RepliesTyped
  <2>6. r # q
    <3> SUFFICES ASSUME r = q PROVE FALSE
      OBVIOUS
    <3>1. ~Lost(q)
      BY <1>1, <2>4, WaitingRecordSwept
    <3>2. PICK tsgs \in StoredTsgs(q) : Throws(q, Decide(q, {}, tsgs, Verdicts(q, tsgs)))
      BY <1>3, <3>1
    <3> QED BY <1>1, <2>5, <3>2, EstNotThrown
  <2>7. OnRecord(r)'
    BY <1>1, <1>2, <1>3, <2>4, <2>6, DropLeavesRecord
  <2> QED BY <1>2, <2>3, <2>4, <2>7
<1>4. CASE ~(DropRow(q) /\ (Lost(q) \/ Thrown))
  <2>1. PICK tsgs \in StoredTsgs(q) : \E d \in {Decide(q, {}, tsgs, Verdicts(q, tsgs))} :
            Process(AllWrites, q, [d EXCEPT !.waits = d.waits /\ ~Wins(d)],
                    IF Wins(d) THEN rpes \ {q} ELSE rpes)
    BY <1>4 DEF Sweep
  <2>2. PICK d : /\ d = Decide(q, {}, tsgs, Verdicts(q, tsgs))
                 /\ Process(AllWrites, q, [d EXCEPT !.waits = d.waits /\ ~Wins(d)],
                            IF Wins(d) THEN rpes \ {q} ELSE rpes)
    BY <2>1
  <2>3. AllCarried(q, tsgs)
    <3>1. PICK order \in StoredOrders(q) : tsgs = [i \in DOMAIN order |-> ReadBack(q, order[i])]
      BY <2>1 DEF StoredTsgs
    <3>2. \A i \in DOMAIN order : order[i] \in StoredSeals(q)
      BY DEF StoredOrders
    <3> QED BY <1>1, <3>1, <3>2, ReadBackCarried DEF AllCarried
  <2>4. CigarsSent(q, {})
    BY DEF CigarsSent, ByCigar
  <2>5. Sound(q, d)
    BY <1>1, <2>2, <2>3, <2>4, DecideSound DEF Orderly
  <2> DEFINE w == [d EXCEPT !.waits = d.waits /\ ~Wins(d)]
             rows == IF Wins(d) THEN rpes \ {q} ELSE rpes
  <2>6. w.kind = d.kind /\ w.groups = d.groups /\ w.stores = d.stores /\ (w.waits => d.waits)
    BY <2>2 DEF Decide
  <2>7. Sound(q, w)
    <3> HIDE DEF w
    <3> QED BY <2>5, <2>6 DEF Sound, Wins
  <2>8. rows \subseteq rpes /\ AllWrites \in Nat
    BY DEF AllWrites
  <2>9. Process(AllWrites, q, w, rows)
    BY <2>2
  <2>10. crashes' \in Nat /\ crashes' >= crashes
    BY <1>2
  <2> HIDE DEF w, rows
  <2> QED BY <1>1, <1>2, <2>7, <2>8, <2>9, <2>10, ProcessRecorded, ProcessAgrees
<1> QED BY <1>3, <1>4

LEMMA MessageSound ==
    ASSUME Authority, EstStays, NEW m \in net, NEW d,
           d = Decide(m.rp, m.cigars, m.tsgs, Verdicts(m.rp, m.tsgs))
    PROVE  m.rp \in Reply /\ Sound(m.rp, d)
<1>1. m \in Messages /\ m.rp \in Reply
  BY ReplyAssumption DEF Authority, Typed
<1>2. AllCarried(m.rp, m.tsgs)
  BY <1>1, DeliveredCarried DEF AllCarried, Groups, Range
<1>3. CigarsSent(m.rp, m.cigars)
  BY <1>1 DEF CigarsSent, ByCigar, CigarSent
<1>4. Sound(m.rp, d)
  BY <1>1, <1>2, <1>3, DecideSound DEF Authority
<1> QED BY <1>1, <1>4

LEMMA ArrivalRecorded ==
    ASSUME Orderly, RecordInv, NEW m \in net, NEW n \in 0..AllWrites, NEW d,
           d = Decide(m.rp, m.cigars, m.tsgs, Verdicts(m.rp, m.tsgs)),
           Process(n, m.rp, d, rpes), known' = known,
           crashes' \in Nat, crashes' >= crashes, n # AllWrites => crashes' > 0
    PROVE  StoresAgree' /\ ShownOnRecord'
<1>1. m.rp \in Reply /\ Sound(m.rp, d)
  BY MessageSound DEF RecordInv, Orderly
<1>2. n \in Nat /\ Authority /\ StoresAgree /\ ShownOnRecord
  BY DEF RecordInv, AllWrites
<1> QED BY <1>1, <1>2, ProcessRecorded, ProcessAgrees

LEMMA RecordStep ==
    ASSUME Orderly, RecordInv, [Next]_vars
    PROVE  RecordInv'
<1>1. Authority' /\ Waiting' /\ crashes \in Nat
  BY AuthorityStep, WaitingKept DEF RecordInv, Authority, Typed
<1>2. ASSUME NEW p \in Pre, AcceptEvent(p) PROVE StoresAgree' /\ ShownOnRecord'
  <2>1. UNCHANGED <<sdts, rpys, scgs, ssgs, rpes, latest, crashes>>
    BY <1>2 DEF AcceptEvent, stores
  <2>2. \A q \in Pre : 1..known[q] \subseteq 1..known'[q]
    BY <1>2 DEF AcceptEvent, RecordInv, Authority, Typed
  <2>3. \A q \in Pre : Accepted(q) \subseteq Accepted(q)'
    BY <2>2 DEF Accepted
  <2>4. ASSUME NEW r \in Reply, OnRecord(r) PROVE OnRecord(r)'
    <3>1. CASE r \in scgs
      BY <2>1, <2>4, <3>1 DEF OnRecord
    <3>2. CASE r \notin scgs
      <4>1. PICK x \in ssgs[r] : /\ x.seal.pre = Rep[r].aid /\ x.seal.d \in Accepted(x.seal.pre)
                                 /\ x.seal.sn = Ev[x.seal.d].sn
                                 /\ Enough(x.seal.d, StoredGroup(r, x.seal))
        BY <2>4, <3>2 DEF OnRecord
      <4>2. x.seal.pre \in Pre
        BY DEF RecordInv, Authority, SignaturesSent, SignatureSent, Seal
      <4>3. x.seal.d \in Accepted(x.seal.pre)'
        BY <2>3, <4>1, <4>2
      <4>4. Enough(x.seal.d, StoredGroup(r, x.seal))'
        BY <2>1, <4>1 DEF StoredGroup
      <4>5. x \in ssgs'[r] /\ r \in rpys'
        BY <2>1, <2>4 DEF OnRecord
      <4> QED BY <4>1, <4>3, <4>4, <4>5 DEF OnRecord
    <3> QED BY <3>1, <3>2
  <2> QED BY <2>1, <2>4 DEF RecordInv, StoresAgree, ShownOnRecord
<1>3. ASSUME Resend \/ UNCHANGED vars PROVE StoresAgree' /\ ShownOnRecord'
  <2>1. UNCHANGED <<known, sdts, rpys, scgs, ssgs, rpes, latest, crashes>>
    BY <1>3 DEF Resend, stores, vars
  <2>2. \A r \in Reply : OnRecord(r) => OnRecord(r)'
    BY <2>1 DEF OnRecord, StoredGroup, Accepted
  <2> QED BY <2>1, <2>2 DEF RecordInv, StoresAgree, ShownOnRecord
<1>4. ASSUME NEW m \in net, Deliver(m) PROVE StoresAgree' /\ ShownOnRecord'
  <2>1. PICK d : /\ d = Decide(m.rp, m.cigars, m.tsgs, Verdicts(m.rp, m.tsgs))
                 /\ Process(AllWrites, m.rp, d, rpes)
    BY <1>4 DEF Deliver
  <2>2. known' = known /\ crashes' = crashes /\ AllWrites \in 0..AllWrites
    BY <1>4 DEF Deliver, AllWrites
  <2> QED BY <1>1, <2>1, <2>2, ArrivalRecorded
<1>5. ASSUME NEW m \in net, NEW n \in 0..(AllWrites - 1), Crash(m, n)
      PROVE  StoresAgree' /\ ShownOnRecord'
  <2>1. PICK d : /\ d = Decide(m.rp, m.cigars, m.tsgs, Verdicts(m.rp, m.tsgs))
                 /\ Process(n, m.rp, d, rpes)
    BY <1>5 DEF Crash
  <2>2. known' = known /\ crashes' = crashes + 1 /\ n \in 0..AllWrites
    BY <1>5 DEF Crash, AllWrites
  <2>3. crashes' \in Nat /\ crashes' >= crashes /\ crashes' > 0
    BY <1>1, <2>2
  <2> QED BY <2>1, <2>2, <2>3, ArrivalRecorded
<1>6. ASSUME NEW q \in rpes, Sweep(q) PROVE StoresAgree' /\ ShownOnRecord'
  BY <1>6, SweepRecorded
<1>7. StoresAgree' /\ ShownOnRecord'
  BY <1>2, <1>3, <1>4, <1>5, <1>6 DEF Next
<1> QED BY <1>1, <1>7 DEF RecordInv

(***************************************************************************)
(* acceptReply, updateReply, removeReply: where no reply expires, replies  *)
(* are signed under establishment events none of which is superseded, and  *)
(* identifiers sign either with the keys of a log or with their own, what  *)
(* a slot shows rests on a stored reply with enough stored signatures; in  *)
(* the middle of replacing it, on the reply that is to replace it.         *)
(***************************************************************************)
THEOREM ShownIsOnRecord == Orderly => (Spec => []ShownOnRecord)
<1> SUFFICES ASSUME Orderly PROVE Spec => []ShownOnRecord
  OBVIOUS
<1>1. Init => RecordInv
  <2> SUFFICES ASSUME Init PROVE RecordInv
    OBVIOUS
  <2>1. \A p \in Pre : 0 <= Len(Accepting[p])
    BY ReplyAssumption
  <2>2. Typed /\ SignaturesSent
    BY <2>1 DEF Init, InitStores, Typed, SignaturesSent
  <2>3. ShownAuthorized /\ Waiting /\ StoresAgree
    BY DEF Init, InitStores, ShownAuthorized, Waiting, StoresAgree
  <2>4. \A s \in Slot : latest[s] \notin Reply
    BY ReplyAssumption DEF Init, InitStores
  <2> QED BY <2>2, <2>3, <2>4 DEF RecordInv, Authority, ShownOnRecord
<1>2. RecordInv /\ [Next]_vars => RecordInv'
  BY RecordStep
<1>3. RecordInv => ShownOnRecord
  BY DEF RecordInv
<1> QED BY <1>1, <1>2, <1>3, PTL DEF Spec
==============================================================================
