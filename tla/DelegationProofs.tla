--------------------------- MODULE DelegationProofs ---------------------------
(***************************************************************************)
(* Proofs about delegated identifiers for every set of identifiers, events,*)
(* delegators and messages: an establishment event of another node's       *)
(* delegate is accepted only with its approval accepted, and every source  *)
(* seal kept names such an approval, whatever seals come with the events,  *)
(* in whatever order, and however the logs are recovered.                  *)
(*                                                                         *)
(* The searches and the climb along the delegators answer with approvals   *)
(* and keep only approvals (BossOfNewGood, BossOfOldGood, SupersedesGood); *)
(* so does every decision (Decides), and what a decision writes keeps      *)
(* DelegationInv.  A rotation gives way only to a stronger one: a claim    *)
(* bears on the two rotations at every level of the climb (ClimbBears).    *)
(* What is accepted for the first time extends a chain (AcceptedChains),   *)
(* and what is not delegated is never accepted again (AcceptedNew).        *)
(***************************************************************************)
EXTENDS Delegation, FiniteSetTheorems, WellFoundedInduction, SequenceTheorems, TLAPS

(* Accepted event b of the delegator of e approves e.                      *)
Approves(b, e) == b \in Bosses[e] /\ Accepted(b)

HintsGood(hints) ==
    /\ hints \in [Event -> Seal]
    /\ \A e \in Event : hints[e] # None => Approves(hints[e], e)

Typed ==
    /\ kels \in [Pre -> [0..MaxSn -> Seq(Event)]] /\ fels \in [Pre -> Seq(Event)]
    /\ state \in [Pre -> [said : Seal, est : Seal]]
    /\ udes \in [Event -> Seal]

(* The log of an identifier holds its own events; what is stored at a      *)
(* number and what the key state names was first seen.                     *)
LogsAgree ==
    \A p \in Pre :
        /\ \A e \in ToSet(fels[p]) : Ev[e].pre = p
        /\ \A n \in 0..MaxSn : ToSet(kels[p][n]) \subseteq ToSet(fels[p])
        /\ state[p] = NoState \/ {state[p].said, state[p].est} \subseteq ToSet(fels[p])

(* A seal stored with an event of this node's own identifiers approves it. *)
OwnUnsealed == \A e \in Event : Ev[e].pre \in own /\ udes[e] # None => Approves(udes[e], e)

LogsInv ==
    Typed /\ LogsAgree /\ HintsGood(aess) /\ OwnUnsealed /\ DelegatedAnchored

(* An event of this node's own identifiers comes without a source seal, and*)
(* only delegated ones wait for an approval here.                          *)
QueuesInv ==
    /\ own \subseteq Pre /\ net \subseteq Message
    /\ escrow \subseteq EscrowKind \X Event /\ due \subseteq EscrowKind \X Event
    /\ \A m \in net : Ev[m.event].pre \in own => m.seal = None
    /\ \A row \in escrow \cup due : row[1] = "delegables" => Delegated(Ev[row[2]].pre)

DelegationInv == LogsInv /\ QueuesInv

------------------------------------------------------------------------------
(* Numbers *)

(* A set of numbers that is not empty has a least.                         *)
LEMMA Least ==
    ASSUME NEW T \in SUBSET Nat, T # {} PROVE \E m \in T : \A y \in T : m <= y
<1> DEFINE R == {ss \in Nat \X Nat : ss[1] < ss[2]}
<1>1. IsWellFoundedOn(OpToRel(<, Nat), Nat)
  BY NatLessThanWellFounded, Zenon
<1>2. OpToRel(<, Nat) = R
  BY DEF OpToRel
<1>3. IsWellFoundedOn(R, Nat)
  BY <1>1, <1>2, Zenon
<1> HIDE DEF R
<1>4. \E m \in T : \A y \in T : ~(<<y, m>> \in R)
  BY <1>3, WFMin
<1>5. \A x, y \in Nat : ~(<<y, x>> \in R) => x <= y
  BY DEF R
<1> QED BY <1>4, <1>5

(* A set of numbers under a bound has a greatest: the one furthest below.  *)
LEMMA Greatest ==
    ASSUME NEW n \in Nat, NEW T \in SUBSET (0..n), T # {}
    PROVE  \E m \in T : \A y \in T : m >= y
<1> DEFINE below == {k \in 0..n : n - k \in T}
<1>1. below \in SUBSET Nat
  OBVIOUS
<1>2. \A t \in T : n - t \in below
  OBVIOUS
<1>3. below # {}
  BY <1>2
<1>4. PICK m \in below : \A y \in below : m <= y
  <2> HIDE DEF below
  <2> QED BY <1>1, <1>3, Least
<1>5. \A t \in T : n - m >= t
  BY <1>2, <1>4
<1> QED BY <1>4, <1>5

LEMMA MaxIn ==
    ASSUME NEW n \in Nat, NEW T \in SUBSET (0..n), T # {}
    PROVE  Max(T) \in T
BY Greatest DEF Max

LEMMA MinIn ==
    ASSUME NEW n \in Nat, NEW T \in SUBSET (0..n), T # {}
    PROVE  Min(T) \in T
<1>1. T \in SUBSET Nat
  OBVIOUS
<1> QED BY <1>1, Least DEF Min

------------------------------------------------------------------------------
(* The searches for an approval *)

LEMMA EventFacts ==
    \A e \in Event :
        /\ Ev[e].pre \in Pre /\ Ev[e].sn \in 0..MaxSn /\ Ev[e].seals \in Seq(Event)
        /\ Ev[e].ilk \in {"icp", "dip", "rot", "drt", "ixn"}
        /\ Delegator[Ev[e].pre] \in Pre \cup {None}
BY DelegationAssumption

(* The last event stored at a number is one of the log.                    *)
LEMMA LastAtFacts ==
    ASSUME Typed, LogsAgree, NEW p \in Pre, NEW n \in 0..MaxSn, LastAt(p, n) # None
    PROVE  LastAt(p, n) \in Event /\ Ev[LastAt(p, n)].pre = p /\ Accepted(LastAt(p, n))
<1>1. kels[p][n] \in Seq(Event) /\ fels[p] \in Seq(Event)
  BY DEF Typed
<1>2. kels[p][n] # <<>> /\ LastAt(p, n) = kels[p][n][Len(kels[p][n])]
  BY DEF LastAt, Last
<1>3. Len(kels[p][n]) \in DOMAIN kels[p][n] /\ LastAt(p, n) \in Event
  BY <1>1, <1>2
<1>4. LastAt(p, n) \in ToSet(kels[p][n])
  BY <1>2, <1>3 DEF ToSet
<1>5. LastAt(p, n) \in ToSet(fels[p])
  BY <1>4 DEF LogsAgree
<1> QED BY <1>3, <1>5 DEF LogsAgree, Accepted

LEMMA ApproverAt ==
    ASSUME Typed, LogsAgree, NEW e \in Event, NEW dp \in Pre, dp = Delegator[Ev[e].pre],
           NEW n \in 0..MaxSn, LastAt(dp, n) # None, Anchors(LastAt(dp, n), e)
    PROVE  Approves(LastAt(dp, n), e)
BY LastAtFacts DEF Approves, Bosses

LEMMA LastBossGood ==
    ASSUME Typed, LogsAgree, NEW e \in Event, NEW dp \in Pre, dp = Delegator[Ev[e].pre],
           NEW seal \in Seal, LastBoss(dp, seal, e) # None
    PROVE  Approves(LastBoss(dp, seal, e), e)
<1>1. seal \in Event /\ LastBoss(dp, seal, e) = LastAt(dp, Ev[seal].sn)
      /\ LastAt(dp, Ev[seal].sn) # None /\ Anchors(LastAt(dp, Ev[seal].sn), e)
  BY DEF LastBoss, Seal
<1>2. Ev[seal].sn \in 0..MaxSn
  BY <1>1, EventFacts
<1> QED BY <1>1, <1>2, ApproverAt

LEMMA SearchBranchGood ==
    ASSUME Typed, LogsAgree, NEW e \in Event, NEW dp \in Pre, dp = Delegator[Ev[e].pre],
           Branch(dp, e) # {}
    PROVE  /\ Approves(LastAt(dp, Max(Branch(dp, e))), e)
           /\ Approves(LastAt(dp, Min(Branch(dp, e))), e)
<1>1. MaxSn \in Nat /\ Branch(dp, e) \in SUBSET (0..MaxSn)
  BY DelegationAssumption DEF Branch
<1>2. Max(Branch(dp, e)) \in Branch(dp, e) /\ Min(Branch(dp, e)) \in Branch(dp, e)
  BY <1>1, MaxIn, MinIn
<1>3. \A n \in Branch(dp, e) : n \in 0..MaxSn /\ LastAt(dp, n) # None
                               /\ Anchors(LastAt(dp, n), e)
  BY DEF Branch
<1> QED BY <1>2, <1>3, ApproverAt

LEMMA FirstAlongGood ==
    ASSUME Typed, LogsAgree, NEW e \in Event, NEW dp \in Pre \cup {None},
           dp = Delegator[Ev[e].pre], FirstAlong(dp, e) # None
    PROVE  Approves(FirstAlong(dp, e), e)
<1>1. dp \in Pre /\ Branch(dp, e) # {} /\ FirstAlong(dp, e) = LastAt(dp, Min(Branch(dp, e)))
  BY DEF FirstAlong
<1> QED BY <1>1, SearchBranchGood

LEMMA SearchAllGood ==
    ASSUME Typed, LogsAgree, NEW e \in Event, NEW dp \in Pre, dp = Delegator[Ev[e].pre],
           SearchAll(dp, e) # None
    PROVE  Approves(SearchAll(dp, e), e)
<1> DEFINE fns == {i \in DOMAIN fels[dp] : Anchors(fels[dp][i], e)}
<1>1. fels[dp] \in Seq(Event) /\ Len(fels[dp]) \in Nat
  BY DEF Typed
<1>2. fns # {} /\ SearchAll(dp, e) = fels[dp][Max(fns)]
  BY DEF SearchAll
<1>3. fns \in SUBSET (0..Len(fels[dp]))
  BY <1>1
<1>4. Max(fns) \in fns
  <2> HIDE DEF fns
  <2> QED BY <1>1, <1>2, <1>3, MaxIn
<1>5. PICK i \in DOMAIN fels[dp] : SearchAll(dp, e) = fels[dp][i] /\ Anchors(fels[dp][i], e)
  BY <1>2, <1>4
<1>6. fels[dp][i] \in ToSet(fels[dp]) /\ fels[dp][i] \in Event
  BY <1>1 DEF ToSet
<1>7. Ev[fels[dp][i]].pre = dp
  BY <1>6 DEF LogsAgree
<1> QED BY <1>5, <1>6, <1>7 DEF Approves, Bosses, Accepted

LEMMA AcceptedBossGood ==
    ASSUME NEW e \in Event, NEW dp, dp = Delegator[Ev[e].pre],
           NEW seal \in Seal, AcceptedBoss(dp, seal, e) # None
    PROVE  Approves(AcceptedBoss(dp, seal, e), e)
BY DEF AcceptedBoss, Seal, Approves, Bosses

LEMMA SetHint ==
    ASSUME NEW hints, HintsGood(hints), NEW e \in Event,
           NEW b, b = None \/ Approves(b, e)
    PROVE  HintsGood([hints EXCEPT ![e] = b])
<1>1. b \in Seal
  BY DEF Approves, Bosses, Seal
<1> QED BY <1>1 DEF HintsGood

(* What a search answers with approves the event, and so do the seals kept.*)
FoundGood(r, e) == HintsGood(r.aess) /\ (r.boss = None \/ Approves(r.boss, e))

LEMMA RepairedGood ==
    ASSUME NEW hints, HintsGood(hints), NEW e \in Event, NEW b, b = None \/ Approves(b, e)
    PROVE  HintsGood(Repaired(e, b, hints))
BY SetHint DEF Repaired

LEMMA FoundIs ==
    ASSUME NEW e, NEW b, b = None \/ Approves(b, e), NEW hints, HintsGood(hints)
    PROVE  FoundGood(Found(b, hints), e)
BY DEF Found, FoundGood

LEMMA BossOfNewGood ==
    ASSUME Typed, LogsAgree, NEW e \in Event, NEW dp \in Pre, dp = Delegator[Ev[e].pre],
           NEW seal \in Seal, NEW eager, NEW hints, HintsGood(hints)
    PROVE  FoundGood(BossOfNew(dp, e, seal, eager, hints), e)
<1> DEFINE hinted == LastBoss(dp, seal, e)
           kept == LastBoss(dp, hints[e], e)
           found == IF eager THEN SearchBranch(dp, e) ELSE None
<1>1. hinted = None \/ Approves(hinted, e)
  BY LastBossGood
<1>2. kept = None \/ Approves(kept, e)
  <2>1. hints[e] \in Seal
    BY DEF HintsGood
  <2> QED BY <2>1, LastBossGood
<1>3. found = None \/ Approves(found, e)
  BY SearchBranchGood DEF SearchBranch
<1>4. BossOfNew(dp, e, seal, eager, hints) =
        IF hinted # None THEN Found(hinted, hints)
        ELSE IF kept # None THEN Found(kept, Repaired(e, kept, hints))
        ELSE IF found # None THEN Found(found, Repaired(e, found, hints))
        ELSE Found(None, hints)
  BY DEF BossOfNew
<1> HIDE DEF hinted, kept, found
<1>5. HintsGood(Repaired(e, kept, hints)) /\ HintsGood(Repaired(e, found, hints))
  BY <1>2, <1>3, RepairedGood
<1>6. /\ FoundGood(Found(hinted, hints), e)
      /\ FoundGood(Found(kept, Repaired(e, kept, hints)), e)
      /\ FoundGood(Found(found, Repaired(e, found, hints)), e)
      /\ FoundGood(Found(None, hints), e)
  BY <1>1, <1>2, <1>3, <1>5, FoundIs
<1> QED BY <1>4, <1>6

LEMMA BossOfOldGood ==
    ASSUME Typed, LogsAgree, NEW e \in Event, NEW dp \in Pre, dp = Delegator[Ev[e].pre],
           NEW eager, NEW hints, HintsGood(hints)
    PROVE  FoundGood(BossOfOld(dp, e, eager, hints), e)
<1> DEFINE kept == AcceptedBoss(dp, hints[e], e)
           found == IF eager THEN SearchAll(dp, e) ELSE None
           dropped == [hints EXCEPT ![e] = None]
<1>1. kept = None \/ Approves(kept, e)
  <2>1. hints[e] \in Seal
    BY DEF HintsGood
  <2> QED BY <2>1, AcceptedBossGood
<1>2. found = None \/ Approves(found, e)
  BY SearchAllGood
<1>3. HintsGood(dropped)
  BY SetHint
<1>4. BossOfOld(dp, e, eager, hints) =
        IF kept # None THEN Found(kept, hints)
        ELSE IF found # None THEN Found(found, Repaired(e, found, dropped))
        ELSE Found(None, dropped)
  BY DEF BossOfOld
<1> HIDE DEF kept, found, dropped
<1>5. HintsGood(Repaired(e, found, dropped))
  BY <1>2, <1>3, RepairedGood
<1>6. /\ FoundGood(Found(kept, hints), e)
      /\ FoundGood(Found(found, Repaired(e, found, dropped)), e)
      /\ FoundGood(Found(None, dropped), e)
  BY <1>1, <1>2, <1>3, <1>5, FoundIs
<1> QED BY <1>4, <1>6

------------------------------------------------------------------------------
(* The climb along the delegators *)

ClaimKind == {"open", "accept", "reject", "pdes"}
ClaimType == [kind : ClaimKind, dp : Pre, c : Event, cb : Event, o : Event, ob : Event,
              aess : [Event -> Seal]]

(* A claim compares two events of one delegator.                           *)
ClaimGood(x) ==
    /\ x \in ClaimType /\ HintsGood(x.aess)
    /\ Ev[x.cb].pre = x.dp /\ Ev[x.ob].pre = x.dp

LEMMA SettledGood ==
    ASSUME NEW x, ClaimGood(x), NEW kind \in ClaimKind, NEW hints, HintsGood(hints)
    PROVE  ClaimGood([x EXCEPT !.kind = kind, !.aess = hints])
<1>1. hints \in [Event -> Seal]
  BY DEF HintsGood
<1> QED BY <1>1 DEF ClaimGood, ClaimType

LEMMA KindGood ==
    ASSUME NEW x, ClaimGood(x), NEW kind \in ClaimKind
    PROVE  ClaimGood([x EXCEPT !.kind = kind])
BY DEF ClaimGood, ClaimType

LEMMA ClimbGood ==
    ASSUME Typed, LogsAgree, NEW x, ClaimGood(x), NEW eager
    PROVE  ClaimGood(Climb(x, eager))
<1> DEFINE up == Delegator[x.dp]
           new == BossOfNew(up, x.cb, None, eager, x.aess)
           old == BossOfOld(up, x.ob, eager, new.aess)
<1>1. x.dp \in Pre /\ x.cb \in Event /\ x.ob \in Event /\ x.c \in Event /\ x.o \in Event
      /\ x.aess \in [Event -> Seal]
  BY DEF ClaimGood, ClaimType
<1>2. up \in Pre \cup {None} /\ up = Delegator[Ev[x.cb].pre] /\ up = Delegator[Ev[x.ob].pre]
  BY <1>1, DelegationAssumption DEF ClaimGood
<1>3. None \in Seal /\ HintsGood(x.aess)
  BY DEF Seal, ClaimGood
<1>4. CASE x.kind # "open" \/ Outranks(x.c, x.cb, x.o, x.ob) \/ x.cb = x.ob \/ up = None
  <2>1. Climb(x, eager) \in {x, [x EXCEPT !.kind = "accept"], [x EXCEPT !.kind = "reject"]}
    BY <1>4 DEF Climb
  <2>2. ClaimGood([x EXCEPT !.kind = "accept"]) /\ ClaimGood([x EXCEPT !.kind = "reject"])
    BY KindGood DEF ClaimKind
  <2> QED BY <2>1, <2>2
<1>5. CASE up # None /\ x.kind = "open" /\ ~Outranks(x.c, x.cb, x.o, x.ob) /\ x.cb # x.ob
  <2>1. Climb(x, eager) = IF new.boss = None THEN [x EXCEPT !.kind = "pdes", !.aess = new.aess]
                          ELSE IF old.boss = None THEN [x EXCEPT !.kind = "pdes", !.aess = old.aess]
                          ELSE Claim("open", up, x.cb, new.boss, x.ob, old.boss, old.aess)
    BY <1>5 DEF Climb
  <2>2. up \in Pre
    BY <1>2, <1>5
  <2> HIDE DEF up
  <2>3. FoundGood(new, x.cb)
    BY <1>1, <1>2, <1>3, <2>2, BossOfNewGood
  <2>4. HintsGood(new.aess) /\ (new.boss # None => Approves(new.boss, x.cb))
    BY <2>3 DEF FoundGood
  <2> HIDE DEF new
  <2>5. FoundGood(old, x.ob)
    BY <1>1, <1>2, <2>2, <2>4, BossOfOldGood
  <2>6. HintsGood(old.aess) /\ (old.boss # None => Approves(old.boss, x.ob))
    BY <2>5 DEF FoundGood
  <2> HIDE DEF old
  <2>7. CASE new.boss = None
    <3>1. "pdes" \in ClaimKind
      BY DEF ClaimKind
    <3>2. ClaimGood([x EXCEPT !.kind = "pdes", !.aess = new.aess])
      BY <2>4, <3>1, SettledGood
    <3> QED BY <2>1, <2>7, <3>2
  <2>8. CASE new.boss # None /\ old.boss = None
    <3>1. "pdes" \in ClaimKind
      BY DEF ClaimKind
    <3>2. ClaimGood([x EXCEPT !.kind = "pdes", !.aess = old.aess])
      BY <2>6, <3>1, SettledGood
    <3> QED BY <2>1, <2>8, <3>2
  <2>9. CASE new.boss # None /\ old.boss # None
    <3>1. new.boss \in Event /\ Ev[new.boss].pre = up /\ old.boss \in Event
          /\ Ev[old.boss].pre = up
      BY <1>1, <1>2, <2>4, <2>6, <2>9 DEF Approves, Bosses
    <3>2. ClaimGood(Claim("open", up, x.cb, new.boss, x.ob, old.boss, old.aess))
      <4>1. old.aess \in [Event -> Seal]
        BY <2>6 DEF HintsGood
      <4>2. Claim("open", up, x.cb, new.boss, x.ob, old.boss, old.aess) \in ClaimType
        BY <1>1, <2>2, <3>1, <4>1 DEF Claim, ClaimType, ClaimKind
      <4> QED BY <2>6, <3>1, <4>2 DEF ClaimGood, Claim
    <3> QED BY <2>1, <2>9, <3>2
  <2> QED BY <2>7, <2>8, <2>9
<1>6. x.kind \in ClaimKind
  BY DEF ClaimGood, ClaimType
<1> QED BY <1>4, <1>5

(* The claim after each level, and that it is what Supersedes climbs.      *)
Climbing(f, claim, eager, n) ==
    f = [i \in 0..n |-> IF i = 0 THEN claim ELSE Climb(f[i - 1], eager)]

Levels(f, claim, eager, n) ==
    \A i \in 0..n : f[i] = IF i = 0 THEN claim ELSE Climb(f[i - 1], eager)

LEMMA LevelsExist ==
    ASSUME NEW claim, NEW eager, NEW n \in Nat
    PROVE  \E f : Climbing(f, claim, eager, n)
<1> DEFINE Bad == {k \in 0..n : ~ \E f : DOMAIN f = 0..k /\ f = [i \in 0..k |-> f[i]]
                                        /\ Levels(f, claim, eager, k)}
<1>0. Bad \in SUBSET Nat
  OBVIOUS
<1>1. Bad = {}
  <2> SUFFICES ASSUME Bad # {} PROVE FALSE
    OBVIOUS
  <2>1. PICK m \in Bad : \A y \in Bad : m <= y
    <3> HIDE DEF Bad
    <3> QED BY <1>0, Least
  <2>2. CASE m = 0
    <3> DEFINE f == [i \in 0..0 |-> claim]
    <3>1. DOMAIN f = 0..m /\ f = [i \in 0..m |-> f[i]] /\ Levels(f, claim, eager, m)
      BY <2>2 DEF Levels
    <3> QED BY <2>1, <3>1
  <2>3. CASE m # 0
    <3>1. m \in 1..n /\ m - 1 \in 0..n /\ m - 1 \notin Bad
      BY <2>1, <2>3
    <3>2. PICK g : DOMAIN g = 0..(m - 1) /\ g = [i \in 0..(m - 1) |-> g[i]]
                   /\ Levels(g, claim, eager, m - 1)
      BY <3>1
    <3> DEFINE next == Climb(g[m - 1], eager)
               f == [i \in 0..m |-> IF i < m THEN g[i] ELSE next]
    <3> HIDE DEF next
    <3>3. DOMAIN f = 0..m /\ f = [i \in 0..m |-> f[i]]
      OBVIOUS
    <3>4. Levels(f, claim, eager, m)
      <4> SUFFICES ASSUME NEW i \in 0..m
                   PROVE  f[i] = IF i = 0 THEN claim ELSE Climb(f[i - 1], eager)
        BY DEF Levels
      <4>1. CASE i < m
        <5>1. i \in 0..(m - 1) /\ f[i] = g[i] /\ (i # 0 => f[i - 1] = g[i - 1])
          BY <3>1, <4>1
        <5> QED BY <3>2, <5>1 DEF Levels
      <4>2. CASE i = m
        <5>1. f[m] = next /\ f[m - 1] = g[m - 1]
          BY <3>1
        <5> QED BY <2>3, <4>2, <5>1 DEF next
      <4> QED BY <3>1, <4>1, <4>2
    <3> QED BY <2>1, <3>3, <3>4
  <2> QED BY <2>2, <2>3
<1>2. n \in 0..n /\ n \notin Bad
  BY <1>1
<1>3. PICK f : f = [i \in 0..n |-> f[i]] /\ Levels(f, claim, eager, n)
  BY <1>2
<1>4. [i \in 0..n |-> f[i]]
      = [i \in 0..n |-> IF i = 0 THEN claim ELSE Climb(f[i - 1], eager)]
  BY <1>3 DEF Levels
<1>5. Climbing(f, claim, eager, n)
  BY <1>3, <1>4 DEF Climbing
<1> QED BY <1>5

LevelsOf(claim, eager, n) == CHOOSE f : Climbing(f, claim, eager, n)

LEMMA LevelsAre ==
    ASSUME NEW claim, NEW eager, NEW n \in Nat
    PROVE  LevelsOf(claim, eager, n) =
              [i \in 0..n |-> IF i = 0 THEN claim
                              ELSE Climb(LevelsOf(claim, eager, n)[i - 1], eager)]
<1>1. Climbing(LevelsOf(claim, eager, n), claim, eager, n)
  BY LevelsExist DEF LevelsOf
<1> QED BY <1>1 DEF Climbing

LEMMA SupersedesGood ==
    ASSUME Typed, LogsAgree, NEW claim, ClaimGood(claim), NEW eager
    PROVE  ClaimGood(Supersedes(claim, eager))
<1> DEFINE n == Cardinality(Pre)
           after == LevelsOf(claim, eager, n)
<1>1. Supersedes(claim, eager) = after[n]
  BY DEF Supersedes, LevelsOf, Climbing
<1>2. n \in Nat
  BY DelegationAssumption, FS_CardinalityType
<1> HIDE DEF n
<1>3. after = [i \in 0..n |-> IF i = 0 THEN claim ELSE Climb(after[i - 1], eager)]
  BY <1>2, LevelsAre
<1> HIDE DEF after
<1> DEFINE Off == {i \in 0..n : ~ClaimGood(after[i])}
<1>4. Off = {}
  <2> SUFFICES ASSUME Off # {} PROVE FALSE
    OBVIOUS
  <2>0. Off \in SUBSET Nat
    OBVIOUS
  <2>1. PICK m \in Off : \A y \in Off : m <= y
    <3> HIDE DEF Off
    <3> QED BY <2>0, Least
  <2>2. m # 0
    BY <1>3, <2>1
  <2>3. m - 1 \in 0..n /\ m - 1 \notin Off
    BY <1>2, <2>1, <2>2
  <2>4. after[m] = Climb(after[m - 1], eager)
    BY <1>3, <2>1, <2>2
  <2> QED BY <2>1, <2>3, <2>4, ClimbGood
<1>5. n \in 0..n
  BY <1>2
<1> QED BY <1>1, <1>4, <1>5

------------------------------------------------------------------------------
(* Decisions *)

(* No step is taken on a claim that is still open, which only delegators   *)
(* that go in a circle leave.                                              *)
DecisionKind == {"accept", "duplicate", "reject", "open"} \cup EscrowKind

(* A decision keeps only approvals, and accepts an establishment event of  *)
(* another node's delegate only with one.                                  *)
DecisionGood(d, e, seal) ==
    /\ d.kind \in DecisionKind
    /\ d.seal \in {seal, None} \/ Approves(d.seal, e)
    /\ HintsGood(d.aess)
    /\ d.kind = "accept" /\ Ev[e].pre \notin own /\ Delegated(Ev[e].pre) /\ Establishes(e)
         => Approves(d.seal, e)
    /\ d.kind = "duplicate" => d.seal = None \/ Approves(d.seal, e)
    /\ d.kind = "delegables" => Delegated(Ev[e].pre)
    /\ d.kind = "accept" => state[Ev[e].pre] # NoState \/ Incepts(e)

(* An event whose inception or rotation is delegated exactly when its      *)
(* identifier is, and whose log has begun unless it begins it.             *)
Fits(e) ==
    /\ Establishes(e) => (Ev[e].ilk \in {"dip", "drt"} <=> Delegated(Ev[e].pre))
    /\ state[Ev[e].pre] # NoState \/ Incepts(e)

(* What a decision other than an accepted approval is.                     *)
LEMMA PlainDecision ==
    ASSUME NEW e, NEW seal, NEW hints, HintsGood(hints),
           NEW kind \in {"reject", "open", "pdes", "misfit", "ooo", "ldes"},
           NEW s \in {seal, None}, NEW d \in Decision(kind, s, hints)
    PROVE  DecisionGood(d, e, seal)
<1>1. d.kind = kind /\ d.seal = s /\ d.aess = hints
  BY DEF Decision
<1>2. kind \notin {"accept", "duplicate", "delegables"} /\ kind \in DecisionKind
  BY DEF DecisionKind, EscrowKind
<1> QED BY <1>1, <1>2 DEF DecisionGood

LEMMA ApprovedDecision ==
    ASSUME NEW e \in Event, Fits(e), NEW seal, NEW hints, HintsGood(hints),
           NEW b, Approves(b, e), NEW d \in Decision("accept", b, hints)
    PROVE  DecisionGood(d, e, seal)
<1>1. d.kind = "accept" /\ d.seal = b /\ d.aess = hints
  BY DEF Decision
<1>2. "accept" \in DecisionKind
  BY DEF DecisionKind
<1> QED BY <1>1, <1>2 DEF DecisionGood, Fits

LEMMA RecoveredGood ==
    ASSUME Typed, LogsAgree, NEW e \in Event, Fits(e), NEW p \in Pre, p = Ev[e].pre,
           Delegator[p] \in Pre, state[p] # NoState, NEW seal \in Seal, NEW new,
           FoundGood(new, e), new.boss # None, NEW eager, NEW old,
           FoundGood(old, state[p].est), NEW d \in Recovered(p, e, seal, new, old, eager)
    PROVE  DecisionGood(d, e, seal)
<1>0. HintsGood(new.aess) /\ Approves(new.boss, e) /\ HintsGood(old.aess)
  BY DEF FoundGood
<1>1. CASE old.boss = None
  <2>1. d \in Decision("pdes", seal, old.aess)
    BY <1>1 DEF Recovered
  <2> QED BY <1>0, <2>1, PlainDecision
<1>2. CASE old.boss # None
  <2> DEFINE first == Claim("open", Delegator[p], e, new.boss, state[p].est, old.boss, old.aess)
  <2>1. PICK claim \in {Supersedes(first, eager)} :
            d \in Decision(claim.kind, IF claim.kind = "accept" THEN new.boss ELSE seal, claim.aess)
    BY <1>2 DEF Recovered
  <2>2. state[p].est \in Event /\ Ev[state[p].est].pre = p
    <3>1. state[p].est \in ToSet(fels[p]) /\ fels[p] \in Seq(Event)
      BY DEF LogsAgree, Typed
    <3>2. state[p].est \in Event
      BY <3>1 DEF ToSet
    <3> QED BY <3>1, <3>2 DEF LogsAgree
  <2>3. Approves(old.boss, state[p].est)
    BY <1>2 DEF FoundGood
  <2>4. /\ new.boss \in Event /\ Ev[new.boss].pre = Delegator[p]
        /\ old.boss \in Event /\ Ev[old.boss].pre = Delegator[p]
    BY <1>0, <2>2, <2>3 DEF Approves, Bosses
  <2>5. ClaimGood(first)
    <3>1. old.aess \in [Event -> Seal]
      BY <1>0 DEF HintsGood
    <3>2. first \in ClaimType
      BY <2>2, <2>4, <3>1 DEF Claim, ClaimType, ClaimKind
    <3> QED BY <1>0, <2>4, <3>2 DEF ClaimGood, Claim
  <2> HIDE DEF first
  <2>6. ClaimGood(claim)
    BY <2>1, <2>5, SupersedesGood
  <2>7. HintsGood(claim.aess) /\ claim.kind \in ClaimKind
    BY <2>6 DEF ClaimGood, ClaimType
  <2>8. CASE claim.kind = "accept"
    <3>1. d \in Decision("accept", new.boss, claim.aess)
      BY <2>1, <2>8
    <3> QED BY <1>0, <2>7, <3>1, ApprovedDecision
  <2>9. CASE claim.kind \in {"reject", "pdes", "open"}
    <3>1. d \in Decision(claim.kind, seal, claim.aess)
      BY <2>1, <2>9
    <3> QED BY <2>7, <2>9, <3>1, PlainDecision
  <2> QED BY <2>7, <2>8, <2>9 DEF ClaimKind
<1> QED BY <1>1, <1>2

LEMMA ApprovedByGood ==
    ASSUME Typed, LogsAgree, NEW e \in Event, Fits(e), Ev[e].ilk \in {"dip", "drt"},
           NEW p \in Pre, p = Ev[e].pre, Delegator[p] \in Pre, NEW seal \in Seal,
           NEW new, FoundGood(new, e), NEW eager, NEW d \in ApprovedBy(p, e, seal, new, eager)
    PROVE  DecisionGood(d, e, seal)
<1>0. HintsGood(new.aess) /\ (new.boss # None => Approves(new.boss, e))
  BY DEF FoundGood
<1>1. CASE new.boss = None
  <2>1. d \in Decision("pdes", seal, new.aess)
    BY <1>1 DEF ApprovedBy
  <2> QED BY <1>0, <2>1, PlainDecision
<1>2. CASE new.boss # None /\ InTurn(e)
  <2>1. d \in Decision("accept", new.boss, new.aess)
    BY <1>2 DEF ApprovedBy
  <2> QED BY <1>0, <1>2, <2>1, ApprovedDecision
<1>3. CASE new.boss # None /\ ~InTurn(e) /\ Ev[state[p].est].sn # Ev[e].sn
  <2>1. d \in Decision("reject", None, new.aess)
    BY <1>3 DEF ApprovedBy
  <2> QED BY <1>0, <2>1, PlainDecision
<1>4. CASE new.boss # None /\ ~InTurn(e) /\ Ev[state[p].est].sn = Ev[e].sn
  <2>1. state[p] # NoState
    <3>1. Ev[e].ilk = "drt"
      BY <1>4 DEF InTurn
    <3> QED BY <3>1 DEF Fits, Incepts
  <2>2. state[p].est \in Event /\ Ev[state[p].est].pre = p
    <3>1. state[p].est \in ToSet(fels[p]) /\ fels[p] \in Seq(Event)
      BY <2>1 DEF LogsAgree, Typed
    <3>2. state[p].est \in Event
      BY <3>1 DEF ToSet
    <3> QED BY <3>1, <3>2 DEF LogsAgree
  <2>3. PICK old \in {BossOfOld(Delegator[p], state[p].est, eager, new.aess)} :
            d \in Recovered(p, e, seal, new, old, eager)
    BY <1>4 DEF ApprovedBy
  <2>4. FoundGood(old, state[p].est)
    <3>1. old = BossOfOld(Delegator[p], state[p].est, eager, new.aess)
      BY <2>3
    <3> QED BY <1>0, <2>2, <3>1, BossOfOldGood
  <2> QED BY <1>4, <2>1, <2>3, <2>4, RecoveredGood
<1> QED BY <1>1, <1>2, <1>3, <1>4

LEMMA AttachedGood ==
    ASSUME Typed, LogsAgree, NEW e \in Event, Fits(e), NEW p \in Pre, p = Ev[e].pre,
           NEW seal \in Seal, NEW local, NEW eager, NEW hints, HintsGood(hints),
           NEW d \in Attached(p, e, seal, local, eager, hints)
    PROVE  DecisionGood(d, e, seal)
<1>1. CASE p \in own /\ ~local
  <2>1. d \in Decision("misfit", seal, hints)
    BY <1>1 DEF Attached
  <2> QED BY <2>1, PlainDecision
<1>2. CASE ~(p \in own /\ ~local) /\ Ev[e].ilk \notin {"dip", "drt"}
  <2>1. d \in Decision("accept", seal, hints)
    BY <1>2 DEF Attached
  <2>2. d.kind = "accept" /\ d.seal = seal /\ d.aess = hints /\ "accept" \in DecisionKind
    BY <2>1 DEF Decision, DecisionKind
  <2>3. ~(Delegated(Ev[e].pre) /\ Establishes(e))
    BY <1>2 DEF Fits
  <2> QED BY <2>2, <2>3 DEF DecisionGood, Fits
<1>3. CASE ~(p \in own /\ ~local) /\ Ev[e].ilk \in {"dip", "drt"}
  <2>1. Delegated(p) /\ Delegator[p] \in Pre
    BY <1>3, EventFacts DEF Fits, Establishes, Delegated
  <2>2. CASE Delegator[p] \in own /\ p \notin own /\ AcceptedBoss(Delegator[p], seal, e) = None
    <3>1. d \in Decision("delegables", seal, hints)
      BY <1>3, <2>2 DEF Attached
    <3>2. d.kind = "delegables" /\ d.seal = seal /\ d.aess = hints /\ "delegables" \in DecisionKind
      BY <3>1 DEF Decision, DecisionKind, EscrowKind
    <3> QED BY <2>1, <3>2 DEF DecisionGood
  <2>3. CASE ~(Delegator[p] \in own /\ p \notin own /\ AcceptedBoss(Delegator[p], seal, e) = None)
    <3>1. CASE p \in own
      <4>1. d \in Decision("accept", seal, hints)
        BY <1>3, <2>3, <3>1 DEF Attached
      <4>2. d.kind = "accept" /\ d.seal = seal /\ d.aess = hints /\ "accept" \in DecisionKind
        BY <4>1 DEF Decision, DecisionKind
      <4> QED BY <3>1, <4>2 DEF DecisionGood, Fits
    <3>2. CASE p \notin own /\ state[Delegator[p]] = NoState
      <4>1. d \in Decision("pdes", seal, hints)
        BY <1>3, <2>3, <3>2 DEF Attached
      <4> QED BY <4>1, PlainDecision
    <3>3. CASE p \notin own /\ state[Delegator[p]] # NoState /\ Delegator[p] \in Dnd
      <4>1. d \in Decision("reject", None, hints)
        BY <1>3, <2>3, <3>3 DEF Attached
      <4> QED BY <4>1, PlainDecision
    <3>4. CASE p \notin own /\ state[Delegator[p]] # NoState /\ Delegator[p] \notin Dnd
      <4>1. PICK new \in {BossOfNew(Delegator[p], e, seal, eager, hints)} :
               d \in ApprovedBy(p, e, seal, new, eager)
        BY <1>3, <2>3, <3>4 DEF Attached
      <4>2. FoundGood(new, e)
        <5>1. new = BossOfNew(Delegator[p], e, seal, eager, hints)
          BY <4>1
        <5> QED BY <2>1, <5>1, BossOfNewGood
      <4> QED BY <1>3, <2>1, <4>1, <4>2, ApprovedByGood
    <3> QED BY <3>1, <3>2, <3>3, <3>4
  <2> QED BY <2>2, <2>3
<1> QED BY <1>1, <1>2, <1>3

LEMMA DuplicateGood ==
    ASSUME Typed, LogsAgree, NEW e \in Event, NEW p \in Pre, p = Ev[e].pre,
           NEW seal \in Seal, NEW hints, HintsGood(hints), NEW d \in Duplicate(p, e, seal, hints)
    PROVE  DecisionGood(d, e, seal)
<1>1. d.kind = "duplicate" /\ d.aess = hints
  BY DEF Duplicate, Decision
<1>2. d.seal = None \/ (d.seal = seal /\ seal # None /\ FirstAlong(Delegator[p], e) = seal)
  BY DEF Duplicate, Decision
<1>3. Delegator[p] \in Pre \cup {None}
  BY DelegationAssumption
<1>4. d.seal = None \/ Approves(d.seal, e)
  BY <1>2, <1>3, FirstAlongGood
<1>5. "duplicate" \in DecisionKind
  BY DEF DecisionKind
<1> QED BY <1>1, <1>4, <1>5 DEF DecisionGood

(***************************************************************************)
(* Whatever is decided of an event, with whatever seals kept and however   *)
(* eagerly, rests on approvals.                                            *)
(***************************************************************************)
LEMMA Decides ==
    ASSUME Typed, LogsAgree, NEW e \in Event, NEW seal \in Seal, NEW local, NEW eager,
           NEW hints, HintsGood(hints), NEW d \in Decide(e, seal, local, eager, hints)
    PROVE  DecisionGood(d, e, seal)
<1> DEFINE p == Ev[e].pre
           head == state[p].said
<1>0. p \in Pre
  BY EventFacts
<1>1. Incepts(e) => Fits(e)
  BY InceptionAssumption DEF Fits, Incepts, Establishes, Delegated
<1>2. CASE state[p] = NoState
  <2>1. CASE Incepts(e)
    <3>1. CASE Ev[e].sn = 0
      <4>1. d \in Attached(p, e, seal, local, eager, hints)
        BY <1>2, <2>1, <3>1 DEF Decide
      <4> QED BY <1>0, <1>1, <2>1, <4>1, AttachedGood
    <3>2. CASE Ev[e].sn # 0
      <4>1. d \in Decision("reject", None, hints)
        BY <1>2, <2>1, <3>2 DEF Decide
      <4> QED BY <4>1, PlainDecision
    <3> QED BY <3>1, <3>2
  <2>2. CASE ~Incepts(e)
    <3>1. d \in Decision("ooo", seal, hints)
      BY <1>2, <2>2 DEF Decide
    <3> QED BY <3>1, PlainDecision
  <2> QED BY <2>1, <2>2
<1>3. CASE state[p] # NoState /\ Again(p, e, head)
  <2>1. d \in Duplicate(p, e, seal, hints)
    BY <1>3 DEF Decide
  <2> QED BY <1>0, <2>1, DuplicateGood
<1>4. CASE state[p] # NoState /\ ~Again(p, e, head) /\ Incepts(e)
  <2>1. d \in Decision("ldes", seal, hints)
    BY <1>4 DEF Decide
  <2> QED BY <2>1, PlainDecision
<1>5. CASE state[p] # NoState /\ ~Again(p, e, head) /\ ~Incepts(e) /\ Ev[e].sn > Ev[head].sn + 1
  <2>1. d \in Decision("ooo", seal, hints)
    BY <1>5 DEF Decide
  <2> QED BY <2>1, PlainDecision
<1>6. CASE /\ state[p] # NoState /\ ~Again(p, e, head) /\ ~Incepts(e)
           /\ ~(Ev[e].sn > Ev[head].sn + 1)
  <2>1. CASE Unfit(p, e, head, Ev[e].sn)
    <3>1. d \in Decision("reject", None, hints)
      BY <1>6, <2>1 DEF Decide
    <3> QED BY <3>1, PlainDecision
  <2>2. CASE ~Unfit(p, e, head, Ev[e].sn)
    <3>1. d \in Attached(p, e, seal, local, eager, hints)
      BY <1>6, <2>2 DEF Decide
    <3>2. Fits(e)
      <4>1. Rotates(e) => ((Ev[e].ilk = "drt") <=> Delegated(p))
        BY <2>2 DEF Unfit
      <4>2. Establishes(e) => Rotates(e)
        BY <1>6 DEF Establishes, Rotates, Incepts
      <4>3. Establishes(e) => (Ev[e].ilk \in {"dip", "drt"} <=> Ev[e].ilk = "drt")
        BY <1>6 DEF Incepts
      <4> QED BY <1>6, <4>1, <4>2, <4>3 DEF Fits
    <3> QED BY <1>0, <3>1, <3>2, AttachedGood
  <2> QED BY <2>1, <2>2
<1> QED BY <1>2, <1>3, <1>4, <1>5, <1>6

------------------------------------------------------------------------------
(* What a decision writes *)

LEMMA Appended ==
    ASSUME NEW s \in Seq(Event), NEW e \in Event
    PROVE  Append(s, e) \in Seq(Event) /\ ToSet(Append(s, e)) = ToSet(s) \cup {e}
<1>1. Append(s, e) \in Seq(Event) /\ Len(Append(s, e)) = Len(s) + 1 /\ Len(s) \in Nat
      /\ Append(s, e)[Len(s) + 1] = e /\ \A i \in 1..Len(s) : Append(s, e)[i] = s[i]
  OBVIOUS
<1>2. DOMAIN s = 1..Len(s) /\ DOMAIN Append(s, e) = 1..(Len(s) + 1)
  BY <1>1
<1>3. ToSet(s) \subseteq ToSet(Append(s, e)) /\ e \in ToSet(Append(s, e))
  <2>1. \A i \in 1..Len(s) : i \in 1..(Len(s) + 1)
    BY <1>1
  <2>2. Len(s) + 1 \in 1..(Len(s) + 1)
    BY <1>1
  <2> QED BY <1>1, <1>2, <2>1, <2>2 DEF ToSet
<1>4. ToSet(Append(s, e)) \subseteq ToSet(s) \cup {e}
  <2>1. \A i \in 1..(Len(s) + 1) : i \in 1..Len(s) \/ i = Len(s) + 1
    BY <1>1
  <2> QED BY <1>1, <1>2, <2>1 DEF ToSet
<1> QED BY <1>1, <1>3, <1>4

LEMMA AddedOnce ==
    ASSUME NEW s \in Seq(Event), NEW e \in Event
    PROVE  AddOnce(s, e) \in Seq(Event) /\ ToSet(AddOnce(s, e)) = ToSet(s) \cup {e}
<1>1. CASE e \in ToSet(s)
  BY <1>1 DEF AddOnce
<1>2. CASE e \notin ToSet(s)
  BY <1>2, Appended DEF AddOnce
<1> QED BY <1>1, <1>2

Grows == \A p \in Pre : ToSet(fels[p]) \subseteq ToSet(fels'[p])

(* An approval stays one: accepted events stay in their log.               *)
LEMMA ApprovalStays ==
    ASSUME Grows PROVE \A b, e \in Event : Approves(b, e) => Approves(b, e)'
BY EventFacts DEF Grows, Approves, Accepted, Bosses

LEMMA HintsStay ==
    ASSUME Grows, HintsGood(aess), aess' = aess PROVE HintsGood(aess)'
<1>1. \A e \in Event : aess[e] # None => aess[e] \in Event
  BY DEF HintsGood, Seal
<1> QED BY <1>1, ApprovalStays DEF HintsGood, Seal

(* The seals kept after an event is accepted or comes again.               *)
LEMMA KeptGood ==
    ASSUME NEW e \in Event, NEW hints, HintsGood(hints),
           NEW seal, seal = None \/ Ev[e].ilk = "ixn" \/ ~Delegated(Ev[e].pre) \/ Approves(seal, e)
    PROVE  HintsGood(Kept(e, seal, hints))
BY SetHint DEF Kept

LEMMA AcceptKeepsLogs ==
    ASSUME LogsInv, own' = own, NEW e \in Event, NEW local, NEW seal,
           Ev[e].pre \in own /\ seal # None => Approves(seal, e),
           NEW d, DecisionGood(d, e, seal), d.kind = "accept", Accept(e, local, d)
    PROVE  LogsInv'
<1> DEFINE p == Ev[e].pre
           n == Ev[e].sn
<1> USE DEF LogsInv
<1>1. p \in Pre /\ n \in 0..MaxSn /\ Ev[e].ilk \in {"icp", "dip", "rot", "drt", "ixn"}
  BY EventFacts
<1>2. /\ kels \in [Pre -> [0..MaxSn -> Seq(Event)]] /\ fels \in [Pre -> Seq(Event)]
      /\ state \in [Pre -> [said : Seal, est : Seal]] /\ udes \in [Event -> Seal]
  BY DEF Typed
<1>3. /\ kels' = [kels EXCEPT ![p][n] = AddOnce(kels[p][n], e)]
      /\ fels' = [fels EXCEPT ![p] = Append(fels[p], e)]
      /\ state' = [state EXCEPT ![p] =
                      [said |-> e, est |-> IF Establishes(e) THEN e ELSE state[p].est]]
      /\ udes' = [udes EXCEPT ![e] = None]
      /\ aess' = NewlyAnchored(e, state', Kept(e, d.seal, d.aess))
  BY <1>1, <1>2 DEF Accept
<1>4. kels[p][n] \in Seq(Event) /\ fels[p] \in Seq(Event)
  BY <1>1, <1>2
<1>5. /\ AddOnce(kels[p][n], e) \in Seq(Event) /\ Append(fels[p], e) \in Seq(Event)
      /\ ToSet(AddOnce(kels[p][n], e)) = ToSet(kels[p][n]) \cup {e}
      /\ ToSet(Append(fels[p], e)) = ToSet(fels[p]) \cup {e}
  BY <1>4, Appended, AddedOnce
<1>6. \A q \in Pre : ToSet(fels'[q]) = IF q = p THEN ToSet(fels[p]) \cup {e} ELSE ToSet(fels[q])
  BY <1>1, <1>2, <1>3, <1>5
<1>7. Grows
  BY <1>6 DEF Grows
<1>8. \A q \in Pre, k \in 0..MaxSn :
         ToSet(kels'[q][k]) = IF q = p /\ k = n THEN ToSet(kels[p][n]) \cup {e}
                              ELSE ToSet(kels[q][k])
  BY <1>1, <1>2, <1>3, <1>5
<1>9. Typed'
  <2>1. kels' \in [Pre -> [0..MaxSn -> Seq(Event)]]
    BY <1>1, <1>2, <1>3, <1>5
  <2>2. fels' \in [Pre -> Seq(Event)]
    BY <1>1, <1>2, <1>3, <1>5
  <2>3. state' \in [Pre -> [said : Seal, est : Seal]]
    BY <1>1, <1>2, <1>3 DEF Seal
  <2>4. udes' \in [Event -> Seal]
    BY <1>2, <1>3 DEF Seal
  <2> QED BY <2>1, <2>2, <2>3, <2>4 DEF Typed
<1>10. LogsAgree'
  <2> SUFFICES ASSUME NEW q \in Pre
               PROVE  /\ \A x \in ToSet(fels'[q]) : Ev[x].pre = q
                      /\ \A k \in 0..MaxSn : ToSet(kels'[q][k]) \subseteq ToSet(fels'[q])
                      /\ state'[q] = NoState \/ {state'[q].said, state'[q].est} \subseteq ToSet(fels'[q])
    BY DEF LogsAgree
  <2>1. /\ \A x \in ToSet(fels[q]) : Ev[x].pre = q
        /\ \A k \in 0..MaxSn : ToSet(kels[q][k]) \subseteq ToSet(fels[q])
        /\ state[q] = NoState \/ {state[q].said, state[q].est} \subseteq ToSet(fels[q])
    BY DEF LogsAgree
  <2>2. \A x \in ToSet(fels'[q]) : Ev[x].pre = q
    BY <1>6, <2>1
  <2>3. \A k \in 0..MaxSn : ToSet(kels'[q][k]) \subseteq ToSet(fels'[q])
    BY <1>6, <1>8, <2>1
  <2>4. CASE q # p
    <3>1. state'[q] = state[q]
      BY <1>2, <1>3, <2>4
    <3> QED BY <1>6, <2>1, <2>2, <2>3, <2>4, <3>1
  <2>5. CASE q = p
    <3>1. state'[p].said = e /\ state'[p].est = IF Establishes(e) THEN e ELSE state[p].est
      BY <1>1, <1>2, <1>3
    <3>2. ~Establishes(e) => state[p] # NoState
      BY DEF DecisionGood, Establishes, Incepts
    <3>3. {state'[p].said, state'[p].est} \subseteq ToSet(fels'[p])
      BY <1>1, <1>6, <2>1, <2>5, <3>1, <3>2
    <3> QED BY <2>2, <2>3, <2>5, <3>3
  <2> QED BY <2>4, <2>5
<1>11. d.seal = None \/ Ev[e].ilk = "ixn" \/ ~Delegated(p) \/ Approves(d.seal, e)
  <2>1. CASE p \in own
    BY <2>1 DEF DecisionGood
  <2>2. CASE p \notin own
    BY <1>1, <2>2 DEF DecisionGood, Establishes
  <2> QED BY <2>1, <2>2
<1>12. HintsGood(aess)'
  <2>1. PICK hints : hints = Kept(e, d.seal, d.aess)
    OBVIOUS
  <2>2. HintsGood(hints)
    <3>1. HintsGood(d.aess)
      BY DEF DecisionGood
    <3> QED BY <1>11, <2>1, <3>1, KeptGood
  <2>3. aess' = [x \in Event |->
                   IF /\ Anchors(e, x) /\ x \in evts /\ hints[x] = None
                      /\ state'[Ev[x].pre] # NoState /\ Delegator[Ev[x].pre] = Ev[e].pre
                   THEN e ELSE hints[x]]
    BY <1>3, <2>1 DEF NewlyAnchored
  <2>4. Accepted(e)'
    BY <1>1, <1>6 DEF Accepted
  <2>5. hints \in [Event -> Seal] /\ \A x \in Event : hints[x] # None => Approves(hints[x], x)
    BY <2>2 DEF HintsGood
  <2>6. ASSUME NEW x \in Event, aess'[x] # None
        PROVE  Approves(aess[x], x)'
    <3>1. CASE Anchors(e, x) /\ Delegator[Ev[x].pre] = Ev[e].pre /\ aess'[x] = e
      BY <2>4, <3>1 DEF Approves, Bosses
    <3>2. CASE aess'[x] = hints[x]
      <4>1. hints[x] \in Event /\ Approves(hints[x], x)
        BY <2>5, <2>6, <3>2 DEF Seal
      <4>2. PICK b \in Event : b = hints[x] /\ Approves(b, x)
        BY <4>1
      <4>3. Approves(b, x)'
        BY <1>7, <4>2, ApprovalStays
      <4> QED BY <3>2, <4>2, <4>3 DEF Approves, Accepted
    <3> QED BY <2>3, <3>1, <3>2
  <2>7. aess' \in [Event -> Seal]
    BY <2>3, <2>5 DEF Seal
  <2> QED BY <2>6, <2>7 DEF HintsGood
<1>13. OwnUnsealed'
  <2> SUFFICES ASSUME NEW x \in Event, Ev[x].pre \in own, udes'[x] # None
               PROVE  Approves(udes[x], x)'
    BY DEF OwnUnsealed
  <2>1. udes'[x] = udes[x] /\ udes[x] \in Event
    BY <1>2, <1>3 DEF Seal
  <2>2. PICK b \in Event : b = udes[x] /\ Approves(b, x)
    BY <2>1 DEF OwnUnsealed
  <2>3. Approves(b, x)'
    BY <1>7, <2>2, ApprovalStays
  <2> QED BY <2>1, <2>2, <2>3 DEF Approves, Accepted
<1>14. DelegatedAnchored'
  <2> SUFFICES ASSUME NEW q \in Pre \ own, NEW x \in ToSet(fels'[q]), Delegated(q), Establishes(x)
               PROVE  \E b \in Bosses[x] : Accepted(b)'
    BY DEF DelegatedAnchored, Bosses, Delegated, Establishes, Accepted
  <2>1. \E b \in Bosses[x] : x \in Event /\ Accepted(b)
    <3>1. CASE x \in ToSet(fels[q])
      <4>1. fels[q] \in Seq(Event)
        BY <1>2
      <4>2. x \in Event
        BY <3>1, <4>1 DEF ToSet
      <4> QED BY <3>1, <4>2 DEF DelegatedAnchored
    <3>2. CASE x = e /\ q = p
      <4>1. Approves(d.seal, e)
        BY <3>2 DEF DecisionGood
      <4> QED BY <3>2, <4>1 DEF Approves
    <3> QED BY <1>6, <3>1, <3>2
  <2>2. PICK b \in Bosses[x] : x \in Event /\ Accepted(b)
    BY <2>1
  <2>3. b \in Event /\ Approves(b, x)
    BY <2>2 DEF Approves, Bosses
  <2>4. Approves(b, x)'
    BY <1>7, <2>2, <2>3, ApprovalStays
  <2> QED BY <2>2, <2>4 DEF Approves
<1> QED BY <1>9, <1>10, <1>12, <1>13, <1>14

(* What leaves the logs alone keeps approvals and sets seals to approvals. *)
LEMMA SameLogs ==
    ASSUME LogsInv, UNCHANGED <<kels, fels, state, own>>,
           NEW hints, HintsGood(hints), aess' = hints,
           \/ udes' = udes
           \/ \E e \in Event, seal \in Seal :
                 /\ Ev[e].pre \in own /\ seal # None => Approves(seal, e)
                 /\ udes' = [udes EXCEPT ![e] = seal]
    PROVE  LogsInv'
<1>1. \A b, x : Approves(b, x)' <=> Approves(b, x)
  BY DEF Approves, Accepted, Bosses
<1>2. HintsGood(aess)'
  <2>1. aess' \in [Event -> Seal] /\ \A x \in Event : aess'[x] # None => Approves(aess'[x], x)
    BY DEF HintsGood
  <2> QED BY <2>1 DEF HintsGood, Approves, Accepted, Bosses
<1>3. Typed'
  BY DEF LogsInv, Typed
<1>4. LogsAgree'
  BY DEF LogsInv, LogsAgree
<1>5. OwnUnsealed'
  <2> SUFFICES ASSUME NEW x \in Event, Ev[x].pre \in own, udes'[x] # None
               PROVE  Approves(udes[x], x)'
    BY DEF OwnUnsealed
  <2>1. udes \in [Event -> Seal]
    BY DEF LogsInv, Typed
  <2>2. Approves(udes'[x], x)
    <3>1. CASE udes'[x] = udes[x]
      BY <3>1 DEF LogsInv, OwnUnsealed
    <3>2. CASE udes'[x] # udes[x]
      BY <2>1, <3>2
    <3> QED BY <3>1, <3>2
  <2> QED BY <2>2 DEF Approves, Accepted, Bosses
<1>6. DelegatedAnchored'
  BY DEF LogsInv, DelegatedAnchored, Bosses, Delegated, Establishes, Accepted
<1> QED BY <1>2, <1>3, <1>4, <1>5, <1>6 DEF LogsInv

LEMMA LearnKeepsLogs ==
    ASSUME LogsInv, own' = own, NEW e \in Event, NEW local, NEW seal,
           NEW d, DecisionGood(d, e, seal), d.kind = "duplicate", Learn(e, local, d)
    PROVE  LogsInv'
<1>1. PICK hints : hints = Kept(e, d.seal, d.aess)
  OBVIOUS
<1>2. HintsGood(hints)
  <2>1. HintsGood(d.aess) /\ (d.seal = None \/ Approves(d.seal, e))
    BY DEF DecisionGood
  <2> QED BY <1>1, <2>1, KeptGood
<1>3. aess' = hints /\ udes' = udes /\ UNCHANGED <<kels, fels, state, own>>
  BY <1>1 DEF Learn
<1> QED BY <1>2, <1>3, SameLogs

LEMMA HoldKeepsLogs ==
    ASSUME LogsInv, own' = own, NEW e \in Event, NEW local, NEW seal \in Seal,
           Ev[e].pre \in own /\ seal # None => Approves(seal, e),
           NEW d, DecisionGood(d, e, seal), Hold(e, local, d)
    PROVE  LogsInv'
<1>1. PICK hints : hints = d.aess
  OBVIOUS
<1>2. PICK s : s = d.seal
  OBVIOUS
<1>3. HintsGood(hints)
  BY <1>1 DEF DecisionGood
<1>4. s \in Seal /\ (Ev[e].pre \in own /\ s # None => Approves(s, e))
  <2>1. s \in {seal, None} \/ Approves(s, e)
    BY <1>2 DEF DecisionGood
  <2> QED BY <2>1 DEF Seal, Approves, Bosses
<1>5. /\ aess' = hints /\ UNCHANGED <<kels, fels, state, own>>
      /\ udes' \in {udes, [udes EXCEPT ![e] = s]}
  BY <1>1, <1>2 DEF Hold
<1> QED BY <1>3, <1>4, <1>5, SameLogs

LEMMA LeaveKeepsLogs ==
    ASSUME LogsInv, own' = own, NEW e \in Event, NEW seal,
           NEW d, DecisionGood(d, e, seal), Leave(d)
    PROVE  LogsInv'
<1>1. PICK hints : hints = d.aess
  OBVIOUS
<1>2. HintsGood(hints)
  BY <1>1 DEF DecisionGood
<1>3. aess' = hints /\ udes' = udes /\ UNCHANGED <<kels, fels, state, own>>
  BY <1>1 DEF Leave
<1> QED BY <1>2, <1>3, SameLogs

------------------------------------------------------------------------------
(* The actions *)

LEMMA ReceiveKeeps == ASSUME DelegationInv, Receive PROVE DelegationInv'
<1> USE DEF DelegationInv
<1>1. PICK m \in net : \E d \in Decide(m.event, m.seal, m.local, FALSE, aess) :
        /\ net' = net \ {m}
        /\ UNCHANGED <<own, turn, due>>
        /\ \/ d.kind = "accept" /\ Accept(m.event, m.local, d) /\ UNCHANGED escrow
           \/ d.kind = "duplicate" /\ Learn(m.event, m.local, d) /\ UNCHANGED escrow
           \/ d.kind = "reject" /\ Leave(d) /\ UNCHANGED escrow
           \/ /\ d.kind \in EscrowKind
              /\ Hold(m.event, m.local, d)
              /\ escrow' = escrow \cup {<<d.kind, m.event>>}
  BY DEF Receive
<1>2. PICK d \in Decide(m.event, m.seal, m.local, FALSE, aess) :
        /\ net' = net \ {m}
        /\ UNCHANGED <<own, turn, due>>
        /\ \/ d.kind = "accept" /\ Accept(m.event, m.local, d) /\ UNCHANGED escrow
           \/ d.kind = "duplicate" /\ Learn(m.event, m.local, d) /\ UNCHANGED escrow
           \/ d.kind = "reject" /\ Leave(d) /\ UNCHANGED escrow
           \/ /\ d.kind \in EscrowKind
              /\ Hold(m.event, m.local, d)
              /\ escrow' = escrow \cup {<<d.kind, m.event>>}
  BY <1>1
<1>3. m \in Message /\ m.event \in Event /\ m.seal \in Seal
      /\ (Ev[m.event].pre \in own => m.seal = None)
  BY DEF QueuesInv, Message
<1>4. PICK e \in Event : e = m.event
  BY <1>3
<1>5. PICK seal \in Seal : seal = m.seal
  BY <1>3
<1>6. DecisionGood(d, e, seal)
  <2>1. PICK local : local = m.local
    OBVIOUS
  <2>2. Typed /\ LogsAgree /\ HintsGood(aess)
    BY DEF LogsInv
  <2>3. d \in Decide(e, seal, local, FALSE, aess)
    BY <1>4, <1>5, <2>1
  <2> QED BY <2>2, <2>3, Decides
<1>7. LogsInv'
  <2>1. LogsInv /\ own' = own /\ (Ev[e].pre \in own /\ seal # None => Approves(seal, e))
    BY <1>2, <1>3, <1>4, <1>5
  <2>2. CASE d.kind = "accept" /\ Accept(e, m.local, d)
    BY <1>6, <2>1, <2>2, AcceptKeepsLogs
  <2>3. CASE d.kind = "duplicate" /\ Learn(e, m.local, d)
    BY <1>6, <2>1, <2>3, LearnKeepsLogs
  <2>4. CASE Leave(d)
    BY <1>6, <2>1, <2>4, LeaveKeepsLogs
  <2>5. CASE Hold(e, m.local, d)
    BY <1>6, <2>1, <2>5, HoldKeepsLogs
  <2> QED BY <1>2, <1>4, <2>2, <2>3, <2>4, <2>5
<1>8. QueuesInv'
  <2>1. own' = own /\ due' = due /\ net' \subseteq net
    BY <1>2
  <2>2. escrow' = escrow \/ (d.kind \in EscrowKind /\ escrow' = escrow \cup {<<d.kind, e>>})
    BY <1>2, <1>4
  <2>3. d.kind = "delegables" => Delegated(Ev[e].pre)
    BY <1>6 DEF DecisionGood
  <2>4. escrow' \subseteq EscrowKind \X Event
    BY <2>2 DEF QueuesInv
  <2>5. \A row \in escrow' \cup due' : row[1] = "delegables" => Delegated(Ev[row[2]].pre)
    BY <2>1, <2>2, <2>3 DEF QueuesInv
  <2> QED BY <2>1, <2>4, <2>5 DEF QueuesInv, Delegated
<1> QED BY <1>7, <1>8

LEMMA RepairedForGood ==
    ASSUME LogsInv, NEW kind, NEW e \in Event, kind = "delegables" => Delegated(Ev[e].pre)
    PROVE  HintsGood([aess EXCEPT ![e] = RepairedFor(kind, e)])
<1>1. Typed /\ LogsAgree /\ HintsGood(aess)
  BY DEF LogsInv
<1>2. aess[e] = None \/ Approves(aess[e], e)
  BY <1>1 DEF HintsGood
<1>3. PICK dp \in Pre \cup {None} : dp = Delegator[Ev[e].pre]
  BY EventFacts
<1>4. FirstAlong(dp, e) = None \/ Approves(FirstAlong(dp, e), e)
  BY <1>1, <1>3, FirstAlongGood
<1>5. PICK b : b = RepairedFor(kind, e)
  OBVIOUS
<1>6. b = None \/ Approves(b, e)
  BY <1>2, <1>3, <1>4, <1>5 DEF RepairedFor
<1> QED BY <1>1, <1>5, <1>6, SetHint

LEMMA ReplayKeeps ==
    ASSUME DelegationInv, NEW row \in due, Replay(row) PROVE DelegationInv'
<1> USE DEF DelegationInv
<1>0. row \in EscrowKind \X Event /\ (row[1] = "delegables" => Delegated(Ev[row[2]].pre))
  BY DEF QueuesInv
<1>1. PICK e \in Event : e = row[2]
  BY <1>0
<1>2. PICK d \in Retried(row) :
        /\ due' = due \ {row}
        /\ UNCHANGED <<own, net, turn>>
        /\ escrow' = Moved(row, d.kind)
        /\ \/ d.kind = "accept" /\ Accept(e, e \in esrs, d)
           \/ d.kind = "duplicate" /\ Learn(e, e \in esrs, d)
           \/ d.kind \in {"reject", row[1]} /\ Leave(d)
           \/ d.kind \in EscrowKind \ {row[1]} /\ Hold(e, e \in esrs, d)
  BY <1>1 DEF Replay
<1>3. PICK hints : /\ hints = [aess EXCEPT ![e] = RepairedFor(row[1], e)]
                   /\ d \in Decide(e, IF udes[e] # None THEN udes[e] ELSE hints[e],
                                   e \in esrs, row[1] = "pdes", hints)
  BY <1>1, <1>2 DEF Retried
<1>4. HintsGood(hints)
  BY <1>0, <1>1, <1>3, RepairedForGood
<1>5. PICK seal : seal = IF udes[e] # None THEN udes[e] ELSE hints[e]
  OBVIOUS
<1>6. seal \in Seal /\ (Ev[e].pre \in own /\ seal # None => Approves(seal, e))
  <2>1. udes[e] \in Seal /\ hints[e] \in Seal
    BY <1>4 DEF LogsInv, Typed, HintsGood
  <2>2. hints[e] # None => Approves(hints[e], e)
    BY <1>4 DEF HintsGood
  <2>3. Ev[e].pre \in own /\ udes[e] # None => Approves(udes[e], e)
    BY DEF LogsInv, OwnUnsealed
  <2> QED BY <1>5, <2>1, <2>2, <2>3
<1>7. DecisionGood(d, e, seal)
  <2>1. PICK local : local = (e \in esrs)
    OBVIOUS
  <2>2. PICK eager : eager = (row[1] = "pdes")
    OBVIOUS
  <2>3. Typed /\ LogsAgree
    BY DEF LogsInv
  <2>4. d \in Decide(e, seal, local, eager, hints)
    BY <1>3, <1>5, <2>1, <2>2
  <2> QED BY <1>4, <1>6, <2>3, <2>4, Decides
<1>8. LogsInv'
  <2>1. LogsInv /\ own' = own
    BY <1>2
  <2>2. CASE d.kind = "accept" /\ Accept(e, e \in esrs, d)
    BY <1>6, <1>7, <2>1, <2>2, AcceptKeepsLogs
  <2>3. CASE d.kind = "duplicate" /\ Learn(e, e \in esrs, d)
    BY <1>7, <2>1, <2>3, LearnKeepsLogs
  <2>4. CASE Leave(d)
    BY <1>7, <2>1, <2>4, LeaveKeepsLogs
  <2>5. CASE Hold(e, e \in esrs, d)
    BY <1>6, <1>7, <2>1, <2>5, HoldKeepsLogs
  <2> QED BY <1>2, <2>2, <2>3, <2>4, <2>5
<1>9. QueuesInv'
  <2>1. own' = own /\ net' = net /\ due' \subseteq due
    BY <1>2
  <2>2. escrow' \subseteq escrow \/ (d.kind \in EscrowKind /\ escrow' \subseteq escrow \cup {<<d.kind, e>>})
    BY <1>1, <1>2 DEF Moved
  <2>3. d.kind = "delegables" => Delegated(Ev[e].pre)
    BY <1>7 DEF DecisionGood
  <2>4. escrow' \subseteq EscrowKind \X Event
    BY <2>2 DEF QueuesInv
  <2>5. \A r \in escrow' \cup due' : r[1] = "delegables" => Delegated(Ev[r[2]].pre)
    BY <2>1, <2>2, <2>3 DEF QueuesInv
  <2> QED BY <2>1, <2>4, <2>5 DEF QueuesInv, Delegated
<1> QED BY <1>8, <1>9

LEMMA ApproveKeeps == ASSUME DelegationInv, Approve PROVE DelegationInv'
<1> USE DEF DelegationInv
<1>1. PICK row \in Rows("delegables") :
        \E b \in {state[Delegator[Ev[row[2]].pre]].said} :
            b # None /\ Anchors(b, row[2]) /\ aess' = [aess EXCEPT ![row[2]] = b]
  BY DEF Approve
<1>2. row \in escrow /\ row \in EscrowKind \X Event /\ Delegated(Ev[row[2]].pre)
  BY <1>1 DEF Rows, QueuesInv
<1>3. PICK e \in Event : e = row[2]
  BY <1>2
<1>4. PICK dp \in Pre : dp = Delegator[Ev[e].pre]
  BY <1>2, <1>3, EventFacts DEF Delegated
<1>5. PICK b : b = state[dp].said /\ b # None /\ Anchors(b, e) /\ aess' = [aess EXCEPT ![e] = b]
  BY <1>1, <1>3, <1>4
<1>6. b \in ToSet(fels[dp])
  BY <1>5 DEF LogsInv, LogsAgree, NoState
<1>7. fels[dp] \in Seq(Event)
  BY DEF LogsInv, Typed
<1>8. b \in Event /\ Ev[b].pre = dp
  BY <1>6, <1>7 DEF LogsInv, LogsAgree, ToSet
<1>9. Approves(b, e)
  BY <1>4, <1>5, <1>6, <1>8 DEF Approves, Bosses, Accepted
<1>10. LogsInv'
  <2>1. HintsGood(aess)
    BY DEF LogsInv
  <2>2. PICK hints : hints = [aess EXCEPT ![e] = b]
    OBVIOUS
  <2>3. HintsGood(hints)
    BY <1>9, <2>1, <2>2, SetHint
  <2>4. aess' = hints /\ udes' = udes /\ UNCHANGED <<kels, fels, state, own>>
    BY <1>5, <2>2 DEF Approve
  <2> QED BY <2>3, <2>4, SameLogs
<1>11. QueuesInv'
  <2>1. own' = own /\ net' = net /\ escrow' = escrow /\ due' \subseteq escrow
    BY DEF Approve, Rows
  <2> QED BY <2>1 DEF QueuesInv, Delegated
<1> QED BY <1>10, <1>11

LEMMA SweepKeeps ==
    ASSUME DelegationInv, NextEscrow \/ UNCHANGED vars PROVE DelegationInv'
<1> USE DEF DelegationInv
<1>1. UNCHANGED <<log, own, net, escrow>> /\ due' \subseteq due \cup escrow
  BY DEF NextEscrow, Rows, vars
<1>2. LogsInv'
  <2>1. HintsGood(aess) /\ Typed
    BY DEF LogsInv
  <2>2. PICK hints : hints = aess
    OBVIOUS
  <2>3. HintsGood(hints) /\ aess' = hints /\ udes' = udes /\ UNCHANGED <<kels, fels, state, own>>
    BY <1>1, <2>1, <2>2 DEF log
  <2> QED BY <2>3, SameLogs
<1>3. QueuesInv'
  BY <1>1 DEF QueuesInv, Delegated
<1> QED BY <1>2, <1>3

LEMMA NextKeeps == ASSUME DelegationInv, [Next]_vars PROVE DelegationInv'
<1>1. CASE Receive
  BY <1>1, ReceiveKeeps
<1>2. CASE Try
  BY <1>2, ReplayKeeps DEF Try
<1>3. CASE Approve
  BY <1>3, ApproveKeeps
<1>4. CASE NextEscrow \/ UNCHANGED vars
  BY <1>4, SweepKeeps
<1> QED BY <1>1, <1>2, <1>3, <1>4 DEF Next

LEMMA InitKeeps == ASSUME Init PROVE DelegationInv
<1>1. Blank
  BY DEF Init
<1>2. \A p \in Pre : fels[p] = <<>> /\ ToSet(fels[p]) = {}
  BY <1>1 DEF Blank, ToSet
<1>3. \A p \in Pre, n \in 0..MaxSn : ToSet(kels[p][n]) = {}
  BY <1>1 DEF Blank, ToSet
<1>4. Typed
  <2>1. <<>> \in Seq(Event) /\ NoState \in [said : Seal, est : Seal] /\ None \in Seal
    BY DEF NoState, Seal
  <2> QED BY <1>1, <2>1 DEF Blank, Typed
<1>5. LogsAgree
  BY <1>1, <1>2, <1>3 DEF Blank, LogsAgree
<1>6. HintsGood(aess) /\ OwnUnsealed
  BY <1>1 DEF Blank, HintsGood, OwnUnsealed, Seal
<1>7. DelegatedAnchored
  BY <1>2 DEF DelegatedAnchored
<1>8. QueuesInv
  <2>1. own \subseteq Pre /\ net \subseteq Message /\ escrow = {} /\ due = {}
    BY <1>1 DEF Init, Blank
  <2>2. \A m \in net : Ev[m.event].pre \in own => m.seal = None
    <3>1. net \in SUBSET {m \in Message : /\ m.local => Ev[m.event].pre \in own
                                          /\ Ev[m.event].pre \in own => m.seal = None}
      BY DEF Init
    <3> QED BY <3>1
  <2> QED BY <2>1, <2>2 DEF QueuesInv
<1> QED BY <1>4, <1>5, <1>6, <1>7, <1>8 DEF DelegationInv, LogsInv

(* From any state the invariant holds in, logs that were begun included.   *)
LEMMA InvariantOnward == DelegationInv /\ [][Next]_vars => []DelegationInv
BY NextKeeps, PTL

LEMMA DelegationInvariant == Spec => []DelegationInv
BY InitKeeps, InvariantOnward, PTL DEF Spec

------------------------------------------------------------------------------
(* What beats an accepted rotation *)

LEMMA DepthIsNat == Cardinality(Pre) \in Nat
BY DelegationAssumption, FS_CardinalityType

(* BeatsWithin is the function its definition describes: it has a value at *)
(* each depth, by the least depth that would have none.                    *)
Deep(f, n) ==
    \A i \in 0..n : f[i] = [x \in Event \X Event |->
                                IF i = 0 THEN FALSE ELSE Beating(x, f[i - 1])]

LEMMA DepthsExist ==
    ASSUME NEW n \in Nat
    PROVE  \E f : f = [i \in 0..n |-> [x \in Event \X Event |->
                                IF i = 0 THEN FALSE ELSE Beating(x, f[i - 1])]]
<1> DEFINE Bad == {k \in 0..n : ~ \E f : DOMAIN f = 0..k /\ f = [i \in 0..k |-> f[i]]
                                        /\ Deep(f, k)}
<1>0. Bad \in SUBSET Nat
  OBVIOUS
<1>1. Bad = {}
  <2> SUFFICES ASSUME Bad # {} PROVE FALSE
    OBVIOUS
  <2>1. PICK m \in Bad : \A y \in Bad : m <= y
    <3> HIDE DEF Bad
    <3> QED BY <1>0, Least
  <2>2. CASE m = 0
    <3> DEFINE f == [i \in 0..0 |-> [x \in Event \X Event |-> FALSE]]
    <3>1. DOMAIN f = 0..m /\ f = [i \in 0..m |-> f[i]] /\ Deep(f, m)
      BY <2>2 DEF Deep
    <3> QED BY <2>1, <3>1
  <2>3. CASE m # 0
    <3>1. m \in 1..n /\ m - 1 \in 0..n /\ m - 1 \notin Bad
      BY <2>1, <2>3
    <3>2. PICK g : DOMAIN g = 0..(m - 1) /\ g = [i \in 0..(m - 1) |-> g[i]] /\ Deep(g, m - 1)
      BY <3>1
    <3> DEFINE next == [x \in Event \X Event |-> Beating(x, g[m - 1])]
               f == [i \in 0..m |-> IF i < m THEN g[i] ELSE next]
    <3> HIDE DEF next
    <3>3. DOMAIN f = 0..m /\ f = [i \in 0..m |-> f[i]]
      OBVIOUS
    <3>4. Deep(f, m)
      <4> SUFFICES ASSUME NEW i \in 0..m
                   PROVE  f[i] = [x \in Event \X Event |->
                                     IF i = 0 THEN FALSE ELSE Beating(x, f[i - 1])]
        BY DEF Deep
      <4>1. CASE i < m
        <5>1. i \in 0..(m - 1) /\ f[i] = g[i] /\ (i # 0 => f[i - 1] = g[i - 1])
          BY <3>1, <4>1
        <5>2. g[i] = [x \in Event \X Event |-> IF i = 0 THEN FALSE ELSE Beating(x, g[i - 1])]
          BY <3>2, <5>1 DEF Deep
        <5> HIDE DEF f
        <5>3. CASE i = 0
          BY <5>1, <5>2, <5>3
        <5>4. CASE i # 0
          BY <5>1, <5>2, <5>4
        <5> QED BY <5>3, <5>4
      <4>2. CASE i = m
        <5>1. f[m] = next /\ f[m - 1] = g[m - 1]
          BY <3>1
        <5> HIDE DEF f
        <5> QED BY <2>3, <4>2, <5>1 DEF next
      <4> QED BY <3>1, <4>1, <4>2
    <3> QED BY <2>1, <3>3, <3>4
  <2> QED BY <2>2, <2>3
<1>2. n \in 0..n /\ n \notin Bad
  BY <1>1
<1>3. PICK f : f = [i \in 0..n |-> f[i]] /\ Deep(f, n)
  BY <1>2
<1> DEFINE level(i) == [x \in Event \X Event |-> IF i = 0 THEN FALSE ELSE Beating(x, f[i - 1])]
<1>4. \A i \in 0..n : f[i] = level(i)
  BY <1>3 DEF Deep
<1>5. f = [i \in 0..n |-> level(i)]
  <2> HIDE DEF level
  <2> QED BY <1>3, <1>4
<1> QED BY <1>5

LEMMA BeatsUnfolds ==
    ASSUME NEW n \in 1..Cardinality(Pre), NEW c \in Event, NEW o \in Event
    PROVE  BeatsWithin[n][<<c, o>>] <=> Beating(<<c, o>>, BeatsWithin[n - 1])
<1>1. PICK N \in Nat : N = Cardinality(Pre)
  BY DepthIsNat
<1>2. BeatsWithin = [i \in 0..N |-> [x \in Event \X Event |->
                                IF i = 0 THEN FALSE ELSE Beating(x, BeatsWithin[i - 1])]]
  BY <1>1, DepthsExist DEF BeatsWithin
<1>3. n \in 0..N /\ n # 0
  BY <1>1
<1>4. BeatsWithin[n] = [x \in Event \X Event |-> Beating(x, BeatsWithin[n - 1])]
  BY <1>2, <1>3
<1> QED BY <1>4

(* What the climb takes for an approval that outranks another beats it at  *)
(* every depth.                                                            *)
LEMMA SealIndexAt ==
    ASSUME NEW b \in Event, NEW e \in Event, Anchors(b, e)
    PROVE  SealIndex(b, e) \in DOMAIN Ev[b].seals /\ Ev[b].seals[SealIndex(b, e)] = e
<1> DEFINE T == {i \in DOMAIN Ev[b].seals : Ev[b].seals[i] = e}
<1>1. Ev[b].seals \in Seq(Event)
  BY EventFacts
<1>2. T \in SUBSET Nat
  BY <1>1
<1>3. T # {}
  BY DEF Anchors, ToSet
<1>4. \E i \in T : \A j \in T : i <= j
  <2> HIDE DEF T
  <2> QED BY <1>2, <1>3, Least
<1>5. \E i \in DOMAIN Ev[b].seals :
        Ev[b].seals[i] = e /\ \A j \in DOMAIN Ev[b].seals : Ev[b].seals[j] = e => i <= j
  BY <1>4
<1> QED BY <1>5 DEF SealIndex

LEMMA OutranksBeats ==
    ASSUME NEW c \in Event, NEW o \in Event, NEW cb \in Bosses[c], NEW ob \in Bosses[o],
           Outranks(c, cb, o, ob), NEW above
    PROVE  Beating(<<c, o>>, above)
<1>1. cb \in Event /\ ob \in Event /\ Anchors(cb, c) /\ Anchors(ob, o)
  BY DEF Bosses
<1>2. Ev[cb].sn \in Nat /\ Ev[ob].sn \in Nat
  BY <1>1, EventFacts, DelegationAssumption
<1>3. CASE Ev[cb].sn > Ev[ob].sn \/ (Ev[cb].sn = Ev[ob].sn /\ Rotates(cb) /\ Ev[ob].ilk = "ixn")
  <2>1. Lateness(cb) > Lateness(ob)
    BY <1>2, <1>3 DEF Lateness, Rotates
  <2> QED BY <2>1 DEF Beating
<1>4. CASE cb = ob /\ SealIndex(cb, c) > SealIndex(ob, o)
  <2>1. PICK i \in DOMAIN Ev[cb].seals : i = SealIndex(cb, c) /\ Ev[cb].seals[i] = c
    BY <1>1, SealIndexAt
  <2>2. PICK j \in DOMAIN Ev[cb].seals : j = SealIndex(ob, o) /\ Ev[cb].seals[j] = o
    BY <1>1, <1>4, SealIndexAt
  <2>3. i > j /\ <<c, o>> = <<Ev[cb].seals[i], Ev[cb].seals[j]>>
    BY <1>4, <2>1, <2>2
  <2> QED BY <1>4, <2>3 DEF Beating
<1> QED BY <1>3, <1>4 DEF Outranks

(* How the claim at level i of a climb bears on the two events it is about.*)
Bears(x, i, c, o) ==
    /\ ClaimGood(x)
    /\ x.kind = "open" =>
         /\ x.cb \in Bosses[x.c] /\ x.ob \in Bosses[x.o]
         /\ BeatsWithin[Cardinality(Pre) - i][<<x.c, x.o>>] => Beats[<<c, o>>]
    /\ x.kind = "accept" => Beats[<<c, o>>]

LEMMA ClimbBears ==
    ASSUME Typed, LogsAgree, NEW eager, NEW c, NEW o, NEW i \in 0..(Cardinality(Pre) - 1),
           NEW x, Bears(x, i, c, o)
    PROVE  Bears(Climb(x, eager), i + 1, c, o)
<1> DEFINE up == Delegator[x.dp]
           new == BossOfNew(up, x.cb, None, eager, x.aess)
           old == BossOfOld(up, x.ob, eager, new.aess)
<1>1. ClaimGood(x) /\ ClaimGood(Climb(x, eager))
  BY ClimbGood DEF Bears
<1>2. x.dp \in Pre /\ x.cb \in Event /\ x.ob \in Event /\ x.c \in Event /\ x.o \in Event
      /\ x.aess \in [Event -> Seal] /\ Ev[x.cb].pre = x.dp /\ Ev[x.ob].pre = x.dp
      /\ x.kind \in ClaimKind /\ HintsGood(x.aess) /\ x = [x EXCEPT !.kind = x.kind]
  BY <1>1 DEF ClaimGood, ClaimType
<1>3. PICK N \in Nat : N = Cardinality(Pre)
  BY DepthIsNat
<1>4. N - i \in 1..N /\ (N - i) - 1 = N - (i + 1)
  BY <1>3
<1>5. CASE x.kind # "open"
  <2>1. Climb(x, eager) = x
    BY <1>5 DEF Climb
  <2> QED BY <1>1, <1>5, <2>1 DEF Bears
<1>6. CASE x.kind = "open"
  <2>1. x.cb \in Bosses[x.c] /\ x.ob \in Bosses[x.o]
        /\ (BeatsWithin[N - i][<<x.c, x.o>>] => Beats[<<c, o>>])
    BY <1>3, <1>6 DEF Bears
  <2>2. Beating(<<x.c, x.o>>, BeatsWithin[N - (i + 1)]) => Beats[<<c, o>>]
    <3>1. BeatsWithin[N - i][<<x.c, x.o>>] <=> Beating(<<x.c, x.o>>, BeatsWithin[(N - i) - 1])
      BY <1>2, <1>3, <1>4, BeatsUnfolds
    <3> QED BY <1>4, <2>1, <3>1
  <2>3. CASE Outranks(x.c, x.cb, x.o, x.ob)
    <3>1. Climb(x, eager) = [x EXCEPT !.kind = "accept"]
      BY <1>6, <2>3 DEF Climb
    <3>2. Climb(x, eager).kind = "accept"
      BY <1>1, <3>1 DEF ClaimGood, ClaimType
    <3>3. Beats[<<c, o>>]
      BY <1>2, <2>1, <2>2, <2>3, OutranksBeats
    <3> QED BY <1>1, <3>2, <3>3 DEF Bears
  <2>4. CASE ~Outranks(x.c, x.cb, x.o, x.ob) /\ (x.cb = x.ob \/ up = None)
    <3>1. Climb(x, eager) = [x EXCEPT !.kind = "reject"]
      BY <1>6, <2>4 DEF Climb
    <3>2. Climb(x, eager).kind = "reject"
      BY <1>1, <3>1 DEF ClaimGood, ClaimType
    <3> QED BY <1>1, <3>2 DEF Bears
  <2>5. CASE ~Outranks(x.c, x.cb, x.o, x.ob) /\ x.cb # x.ob /\ up # None
    <3>1. Climb(x, eager) = IF new.boss = None THEN [x EXCEPT !.kind = "pdes", !.aess = new.aess]
                            ELSE IF old.boss = None THEN [x EXCEPT !.kind = "pdes", !.aess = old.aess]
                            ELSE Claim("open", up, x.cb, new.boss, x.ob, old.boss, old.aess)
      BY <1>6, <2>5 DEF Climb
    <3>2. up \in Pre /\ up = Delegator[Ev[x.cb].pre] /\ up = Delegator[Ev[x.ob].pre]
      BY <1>2, <2>5, DelegationAssumption
    <3>3. Delegated(Ev[x.cb].pre)
      BY <2>5, <3>2 DEF Delegated
    <3>4. None \in Seal
      BY DEF Seal
    <3> HIDE DEF up
    <3>5. FoundGood(new, x.cb)
      BY <1>2, <3>2, <3>4, BossOfNewGood
    <3>6. HintsGood(new.aess) /\ (new.boss # None => new.boss \in Bosses[x.cb])
      BY <3>5 DEF FoundGood, Approves
    <3> HIDE DEF new
    <3>7. FoundGood(old, x.ob)
      BY <1>2, <3>2, <3>6, BossOfOldGood
    <3>8. old.boss # None => old.boss \in Bosses[x.ob]
      BY <3>7 DEF FoundGood, Approves
    <3> HIDE DEF old
    <3>9. CASE new.boss = None \/ old.boss = None
      <4>1. Climb(x, eager) = [x EXCEPT !.kind = "pdes", !.aess = new.aess]
            \/ Climb(x, eager) = [x EXCEPT !.kind = "pdes", !.aess = old.aess]
        BY <3>1, <3>9
      <4>2. Climb(x, eager).kind = "pdes"
        BY <1>1, <4>1 DEF ClaimGood, ClaimType
      <4> QED BY <1>1, <4>2 DEF Bears
    <3>10. CASE new.boss # None /\ old.boss # None
      <4>1. Climb(x, eager) = Claim("open", up, x.cb, new.boss, x.ob, old.boss, old.aess)
        BY <3>1, <3>10
      <4>2. PICK y : y = Climb(x, eager)
        OBVIOUS
      <4>3. y.kind = "open" /\ y.c = x.cb /\ y.o = x.ob /\ y.cb = new.boss /\ y.ob = old.boss
        BY <4>1, <4>2 DEF Claim
      <4>4. y.cb \in Bosses[y.c] /\ y.ob \in Bosses[y.o]
        BY <3>6, <3>8, <3>10, <4>3
      <4>5. ASSUME BeatsWithin[N - (i + 1)][<<y.c, y.o>>] PROVE Beats[<<c, o>>]
        <5>1. Beating(<<x.c, x.o>>, BeatsWithin[N - (i + 1)])
          BY <2>1, <2>5, <3>3, <4>3, <4>5 DEF Beating
        <5> QED BY <2>2, <5>1
      <4> QED BY <1>1, <1>3, <4>2, <4>3, <4>4, <4>5 DEF Bears
    <3> QED BY <3>9, <3>10
  <2> QED BY <2>3, <2>4, <2>5
<1> QED BY <1>5, <1>6

(* A claim that the climb settles for the candidate is one the candidate   *)
(* wins, at whatever depth that was.                                       *)
LEMMA SupersedesBeats ==
    ASSUME Typed, LogsAgree, NEW eager, NEW claim, ClaimGood(claim), claim.kind = "open",
           claim.cb \in Bosses[claim.c], claim.ob \in Bosses[claim.o],
           Supersedes(claim, eager).kind = "accept"
    PROVE  Beats[<<claim.c, claim.o>>]
<1> DEFINE n == Cardinality(Pre)
           after == LevelsOf(claim, eager, n)
<1>1. Supersedes(claim, eager) = after[n]
  BY DEF Supersedes, LevelsOf, Climbing
<1>2. n \in Nat
  BY DepthIsNat
<1> HIDE DEF n
<1>3. after = [i \in 0..n |-> IF i = 0 THEN claim ELSE Climb(after[i - 1], eager)]
  BY <1>2, LevelsAre
<1> HIDE DEF after
<1> USE DEF n
<1> DEFINE Off == {i \in 0..n : ~Bears(after[i], i, claim.c, claim.o)}
<1>4. Off = {}
  <2> SUFFICES ASSUME Off # {} PROVE FALSE
    OBVIOUS
  <2>0. Off \in SUBSET Nat
    OBVIOUS
  <2>1. PICK m \in Off : \A y \in Off : m <= y
    <3> HIDE DEF Off
    <3> QED BY <2>0, Least
  <2>2. CASE m = 0
    <3>1. after[0] = claim /\ n - 0 = n
      BY <1>2, <1>3
    <3>2. Bears(claim, 0, claim.c, claim.o)
      BY <3>1 DEF Bears, Beats
    <3> QED BY <2>1, <2>2, <3>1, <3>2
  <2>3. CASE m # 0
    <3>1. m - 1 \in 0..(n - 1) /\ m - 1 \in 0..n /\ m - 1 \notin Off /\ (m - 1) + 1 = m
      BY <1>2, <2>1, <2>3
    <3>2. after[m] = Climb(after[m - 1], eager)
      BY <1>3, <2>1, <2>3
    <3>3. Bears(after[m - 1], m - 1, claim.c, claim.o)
      BY <3>1
    <3>4. Bears(Climb(after[m - 1], eager), (m - 1) + 1, claim.c, claim.o)
      BY <3>1, <3>3, ClimbBears
    <3> QED BY <2>1, <3>1, <3>2, <3>4
  <2> QED BY <2>2, <2>3
<1>5. n \in 0..n
  BY <1>2
<1>6. Bears(after[n], n, claim.c, claim.o)
  BY <1>4, <1>5
<1> QED BY <1>1, <1>6 DEF Bears

(* The key state's last establishment event establishes keys, and what came*)
(* after it in the log has a later number.                                 *)
LastEstablishes ==
    \A p \in Pre : state[p] # NoState =>
        LET head == state[p].said
            est == state[p].est
        IN Establishes(est) /\ Ev[est].sn <= Ev[head].sn /\ (Ev[est].sn = Ev[head].sn => est = head)

LEMMA StateEvents ==
    ASSUME Typed, LogsAgree, NEW p \in Pre, state[p] # NoState
    PROVE  /\ state[p].said \in Event /\ Ev[state[p].said].pre = p
           /\ state[p].est \in Event /\ Ev[state[p].est].pre = p
<1>1. {state[p].said, state[p].est} \subseteq ToSet(fels[p]) /\ fels[p] \in Seq(Event)
  BY DEF LogsAgree, Typed
<1>2. ToSet(fels[p]) \subseteq Event
  BY <1>1 DEF ToSet
<1> QED BY <1>1, <1>2 DEF LogsAgree

(* What is accepted, and on what grounds.                                  *)
LEMMA AcceptedFits ==
    ASSUME Typed, LogsAgree, NEW e \in Event, NEW p \in Pre, p = Ev[e].pre,
           NEW seal \in Seal, NEW local, NEW eager, NEW hints, HintsGood(hints),
           NEW d \in Decide(e, seal, local, eager, hints), d.kind = "accept"
    PROVE  /\ state[p] = NoState => Establishes(e) /\ Ev[e].sn = 0
           /\ state[p] # NoState => /\ d \in Attached(p, e, seal, local, eager, hints)
                                    /\ ~Incepts(e) /\ Fits(e)
           /\ state[p] # NoState /\ Ev[e].ilk = "ixn" => Ev[e].sn = Ev[state[p].said].sn + 1
           /\ state[p] # NoState =>
                 \/ Ev[e].sn = Ev[state[p].said].sn + 1 /\ Ev[e].prior = state[p].said
                 \/ /\ Ev[e].sn \in 1..Ev[state[p].said].sn
                    /\ LastAt(p, Ev[e].sn - 1) # None /\ LastAt(p, Ev[e].sn - 1) = Ev[e].prior
           /\ state[p] # NoState /\ Ev[e].sn <= Ev[state[p].said].sn =>
                 /\ ~(Ev[e].sn < Ev[state[p].est].sn)
                 /\ ~Delegated(p) => ~(Ev[e].sn <= Ev[state[p].est].sn)
<1> DEFINE head == state[p].said
<1>0. \A kind, s, h : d \in Decision(kind, s, h) => kind = "accept"
  BY DEF Decision
<1>1. CASE state[p] = NoState
  <2>1. Incepts(e)
    <3> SUFFICES ASSUME ~Incepts(e) PROVE FALSE
      OBVIOUS
    <3>1. d \in Decision("ooo", seal, hints)
      BY <1>1 DEF Decide
    <3> QED BY <1>0, <3>1
  <2>2. Ev[e].sn = 0
    <3> SUFFICES ASSUME Ev[e].sn # 0 PROVE FALSE
      OBVIOUS
    <3>1. d \in Decision("reject", None, hints)
      BY <1>1, <2>1 DEF Decide
    <3> QED BY <1>0, <3>1
  <2> QED BY <1>1, <2>1, <2>2 DEF Incepts, Establishes
<1>2. CASE state[p] # NoState
  <2>1. ~Again(p, e, head)
    <3> SUFFICES ASSUME Again(p, e, head) PROVE FALSE
      OBVIOUS
    <3>1. d \in Duplicate(p, e, seal, hints)
      BY <1>2 DEF Decide
    <3> QED BY <3>1 DEF Duplicate, Decision
  <2>2. ~Incepts(e)
    <3> SUFFICES ASSUME Incepts(e) PROVE FALSE
      OBVIOUS
    <3>1. d \in Decision("ldes", seal, hints)
      BY <1>2, <2>1 DEF Decide
    <3> QED BY <1>0, <3>1
  <2>3. ~(Ev[e].sn > Ev[head].sn + 1)
    <3> SUFFICES ASSUME Ev[e].sn > Ev[head].sn + 1 PROVE FALSE
      OBVIOUS
    <3>1. d \in Decision("ooo", seal, hints)
      BY <1>2, <2>1, <2>2 DEF Decide
    <3> QED BY <1>0, <3>1
  <2>4. ~Unfit(p, e, head, Ev[e].sn)
    <3> SUFFICES ASSUME Unfit(p, e, head, Ev[e].sn) PROVE FALSE
      OBVIOUS
    <3>1. d \in Decision("reject", None, hints)
      BY <1>2, <2>1, <2>2, <2>3 DEF Decide
    <3> QED BY <1>0, <3>1
  <2>5. d \in Attached(p, e, seal, local, eager, hints)
    BY <1>2, <2>1, <2>2, <2>3, <2>4 DEF Decide
  <2>6. Fits(e)
    <3>1. Rotates(e) => ((Ev[e].ilk = "drt") <=> Delegated(p))
      BY <2>4 DEF Unfit
    <3>2. Establishes(e) => Rotates(e) /\ (Ev[e].ilk \in {"dip", "drt"} <=> Ev[e].ilk = "drt")
      BY <2>2 DEF Establishes, Rotates, Incepts
    <3> QED BY <1>2, <3>1, <3>2 DEF Fits
  <2>7. Ev[e].ilk = "ixn" => Ev[e].sn = Ev[head].sn + 1
    <3>1. Ev[e].ilk = "ixn" => ~(Ev[e].sn <= Ev[head].sn)
      BY <2>4 DEF Unfit, TakesBack
    <3>2. head \in Event /\ Ev[e].sn \in Nat /\ Ev[head].sn \in Nat
      BY <1>2, StateEvents, EventFacts, DelegationAssumption
    <3> QED BY <2>3, <3>1, <3>2
  <2>8. \/ Ev[e].sn = Ev[head].sn + 1 /\ Ev[e].prior = head
        \/ /\ Ev[e].sn \in 1..Ev[head].sn
           /\ LastAt(p, Ev[e].sn - 1) # None /\ LastAt(p, Ev[e].sn - 1) = Ev[e].prior
    <3>1. head \in Event /\ Ev[e].sn \in Nat /\ Ev[head].sn \in Nat
      BY <1>2, StateEvents, EventFacts, DelegationAssumption
    <3>2. Ev[e].sn = Ev[head].sn + 1 => Ev[e].prior = head
      BY <2>4 DEF Unfit
    <3>3. Ev[e].sn <= Ev[head].sn =>
             Ev[e].sn # 0 /\ LastAt(p, Ev[e].sn - 1) \in {Ev[e].prior} \ {None}
      BY <2>4 DEF Unfit, TakesBack
    <3> QED BY <2>3, <3>1, <3>2, <3>3
  <2>9. Ev[e].sn <= Ev[head].sn => /\ ~(Ev[e].sn < Ev[state[p].est].sn)
                                   /\ ~Delegated(p) => ~(Ev[e].sn <= Ev[state[p].est].sn)
    <3> SUFFICES ASSUME Ev[e].sn <= Ev[head].sn
                 PROVE  /\ ~(Ev[e].sn < Ev[state[p].est].sn)
                        /\ ~Delegated(p) => ~(Ev[e].sn <= Ev[state[p].est].sn)
      OBVIOUS
    <3>1. Ev[e].ilk \in {"rot", "drt"}
      BY <2>2, <2>4, EventFacts DEF Unfit, TakesBack, Incepts
    <3>2. Ev[e].ilk = "drt" <=> Delegated(p)
      BY <2>4, <3>1 DEF Unfit, Rotates
    <3>3. /\ Ev[e].ilk = "rot" => ~(Ev[e].sn <= Ev[state[p].est].sn)
          /\ Ev[e].ilk = "drt" => ~(Ev[e].sn < Ev[state[p].est].sn)
      BY <2>4 DEF Unfit, TakesBack
    <3>4. Ev[e].sn \in Int /\ Ev[state[p].est].sn \in Int
      <4>1. state[p].est \in Event
        BY <1>2, StateEvents
      <4> QED BY <4>1, EventFacts, DelegationAssumption
    <3> QED BY <3>1, <3>2, <3>3, <3>4
  <2> QED BY <1>2, <2>2, <2>5, <2>6, <2>7, <2>8, <2>9
<1> QED BY <1>1, <1>2

LEMMA AcceptedEstablishes ==
    ASSUME Typed, LogsAgree, LastEstablishes, NEW e \in Event,
           NEW seal \in Seal, NEW local, NEW eager, NEW hints, HintsGood(hints),
           NEW d \in Decide(e, seal, local, eager, hints), d.kind = "accept", Accept(e, local, d)
    PROVE  LastEstablishes'
<1> SUFFICES ASSUME NEW q \in Pre, state'[q] # NoState
             PROVE  /\ Establishes(state'[q].est) /\ Ev[state'[q].est].sn <= Ev[state'[q].said].sn
                    /\ (Ev[state'[q].est].sn = Ev[state'[q].said].sn => state'[q].est = state'[q].said)
  BY DEF LastEstablishes, Establishes
<1>1. PICK p \in Pre : p = Ev[e].pre
  BY EventFacts
<1>2. state' = [state EXCEPT ![p] = [said |-> e, est |-> IF Establishes(e) THEN e ELSE state[p].est]]
  BY <1>1 DEF Accept
<1>3. state \in [Pre -> [said : Seal, est : Seal]]
  BY DEF Typed
<1>4. CASE q # p
  <2>1. state'[q] = state[q]
    BY <1>2, <1>3, <1>4
  <2> QED BY <2>1 DEF LastEstablishes
<1>5. CASE q = p /\ Establishes(e)
  <2>1. state'[q].said = e /\ state'[q].est = e
    BY <1>2, <1>3, <1>5
  <2>2. Ev[e].sn \in Nat
    BY EventFacts, DelegationAssumption
  <2> QED BY <1>5, <2>1, <2>2
<1>6. CASE q = p /\ ~Establishes(e)
  <2>1. state'[q].said = e /\ state'[q].est = state[p].est
    BY <1>2, <1>3, <1>6
  <2>2. state[p] # NoState
    BY <1>1, <1>6, AcceptedFits
  <2>3. Ev[e].ilk = "ixn"
    BY <1>6, EventFacts DEF Establishes
  <2>4. Ev[e].sn = Ev[state[p].said].sn + 1
    BY <1>1, <2>2, <2>3, AcceptedFits
  <2>5. Establishes(state[p].est) /\ Ev[state[p].est].sn <= Ev[state[p].said].sn
    BY <2>2 DEF LastEstablishes
  <2>6. state[p].est \in Event /\ state[p].said \in Event
    BY <2>2, StateEvents
  <2>7. Ev[state[p].est].sn \in Nat /\ Ev[state[p].said].sn \in Nat
    BY <2>6, EventFacts, DelegationAssumption
  <2> QED BY <2>1, <2>4, <2>5, <2>7
<1> QED BY <1>4, <1>5, <1>6

(* Another node's delegate's rotation that takes the place of one with its *)
(* number was compared with it and beat it.                                *)
LEMMA AcceptedBeats ==
    ASSUME Typed, LogsAgree, LastEstablishes, NEW e \in Event, NEW p \in Pre, p = Ev[e].pre,
           p \notin own, Delegated(p), state[p] # NoState, Establishes(e),
           Ev[e].sn = Ev[state[p].est].sn,
           NEW seal \in Seal, NEW local, NEW eager, NEW hints, HintsGood(hints),
           NEW d \in Decide(e, seal, local, eager, hints), d.kind = "accept"
    PROVE  Beats[<<e, state[p].est>>]
<1>0. \A kind, s, h : d \in Decision(kind, s, h) => kind = "accept"
  BY DEF Decision
<1>1. d \in Attached(p, e, seal, local, eager, hints) /\ ~Incepts(e) /\ Fits(e)
  BY AcceptedFits
<1>2. Ev[e].ilk = "drt" /\ Delegator[p] \in Pre
  <2>1. Ev[e].ilk \in {"dip", "drt"}
    BY <1>1 DEF Fits
  <2>2. Delegator[p] \in Pre \cup {None}
    BY DelegationAssumption
  <2> QED BY <1>1, <2>1, <2>2 DEF Incepts, Delegated
<1>3. PICK new : /\ new = BossOfNew(Delegator[p], e, seal, eager, hints)
                 /\ d \in ApprovedBy(p, e, seal, new, eager)
  <2>1. ~(Delegator[p] \in own /\ AcceptedBoss(Delegator[p], seal, e) = None)
    <3> SUFFICES ASSUME Delegator[p] \in own, AcceptedBoss(Delegator[p], seal, e) = None
                 PROVE  FALSE
      OBVIOUS
    <3>1. d \in Decision("delegables", seal, hints)
      BY <1>1, <1>2 DEF Attached
    <3> QED BY <1>0, <3>1
  <2>2. state[Delegator[p]] # NoState
    <3> SUFFICES ASSUME state[Delegator[p]] = NoState PROVE FALSE
      OBVIOUS
    <3>1. d \in Decision("pdes", seal, hints)
      BY <1>1, <1>2, <2>1 DEF Attached
    <3> QED BY <1>0, <3>1
  <2>3. Delegator[p] \notin Dnd
    <3> SUFFICES ASSUME Delegator[p] \in Dnd PROVE FALSE
      OBVIOUS
    <3>1. d \in Decision("reject", None, hints)
      BY <1>1, <1>2, <2>1, <2>2 DEF Attached
    <3> QED BY <1>0, <3>1
  <2> QED BY <1>1, <1>2, <2>1, <2>2, <2>3 DEF Attached
<1>4. FoundGood(new, e)
  BY <1>2, <1>3, BossOfNewGood
<1>5. new.boss # None
  <2> SUFFICES ASSUME new.boss = None PROVE FALSE
    OBVIOUS
  <2>1. d \in Decision("pdes", seal, new.aess)
    BY <1>3 DEF ApprovedBy
  <2> QED BY <1>0, <2>1
<1>6. state[p].said \in Event /\ state[p].est \in Event /\ Ev[state[p].est].pre = p
  BY StateEvents
<1>7. ~InTurn(e)
  <2>1. Ev[e].sn \in Nat /\ Ev[state[p].said].sn \in Nat
    BY <1>6, EventFacts, DelegationAssumption
  <2>2. /\ Establishes(state[p].est) /\ Ev[e].sn <= Ev[state[p].said].sn
        /\ Ev[e].sn = Ev[state[p].said].sn => state[p].est = state[p].said
    BY DEF LastEstablishes
  <2>3. Ev[state[p].est].ilk # "ixn"
    BY <2>2 DEF Establishes
  <2>4. Ev[e].ilk # "dip"
    BY <1>2 DEF Establishes
  <2>5. Ev[e].sn # Ev[state[p].said].sn + 1
    BY <2>1, <2>2
  <2>6. ~(Ev[e].sn = Ev[state[p].said].sn /\ Ev[state[p].said].ilk = "ixn")
    BY <2>2, <2>3
  <2> QED BY <1>2, <2>4, <2>5, <2>6 DEF InTurn
<1>8. PICK old : /\ old = BossOfOld(Delegator[p], state[p].est, eager, new.aess)
                 /\ d \in Recovered(p, e, seal, new, old, eager)
  BY <1>3, <1>5, <1>7 DEF ApprovedBy
<1>9. FoundGood(old, state[p].est)
  <2>1. HintsGood(new.aess)
    BY <1>4 DEF FoundGood
  <2> QED BY <1>2, <1>6, <1>8, <2>1, BossOfOldGood
<1>10. old.boss # None
  <2> SUFFICES ASSUME old.boss = None PROVE FALSE
    OBVIOUS
  <2>1. d \in Decision("pdes", seal, old.aess)
    BY <1>8 DEF Recovered
  <2> QED BY <1>0, <2>1
<1> DEFINE first == Claim("open", Delegator[p], e, new.boss, state[p].est, old.boss, old.aess)
<1>11. Supersedes(first, eager).kind = "accept"
  <2>1. d \in UNION {Decision(claim.kind, IF claim.kind = "accept" THEN new.boss ELSE seal,
                              claim.aess) : claim \in {Supersedes(first, eager)}}
    BY <1>8, <1>10 DEF Recovered
  <2> HIDE DEF first
  <2>2. PICK claim \in {Supersedes(first, eager)} :
            d \in Decision(claim.kind, IF claim.kind = "accept" THEN new.boss ELSE seal, claim.aess)
    BY <2>1
  <2> QED BY <1>0, <2>2
<1>12. new.boss \in Bosses[e] /\ old.boss \in Bosses[state[p].est]
  BY <1>4, <1>5, <1>9, <1>10 DEF FoundGood, Approves
<1>13. /\ new.boss \in Event /\ Ev[new.boss].pre = Delegator[p]
       /\ old.boss \in Event /\ Ev[old.boss].pre = Delegator[p]
  BY <1>6, <1>12 DEF Bosses
<1>14. HintsGood(old.aess) /\ old.aess \in [Event -> Seal]
  BY <1>9 DEF FoundGood, HintsGood
<1>15. first \in ClaimType
  BY <1>2, <1>6, <1>13, <1>14 DEF Claim, ClaimType, ClaimKind
<1>16. /\ first.kind = "open" /\ first.c = e /\ first.o = state[p].est
       /\ first.cb = new.boss /\ first.ob = old.boss
       /\ first.dp = Delegator[p] /\ first.aess = old.aess
  BY DEF Claim
<1> HIDE DEF first
<1>17. ClaimGood(first)
  BY <1>13, <1>14, <1>15, <1>16 DEF ClaimGood
<1>18. first.cb \in Bosses[first.c] /\ first.ob \in Bosses[first.o]
  BY <1>12, <1>16
<1>19. Beats[<<first.c, first.o>>]
  BY <1>11, <1>16, <1>17, <1>18, SupersedesBeats
<1> QED BY <1>16, <1>19

(* A key state moves only as the decision about one event says.            *)
Moves(e, seal, local, eager, hints, d) ==
    /\ HintsGood(hints) /\ d \in Decide(e, seal, local, eager, hints)
    /\ d.kind = "accept" /\ Accept(e, local, d)

LEMMA StateMoves ==
    ASSUME DelegationInv, [Next]_vars
    PROVE  /\ own' = own
           /\ \/ UNCHANGED <<kels, fels, state>>
              \/ \E e \in Event, seal \in Seal :
                     \E local, eager, hints, d : Moves(e, seal, local, eager, hints, d)
<1>1. CASE Receive
  <2>1. PICK m \in net : \E d \in Decide(m.event, m.seal, m.local, FALSE, aess) :
          /\ own' = own
          /\ \/ d.kind = "accept" /\ Accept(m.event, m.local, d)
             \/ UNCHANGED <<kels, fels, state>>
    BY <1>1 DEF Receive, Learn, Leave, Hold
  <2>2. PICK d \in Decide(m.event, m.seal, m.local, FALSE, aess) :
          /\ own' = own
          /\ \/ d.kind = "accept" /\ Accept(m.event, m.local, d)
             \/ UNCHANGED <<kels, fels, state>>
    BY <2>1
  <2>3. m.event \in Event /\ m.seal \in Seal /\ HintsGood(aess)
    BY DEF DelegationInv, QueuesInv, LogsInv, Message
  <2>4. CASE d.kind = "accept" /\ Accept(m.event, m.local, d)
    <3>1. Moves(m.event, m.seal, m.local, FALSE, aess, d)
      BY <2>2, <2>3, <2>4 DEF Moves
    <3> QED BY <2>2, <2>3, <3>1
  <2>5. CASE UNCHANGED <<kels, fels, state>>
    BY <2>2, <2>5
  <2> QED BY <2>2, <2>4, <2>5
<1>2. CASE Try
  <2>1. PICK row \in due : Replay(row)
    BY <1>2 DEF Try
  <2>2. row \in EscrowKind \X Event /\ (row[1] = "delegables" => Delegated(Ev[row[2]].pre))
    BY DEF DelegationInv, QueuesInv
  <2>3. PICK e \in Event : e = row[2]
    BY <2>2
  <2>4. PICK d \in Retried(row) : own' = own /\ (\/ d.kind = "accept" /\ Accept(e, e \in esrs, d)
                                                 \/ UNCHANGED <<kels, fels, state>>)
    BY <2>1, <2>3 DEF Replay, Learn, Leave, Hold
  <2>5. PICK hints : /\ hints = [aess EXCEPT ![e] = RepairedFor(row[1], e)]
                     /\ d \in Decide(e, IF udes[e] # None THEN udes[e] ELSE hints[e],
                                     e \in esrs, row[1] = "pdes", hints)
    BY <2>3, <2>4 DEF Retried
  <2>6. LogsInv
    BY DEF DelegationInv
  <2>7. HintsGood(hints)
    BY <2>2, <2>3, <2>5, <2>6, RepairedForGood
  <2>8. PICK seal : seal = IF udes[e] # None THEN udes[e] ELSE hints[e]
    OBVIOUS
  <2>9. seal \in Seal
    BY <2>6, <2>7, <2>8 DEF LogsInv, Typed, HintsGood
  <2>10. CASE d.kind = "accept" /\ Accept(e, e \in esrs, d)
    <3>1. PICK local : local = (e \in esrs)
      OBVIOUS
    <3>2. PICK eager : eager = (row[1] = "pdes")
      OBVIOUS
    <3>3. d \in Decide(e, seal, local, eager, hints)
      BY <2>5, <2>8, <3>1, <3>2
    <3>4. Accept(e, local, d)
      BY <2>10, <3>1
    <3>5. Moves(e, seal, local, eager, hints, d)
      BY <2>7, <2>10, <3>3, <3>4 DEF Moves
    <3> QED BY <2>4, <2>9, <3>5
  <2>11. CASE UNCHANGED <<kels, fels, state>>
    BY <2>4, <2>11
  <2> QED BY <2>4, <2>10, <2>11
<1>3. CASE Approve
  BY <1>3 DEF Approve
<1>4. CASE NextEscrow \/ UNCHANGED vars
  BY <1>4 DEF NextEscrow, vars, log
<1> QED BY <1>1, <1>2, <1>3, <1>4 DEF Next

LEMMA StaysEstablished ==
    ASSUME DelegationInv, LastEstablishes, [Next]_vars PROVE LastEstablishes'
<1>1. CASE state' = state
  BY <1>1 DEF LastEstablishes, Establishes
<1>2. CASE \E e \in Event, seal \in Seal :
               \E local, eager, hints, d : Moves(e, seal, local, eager, hints, d)
  <2>1. PICK e \in Event, seal \in Seal :
               \E local, eager, hints, d : Moves(e, seal, local, eager, hints, d)
    BY <1>2
  <2>2. PICK local, eager, hints, d : Moves(e, seal, local, eager, hints, d)
    BY <2>1
  <2>3. Typed /\ LogsAgree
    BY DEF DelegationInv, LogsInv
  <2> QED BY <2>2, <2>3, AcceptedEstablishes DEF Moves
<1> QED BY <1>1, <1>2, StateMoves

(* The last events at the numbers of a log after one more is accepted: only*)
(* at its own number, where a new one is the last.                         *)
LEMMA AcceptedLast ==
    ASSUME Typed, NEW e \in Event, NEW local, NEW d, Accept(e, local, d), NEW p \in Pre
    PROVE  /\ p # Ev[e].pre => LastEvents(p)' = LastEvents(p)
           /\ \A n \in 0..MaxSn : n # Ev[e].sn => LastEvents(p)'[n] = LastEvents(p)[n]
           /\ p = Ev[e].pre /\ e \notin ToSet(kels[p][Ev[e].sn]) =>
                 LastEvents(p)' = [LastEvents(p) EXCEPT ![Ev[e].sn] = e]
<1>1. kels' = [kels EXCEPT ![Ev[e].pre][Ev[e].sn] = AddOnce(@, e)]
  BY DEF Accept
<1>2. kels \in [Pre -> [0..MaxSn -> Seq(Event)]] /\ Ev[e].pre \in Pre /\ Ev[e].sn \in 0..MaxSn
  BY EventFacts DEF Typed
<1>3. ASSUME NEW n \in 0..MaxSn, ~(p = Ev[e].pre /\ n = Ev[e].sn)
      PROVE  LastAt(p, n)' = LastAt(p, n)
  <2>1. kels'[p][n] = kels[p][n]
    BY <1>1, <1>2, <1>3
  <2> QED BY <2>1 DEF LastAt
<1>4. ASSUME p = Ev[e].pre, e \notin ToSet(kels[p][Ev[e].sn])
      PROVE  LastAt(p, Ev[e].sn)' = e
  <2>1. PICK s \in Seq(Event) : s = kels[p][Ev[e].sn]
    BY <1>2, <1>4
  <2>2. kels'[p][Ev[e].sn] = Append(s, e)
    BY <1>1, <1>2, <1>4, <2>1 DEF AddOnce
  <2>3. Append(s, e) # <<>> /\ Append(s, e)[Len(Append(s, e))] = e
    OBVIOUS
  <2>4. Last(Append(s, e)) = e
    BY <2>3 DEF Last
  <2> QED BY <2>2, <2>3, <2>4 DEF LastAt
<1>5. LastEvents(p)' = [n \in 0..MaxSn |-> LastAt(p, n)'] /\ LastEvents(p) = [n \in 0..MaxSn |-> LastAt(p, n)]
  BY DEF LastEvents
<1> QED BY <1>2, <1>3, <1>4, <1>5

(* What follows the head, or takes the place of an event above the last    *)
(* one that may be taken back, is chained to the event before it.          *)
LEMMA ChainGrows ==
    ASSUME NEW at, DOMAIN at = 0..MaxSn, NEW head \in Event, NEW est \in Event, IsChain(at, head, est),
           NEW e \in Event, NEW last \in {e, est},
           \/ Ev[e].sn = Ev[head].sn + 1 /\ Ev[e].prior = head
           \/ /\ Ev[e].sn \in 1..Ev[head].sn
              /\ at[Ev[e].sn - 1] # None /\ at[Ev[e].sn - 1] = Ev[e].prior,
           last # e => Ev[e].sn = Ev[head].sn + 1 /\ Ev[e].ilk = "ixn"
    PROVE  IsChain([at EXCEPT ![Ev[e].sn] = e], e, last)
<1> DEFINE n == Ev[e].sn
           h == Ev[head].sn
           b == Ev[est].sn
           new == [at EXCEPT ![n] = e]
<1>1. MaxSn \in Nat /\ n \in 0..MaxSn /\ h \in 0..MaxSn /\ b \in 0..MaxSn /\ None \notin Event
  BY DelegationAssumption, EventFacts
<1>2. /\ at[h] = head /\ at[b] = est /\ b <= h
      /\ \A m \in 1..h : at[m - 1] # None /\ at[m - 1] = Ev[at[m]].prior
      /\ \A m \in (b + 1)..h : Ev[at[m]].ilk = "ixn"
  BY DEF IsChain
<1>3. n >= 1 /\ n - 1 <= h /\ at[n - 1] # None /\ at[n - 1] = Ev[e].prior
  <2>1. CASE n = h + 1 /\ Ev[e].prior = head
    <3>1. n - 1 = h
      BY <1>1, <2>1
    <3> QED BY <1>1, <1>2, <2>1, <3>1
  <2>2. CASE n \in 1..h /\ at[n - 1] # None /\ at[n - 1] = Ev[e].prior
    BY <1>1, <2>2
  <2> QED BY <2>1, <2>2
<1>4. new[n] = e /\ \A m \in 0..(n - 1) : new[m] = at[m]
  BY <1>1
<1>5. ASSUME NEW m \in 1..n PROVE new[m - 1] # None /\ new[m - 1] = Ev[new[m]].prior
  <2>1. m - 1 \in 0..(n - 1)
    BY <1>1
  <2>2. new[m - 1] = at[m - 1]
    BY <1>4, <2>1
  <2>3. CASE m = n
    BY <1>3, <1>4, <2>2, <2>3
  <2>4. CASE m # n
    <3>1. m \in 0..(n - 1) /\ m \in 1..h
      BY <1>1, <1>3, <2>4
    <3>2. new[m] = at[m]
      BY <1>4, <3>1
    <3> QED BY <1>2, <2>2, <3>1, <3>2
  <2> QED BY <2>3, <2>4
<1>6. CASE last = e
  <2>1. (n + 1)..n = {} /\ n <= n
    BY <1>1
  <2> HIDE DEF new
  <2> QED BY <1>4, <1>5, <1>6, <2>1 DEF IsChain, new
<1>7. CASE last # e
  <2>1. n = h + 1 /\ Ev[e].ilk = "ixn" /\ last = est
    BY <1>7
  <2>2. b \in 0..(n - 1) /\ b <= n
    BY <1>1, <1>2, <2>1
  <2>3. new[b] = est
    BY <1>2, <1>4, <2>2
  <2>4. ASSUME NEW m \in (b + 1)..n PROVE Ev[new[m]].ilk = "ixn"
    <3>1. CASE m = n
      BY <1>4, <2>1, <3>1
    <3>2. CASE m # n
      <4>1. m \in 0..(n - 1) /\ m \in (b + 1)..h
        BY <1>1, <2>1, <3>2
      <4> QED BY <1>2, <1>4, <4>1
    <3> QED BY <3>1, <3>2
  <2> HIDE DEF new
  <2> QED BY <1>4, <1>5, <2>1, <2>2, <2>3, <2>4 DEF IsChain, new
<1> QED BY <1>6, <1>7

(* What a log holds at a number has that number.                           *)
Numbered(p) == \A n \in 0..MaxSn : \A x \in ToSet(kels[p][n]) : Ev[x].sn = n

(* Nothing in the log of an identifier that is not delegated follows its   *)
(* head, or establishes keys after the establishment event it goes by: so  *)
(* that no event is accepted twice.                                        *)
Foremost(p) ==
    \A x \in ToSet(fels[p]) :
        /\ Ev[x].sn > 0 => Ev[x].prior # state[p].said
        /\ Establishes(x) => Ev[x].sn <= Ev[state[p].est].sn

OrderInv ==
    \A p \in Pre :
        /\ Numbered(p) /\ Linked(p) /\ (state[p] = NoState => fels[p] = <<>>)
        /\ ~Delegated(p) => /\ IsInjective(fels[p])
                            /\ state[p] # NoState => Foremost(p)

LEMMA InjectiveAppend ==
    ASSUME NEW s \in Seq(Event), NEW e \in Event
    PROVE  IsInjective(Append(s, e)) <=> IsInjective(s) /\ e \notin ToSet(s)
<1> DEFINE t == Append(s, e)
           k == Len(s)
<1>1. /\ k \in Nat /\ DOMAIN s = 1..k /\ DOMAIN t = 1..(k + 1)
      /\ t[k + 1] = e /\ \A i \in 1..k : t[i] = s[i] /\ i \in 1..(k + 1)
      /\ \A i \in 1..(k + 1) : i \in 1..k \/ i = k + 1
      /\ k + 1 \in 1..(k + 1) /\ k + 1 \notin 1..k
  OBVIOUS
<1> HIDE DEF t, k
<1>2. IsInjective(t) => IsInjective(s)
  BY <1>1 DEF IsInjective
<1>3. IsInjective(t) => e \notin ToSet(s)
  BY <1>1 DEF IsInjective, ToSet
<1>4. IsInjective(s) /\ e \notin ToSet(s) => IsInjective(t)
  BY <1>1 DEF IsInjective, ToSet
<1> QED BY <1>2, <1>3, <1>4 DEF t

(* An accepted event of an identifier that is not delegated is a new one.  *)
LEMMA AcceptedNew ==
    ASSUME Typed, LogsAgree, LastEstablishes, OrderInv, NEW e \in Event, NEW p \in Pre, p = Ev[e].pre,
           ~Delegated(p), NEW seal \in Seal, NEW local, NEW eager, NEW hints, HintsGood(hints),
           NEW d \in Decide(e, seal, local, eager, hints), d.kind = "accept"
    PROVE  e \notin ToSet(fels[p])
<1>1. CASE state[p] = NoState
  <2>1. fels[p] = <<>>
    BY <1>1 DEF OrderInv
  <2> QED BY <2>1 DEF ToSet
<1>2. CASE state[p] # NoState
  <2>1. state[p].said \in Event /\ state[p].est \in Event
    BY <1>2, StateEvents
  <2>2. /\ Ev[e].sn \in 0..MaxSn /\ Ev[state[p].said].sn \in 0..MaxSn /\ Ev[state[p].est].sn \in 0..MaxSn
        /\ MaxSn \in Nat
    BY <2>1, EventFacts, DelegationAssumption
  <2>3. Foremost(p)
    BY <1>2 DEF OrderInv
  <2>4. CASE Ev[e].sn = Ev[state[p].said].sn + 1 /\ Ev[e].prior = state[p].said
    <3>1. Ev[e].sn > 0
      BY <2>2, <2>4
    <3> QED BY <2>3, <2>4, <3>1 DEF Foremost
  <2>5. CASE Ev[e].sn \in 1..Ev[state[p].said].sn
    <3>1. ~(Ev[e].sn <= Ev[state[p].est].sn)
      BY <1>2, <2>2, <2>5, AcceptedFits
    <3>2. Ev[e].ilk # "ixn"
      BY <1>2, <2>2, <2>5, AcceptedFits
    <3>3. Establishes(e)
      BY <3>2, EventFacts DEF Establishes
    <3> QED BY <2>3, <3>1, <3>3 DEF Foremost
  <2> QED BY <1>2, <2>4, <2>5, AcceptedFits
<1> QED BY <1>1, <1>2

(* An accepted event has its number in the log and follows an accepted one.*)
LEMMA AcceptedLinks ==
    ASSUME Typed, LogsAgree, OrderInv, NEW e \in Event, NEW p \in Pre, p = Ev[e].pre,
           NEW seal \in Seal, NEW local, NEW eager, NEW hints, HintsGood(hints),
           NEW d \in Decide(e, seal, local, eager, hints), d.kind = "accept"
    PROVE  Ev[e].sn > 0 => Ev[e].prior \in ToSet(fels[p]) /\ Ev[Ev[e].prior].sn = Ev[e].sn - 1
<1> SUFFICES ASSUME Ev[e].sn > 0
             PROVE  Ev[e].prior \in ToSet(fels[p]) /\ Ev[Ev[e].prior].sn = Ev[e].sn - 1
  OBVIOUS
<1>1. Ev[e].sn \in 0..MaxSn /\ MaxSn \in Nat
  BY EventFacts, DelegationAssumption
<1>2. state[p] # NoState
  BY <1>1, AcceptedFits
<1>3. state[p].said \in Event /\ Ev[state[p].said].sn \in 0..MaxSn /\ state[p].said \in ToSet(fels[p])
  BY <1>2, StateEvents, EventFacts DEF LogsAgree
<1>4. CASE Ev[e].sn = Ev[state[p].said].sn + 1 /\ Ev[e].prior = state[p].said
  <2>1. Ev[state[p].said].sn = Ev[e].sn - 1
    BY <1>1, <1>3, <1>4
  <2> QED BY <1>3, <1>4, <2>1
<1>5. CASE LastAt(p, Ev[e].sn - 1) # None /\ LastAt(p, Ev[e].sn - 1) = Ev[e].prior
  <2> DEFINE n == Ev[e].sn - 1
  <2>1. n \in 0..MaxSn
    BY <1>1
  <2>2. LastAt(p, n) # None /\ LastAt(p, n) = Ev[e].prior
    BY <1>5
  <2> HIDE DEF n
  <2>3. kels[p][n] \in Seq(Event) /\ kels[p][n] # <<>> /\ Ev[e].prior = kels[p][n][Len(kels[p][n])]
    BY <2>1, <2>2 DEF LastAt, Last, Typed
  <2>4. Ev[e].prior \in ToSet(kels[p][n])
    BY <2>3 DEF ToSet
  <2>5. Ev[Ev[e].prior].sn = n /\ Ev[e].prior \in ToSet(fels[p])
    BY <2>1, <2>4 DEF OrderInv, Numbered, LogsAgree
  <2> QED BY <2>5 DEF n
<1> QED BY <1>2, <1>4, <1>5, AcceptedFits

LEMMA AcceptedOrders ==
    ASSUME Typed, LogsAgree, LastEstablishes, OrderInv, NEW e \in Event,
           NEW seal \in Seal, NEW local, NEW eager, NEW hints, HintsGood(hints),
           NEW d \in Decide(e, seal, local, eager, hints), d.kind = "accept", Accept(e, local, d)
    PROVE  OrderInv'
<1>1. PICK p \in Pre : p = Ev[e].pre
  BY EventFacts
<1>2. /\ kels \in [Pre -> [0..MaxSn -> Seq(Event)]] /\ fels \in [Pre -> Seq(Event)]
      /\ state \in [Pre -> [said : Seal, est : Seal]]
      /\ Ev[e].sn \in 0..MaxSn /\ MaxSn \in Nat /\ None \notin Event
  BY EventFacts, DelegationAssumption DEF Typed
<1>3. /\ kels' = [kels EXCEPT ![p][Ev[e].sn] = AddOnce(kels[p][Ev[e].sn], e)]
      /\ fels' = [fels EXCEPT ![p] = Append(fels[p], e)]
      /\ state' = [state EXCEPT ![p] = [said |-> e, est |-> IF Establishes(e) THEN e ELSE state[p].est]]
  BY <1>1, <1>2 DEF Accept
<1>4. /\ kels[p][Ev[e].sn] \in Seq(Event) /\ fels[p] \in Seq(Event)
      /\ ToSet(AddOnce(kels[p][Ev[e].sn], e)) = ToSet(kels[p][Ev[e].sn]) \cup {e}
      /\ fels'[p] = Append(fels[p], e) /\ ToSet(fels'[p]) = ToSet(fels[p]) \cup {e}
  <2>1. kels[p][Ev[e].sn] \in Seq(Event) /\ fels[p] \in Seq(Event)
    BY <1>2
  <2> QED BY <1>2, <1>3, <2>1, Appended, AddedOnce
<1>5. ASSUME NEW q \in Pre, q # p
      PROVE  fels'[q] = fels[q] /\ state'[q] = state[q] /\ kels'[q] = kels[q]
  BY <1>2, <1>3, <1>5
<1>6. state'[p].said = e /\ state'[p].est = (IF Establishes(e) THEN e ELSE state[p].est) /\ state'[p] # NoState
  BY <1>2, <1>3 DEF NoState
<1>7. Numbered(p)'
  <2> SUFFICES ASSUME NEW n \in 0..MaxSn, NEW x \in ToSet(kels'[p][n]) PROVE Ev[x].sn = n
    BY DEF Numbered
  <2>1. CASE n = Ev[e].sn
    <3>1. kels'[p][n] = AddOnce(kels[p][Ev[e].sn], e)
      BY <1>2, <1>3, <2>1
    <3>2. x = e \/ x \in ToSet(kels[p][n])
      BY <1>4, <2>1, <3>1
    <3> QED BY <2>1, <3>2 DEF OrderInv, Numbered
  <2>2. CASE n # Ev[e].sn
    <3>1. kels'[p][n] = kels[p][n]
      BY <1>2, <1>3, <2>2
    <3> QED BY <3>1 DEF OrderInv, Numbered
  <2> QED BY <2>1, <2>2
<1>8. Linked(p)'
  <2>1. Ev[e].sn > 0 => Ev[e].prior \in ToSet(fels[p]) /\ Ev[Ev[e].prior].sn = Ev[e].sn - 1
    BY <1>1, AcceptedLinks
  <2>2. \A x \in ToSet(fels[p]) : Ev[x].sn > 0 =>
            Ev[x].prior \in ToSet(fels[p]) /\ Ev[Ev[x].prior].sn = Ev[x].sn - 1
    BY DEF OrderInv, Linked
  <2> QED BY <1>4, <2>1, <2>2 DEF Linked
<1>9. ASSUME ~Delegated(p) PROVE IsInjective(fels'[p]) /\ Foremost(p)'
  <2>1. e \notin ToSet(fels[p])
    BY <1>1, <1>9, AcceptedNew
  <2>2. IsInjective(fels'[p])
    BY <1>4, <1>9, <2>1, InjectiveAppend DEF OrderInv
  <2>3. \A x \in ToSet(fels'[p]) : x \in Event /\ Ev[x].sn \in 0..MaxSn
    <3>1. ToSet(fels[p]) \subseteq Event
      BY <1>4 DEF ToSet
    <3> QED BY <1>4, <3>1, EventFacts
  <2>4. ASSUME NEW x \in ToSet(fels'[p]), Ev[x].sn > 0 PROVE Ev[x].prior # e
    <3> SUFFICES ASSUME Ev[x].prior = e PROVE FALSE
      OBVIOUS
    <3>1. CASE x = e
      <4>1. Ev[e].sn = Ev[e].sn - 1
        BY <1>8, <2>4, <3>1 DEF Linked
      <4> QED BY <1>2, <4>1
    <3>2. CASE x \in ToSet(fels[p])
      <4>1. e \in ToSet(fels[p])
        BY <2>4, <3>2 DEF OrderInv, Linked
      <4> QED BY <2>1, <4>1
    <3> QED BY <1>4, <3>1, <3>2
  <2>5. ASSUME NEW x \in ToSet(fels'[p]), Establishes(x) PROVE Ev[x].sn <= Ev[state'[p].est].sn
    <3>1. CASE state[p] = NoState
      <4>1. Establishes(e) /\ ToSet(fels[p]) = {}
        BY <1>1, <3>1, AcceptedFits DEF OrderInv, ToSet
      <4>2. x = e
        BY <1>4, <4>1
      <4> QED BY <1>2, <1>6, <4>1, <4>2
    <3>2. CASE state[p] # NoState
      <4>1. state[p].est \in Event /\ state[p].said \in Event
        BY <3>2, StateEvents
      <4>2. Ev[state[p].est].sn \in 0..MaxSn /\ Ev[state[p].said].sn \in 0..MaxSn
        BY <4>1, EventFacts
      <4>3. Ev[state[p].est].sn <= Ev[state[p].said].sn
        BY <3>2 DEF LastEstablishes
      <4>4. Ev[state[p].est].sn <= Ev[e].sn
        <5>1. Ev[e].sn = Ev[state[p].said].sn + 1 \/ Ev[e].sn \in 1..Ev[state[p].said].sn
          BY <1>1, <3>2, AcceptedFits
        <5>2. Ev[e].sn <= Ev[state[p].said].sn => ~(Ev[e].sn <= Ev[state[p].est].sn)
          BY <1>1, <1>9, <3>2, AcceptedFits
        <5> QED BY <1>2, <4>2, <4>3, <5>1, <5>2
      <4>5. x \in ToSet(fels[p]) => Ev[x].sn <= Ev[state[p].est].sn
        BY <1>9, <2>5, <3>2 DEF OrderInv, Foremost
      <4> QED BY <1>2, <1>4, <1>6, <2>3, <2>5, <4>2, <4>4, <4>5
    <3> QED BY <3>1, <3>2
  <2> QED BY <1>6, <2>2, <2>4, <2>5 DEF Foremost, Establishes
<1> SUFFICES ASSUME NEW q \in Pre
             PROVE  /\ Numbered(q)' /\ Linked(q)' /\ (state'[q] = NoState => fels'[q] = <<>>)
                    /\ ~Delegated(q) => /\ IsInjective(fels'[q])
                                        /\ state'[q] # NoState => Foremost(q)'
  BY DEF OrderInv, NoState, Delegated
<1>10. CASE q = p
  BY <1>6, <1>7, <1>8, <1>9, <1>10
<1>11. CASE q # p
  <2>1. fels'[q] = fels[q] /\ state'[q] = state[q] /\ kels'[q] = kels[q]
    BY <1>5, <1>11
  <2> QED BY <2>1 DEF OrderInv, Numbered, Linked, Foremost, Establishes
<1> QED BY <1>10, <1>11

LEMMA AcceptedChains ==
    ASSUME Typed, LogsAgree, LastEstablishes, OrderInv, ChainStands, OrderInv', NEW e \in Event,
           NEW seal \in Seal, NEW local, NEW eager, NEW hints, HintsGood(hints),
           NEW d \in Decide(e, seal, local, eager, hints), d.kind = "accept", Accept(e, local, d)
    PROVE  ChainStands'
<1> SUFFICES ASSUME NEW q \in Pre, state'[q] # NoState, Delegated(q) => IsInjective(fels'[q])
             PROVE  IsChain(LastEvents(q)', state'[q].said, state'[q].est)
  <2>1. \A q \in Pre : Linked(q)'
    BY DEF OrderInv
  <2> QED BY <2>1 DEF ChainStands, IsChain, Delegated
<1>1. PICK p \in Pre : p = Ev[e].pre
  BY EventFacts
<1>2. state' = [state EXCEPT ![p] = [said |-> e, est |-> IF Establishes(e) THEN e ELSE state[p].est]]
  BY <1>1 DEF Accept
<1>3. state \in [Pre -> [said : Seal, est : Seal]] /\ fels \in [Pre -> Seq(Event)]
  BY DEF Typed
<1>4. fels' = [fels EXCEPT ![p] = Append(fels[p], e)]
  BY <1>1 DEF Accept
<1>5. CASE q # p
  <2>1. state'[q] = state[q] /\ LastEvents(q)' = LastEvents(q) /\ fels'[q] = fels[q]
    BY <1>1, <1>2, <1>3, <1>4, <1>5, AcceptedLast
  <2> QED BY <2>1 DEF ChainStands
<1>6. ASSUME q = p PROVE /\ Delegated(p) => IsInjective(fels[p])
                         /\ LastEvents(p)' = [LastEvents(p) EXCEPT ![Ev[e].sn] = e]
  <2>1. fels'[p] = Append(fels[p], e) /\ fels[p] \in Seq(Event)
    BY <1>3, <1>4
  <2>2. (Delegated(p) => IsInjective(fels[p])) /\ e \notin ToSet(fels[p])
    <3>1. CASE Delegated(p)
      BY <1>6, <2>1, <3>1, InjectiveAppend
    <3>2. CASE ~Delegated(p)
      BY <1>1, <3>2, AcceptedNew
    <3> QED BY <3>1, <3>2
  <2>3. e \notin ToSet(kels[p][Ev[e].sn])
    <3>1. Ev[e].sn \in 0..MaxSn
      BY EventFacts
    <3>2. ToSet(kels[p][Ev[e].sn]) \subseteq ToSet(fels[p])
      BY <3>1 DEF LogsAgree
    <3> QED BY <2>2, <3>2
  <2> QED BY <1>1, <2>2, <2>3, AcceptedLast
<1>7. CASE q = p /\ state[p] = NoState
  <2>1. Establishes(e) /\ Ev[e].sn = 0
    BY <1>1, <1>7, AcceptedFits
  <2>2. state'[q].said = e /\ state'[q].est = e
    BY <1>2, <1>3, <1>7, <2>1
  <2>3. LastEvents(q)'[0] = e
    BY <1>6, <1>7, <2>1, DelegationAssumption DEF LastEvents
  <2> QED BY <2>1, <2>2, <2>3 DEF IsChain
<1>8. CASE q = p /\ state[p] # NoState
  <2> DEFINE head == state[p].said
             est == state[p].est
             at == LastEvents(p)
             last == IF Establishes(e) THEN e ELSE est
  <2>1. /\ head \in Event /\ est \in Event /\ IsChain(at, head, est)
        /\ state'[q].said = e /\ state'[q].est = last
    BY <1>2, <1>3, <1>6, <1>8, StateEvents DEF ChainStands
  <2>2. DOMAIN at = 0..MaxSn /\ \A n \in 0..MaxSn : at[n] = LastAt(p, n)
    BY DEF LastEvents
  <2>3. Ev[e].sn \in 0..MaxSn /\ Ev[head].sn \in 0..MaxSn /\ MaxSn \in Nat
    BY <2>1, EventFacts, DelegationAssumption
  <2>4. \/ Ev[e].sn = Ev[head].sn + 1 /\ Ev[e].prior = head
        \/ /\ Ev[e].sn \in 1..Ev[head].sn
           /\ LastAt(p, Ev[e].sn - 1) # None /\ LastAt(p, Ev[e].sn - 1) = Ev[e].prior
    BY <1>1, <1>8, AcceptedFits
  <2>5. \/ Ev[e].sn = Ev[head].sn + 1 /\ Ev[e].prior = head
        \/ /\ Ev[e].sn \in 1..Ev[head].sn
           /\ at[Ev[e].sn - 1] # None /\ at[Ev[e].sn - 1] = Ev[e].prior
    <3>1. Ev[e].sn \in 1..Ev[head].sn => Ev[e].sn - 1 \in 0..MaxSn
      BY <2>3
    <3> HIDE DEF at
    <3> QED BY <2>2, <2>4, <3>1
  <2>6. last # e => Ev[e].sn = Ev[head].sn + 1 /\ Ev[e].ilk = "ixn"
    <3> SUFFICES ASSUME ~Establishes(e) PROVE Ev[e].sn = Ev[head].sn + 1 /\ Ev[e].ilk = "ixn"
      OBVIOUS
    <3>1. Ev[e].ilk = "ixn"
      BY EventFacts DEF Establishes
    <3> QED BY <1>1, <1>8, <3>1, AcceptedFits
  <2> HIDE DEF at, head, est, last
  <2>7. IsChain([at EXCEPT ![Ev[e].sn] = e], e, last)
    BY <2>1, <2>2, <2>5, <2>6, ChainGrows DEF last
  <2> QED BY <1>6, <1>8, <2>1, <2>7 DEF at
<1> QED BY <1>5, <1>7, <1>8

ChainInv == LastEstablishes /\ OrderInv /\ ChainStands

LEMMA StaysChained ==
    ASSUME DelegationInv, ChainInv, [Next]_vars PROVE ChainInv'
<1> USE DEF ChainInv
<1>1. LastEstablishes'
  BY StaysEstablished
<1>2. CASE UNCHANGED <<kels, fels, state>>
  <2>1. \A p \in Pre : LastEvents(p)' = LastEvents(p)
    BY <1>2 DEF LastEvents, LastAt
  <2>2. OrderInv'
    BY <1>2 DEF OrderInv, Numbered, Linked, Foremost, Establishes, Delegated, NoState
  <2>3. ChainStands'
    BY <1>2, <2>1 DEF ChainStands, IsChain, Linked, Delegated
  <2> QED BY <1>1, <2>2, <2>3
<1>3. CASE \E e \in Event, seal \in Seal :
               \E local, eager, hints, d : Moves(e, seal, local, eager, hints, d)
  <2>1. PICK e \in Event, seal \in Seal :
               \E local, eager, hints, d : Moves(e, seal, local, eager, hints, d)
    BY <1>3
  <2>2. PICK local, eager, hints, d : Moves(e, seal, local, eager, hints, d)
    BY <2>1
  <2>3. Typed /\ LogsAgree
    BY DEF DelegationInv, LogsInv
  <2>4. OrderInv'
    BY <2>2, <2>3, AcceptedOrders DEF Moves
  <2>5. ChainStands'
    BY <2>2, <2>3, <2>4, AcceptedChains DEF Moves
  <2> QED BY <1>1, <2>4, <2>5
<1> QED BY <1>2, <1>3, StateMoves

(* What is accepted is above the last establishment event or, delegated, in*)
(* its place.                                                              *)
LEMMA StepStays ==
    ASSUME DelegationInv, LastEstablishes, [Next]_vars PROVE BelowEstStays
<1> SUFFICES ASSUME NEW p \in Pre, state[p] # NoState, NEW n \in 0..Ev[state[p].est].sn,
                    ~Delegated(p) \/ n < Ev[state[p].est].sn
             PROVE  LastEvents(p)'[n] = LastEvents(p)[n]
  BY DEF BelowEstStays
<1>1. CASE UNCHANGED <<kels, fels, state>>
  <2>1. LastEvents(p)' = LastEvents(p)
    BY <1>1 DEF LastEvents, LastAt
  <2> QED BY <2>1
<1>2. CASE \E e \in Event, seal \in Seal :
               \E local, eager, hints, d : Moves(e, seal, local, eager, hints, d)
  <2>1. PICK e \in Event, seal \in Seal :
               \E local, eager, hints, d : Moves(e, seal, local, eager, hints, d)
    BY <1>2
  <2>2. PICK local, eager, hints, d : Moves(e, seal, local, eager, hints, d)
    BY <2>1
  <2>3. Typed /\ LogsAgree
    BY DEF DelegationInv, LogsInv
  <2>4. /\ p # Ev[e].pre => LastEvents(p)' = LastEvents(p)
        /\ \A m \in 0..MaxSn : m # Ev[e].sn => LastEvents(p)'[m] = LastEvents(p)[m]
    BY <2>2, <2>3, AcceptedLast DEF Moves
  <2>5. CASE p # Ev[e].pre
    BY <2>4, <2>5
  <2>6. CASE p = Ev[e].pre
    <3> DEFINE head == state[p].said
               est == state[p].est
    <3>1. head \in Event /\ est \in Event
      BY <2>3, StateEvents
    <3>2. /\ Ev[head].sn \in 0..MaxSn /\ Ev[est].sn \in 0..MaxSn /\ Ev[e].sn \in 0..MaxSn
          /\ MaxSn \in Nat
      BY <3>1, EventFacts, DelegationAssumption
    <3>3. Ev[est].sn <= Ev[head].sn
      BY DEF LastEstablishes
    <3>4. /\ Ev[e].sn = Ev[head].sn + 1 \/ Ev[e].sn <= Ev[head].sn
          /\ Ev[e].sn <= Ev[head].sn =>
                /\ ~(Ev[e].sn < Ev[est].sn)
                /\ ~Delegated(p) => ~(Ev[e].sn <= Ev[est].sn)
      <4>1. \/ Ev[e].sn = Ev[head].sn + 1
            \/ Ev[e].sn \in 1..Ev[head].sn
        BY <2>2, <2>3, <2>6, AcceptedFits DEF Moves
      <4>2. Ev[e].sn <= Ev[head].sn =>
                /\ ~(Ev[e].sn < Ev[est].sn)
                /\ ~Delegated(p) => ~(Ev[e].sn <= Ev[est].sn)
        BY <2>2, <2>3, <2>6, AcceptedFits DEF Moves
      <4> QED BY <3>2, <4>1, <4>2
    <3>5. n # Ev[e].sn /\ n \in 0..MaxSn
      BY <3>2, <3>3, <3>4
    <3> QED BY <2>4, <3>5
  <2> QED BY <2>5, <2>6
<1> QED BY <1>1, <1>2, StateMoves

StandingGivesWay ==
    \A p \in Pre \ own : Delegated(p) /\ state[p] # NoState /\ state'[p] # NoState
        /\ state'[p].est # state[p].est /\ Rivals(state'[p].est, state[p].est)
        => state'[p].est \in Stronger[state[p].est]

LEMMA StepGivesWay ==
    ASSUME DelegationInv, LastEstablishes, [Next]_vars PROVE StandingGivesWay
<1> SUFFICES ASSUME NEW p \in Pre \ own, Delegated(p), state[p] # NoState, state'[p] # NoState,
                    state'[p].est # state[p].est, Rivals(state'[p].est, state[p].est)
             PROVE  state'[p].est \in Stronger[state[p].est]
  BY DEF StandingGivesWay
<1>1. PICK e \in Event, seal \in Seal :
               \E local, eager, hints, d : Moves(e, seal, local, eager, hints, d)
  BY StateMoves
<1>2. PICK local, eager, hints, d : Moves(e, seal, local, eager, hints, d)
  BY <1>1
<1>3. Typed /\ LogsAgree /\ state \in [Pre -> [said : Seal, est : Seal]]
  BY DEF DelegationInv, LogsInv, Typed
<1>4. PICK q \in Pre : q = Ev[e].pre
  BY EventFacts
<1>5. state' = [state EXCEPT ![q] = [said |-> e, est |-> IF Establishes(e) THEN e ELSE state[q].est]]
  BY <1>2, <1>4 DEF Moves, Accept
<1>6. q = p /\ Establishes(e) /\ state'[p].est = e
  BY <1>3, <1>5
<1>7. Ev[e].sn = Ev[state[p].est].sn
  BY <1>6 DEF Rivals
<1>8. Beats[<<e, state[p].est>>]
  BY <1>2, <1>3, <1>4, <1>6, <1>7, AcceptedBeats DEF Moves
<1>9. state[p].est \in Event
  BY <1>3, StateEvents
<1> QED BY <1>6, <1>8, <1>9 DEF Stronger

------------------------------------------------------------------------------
(* The theorems *)

(***************************************************************************)
(* validateDelegation: an establishment event of a delegated identifier of *)
(* another node stands in its log only when an accepted event of its       *)
(* delegator anchors it, for every set of events, delegators and messages, *)
(* whatever seals they carry and whatever the habitats of the node.        *)
(***************************************************************************)
THEOREM DelegatesAreAnchored == Spec => []DelegatedAnchored
<1>1. DelegationInv => DelegatedAnchored
  BY DEF DelegationInv, LogsInv
<1> QED BY <1>1, DelegationInvariant, PTL

(***************************************************************************)
(* repairAnchoredDelegationSourceSeals, repairEscrowDelegationSourceSeal,  *)
(* logEvent and performDelegationApproval keep as the source seal of an    *)
(* event only the name of an accepted event of its delegator with its seal.*)
(***************************************************************************)
THEOREM KeptSealsNameAnchors == Spec => []SealsNameAnchors
<1>1. DelegationInv => SealsNameAnchors
  BY DEF DelegationInv, LogsInv, HintsGood, Approves, SealsNameAnchors
<1> QED BY <1>1, DelegationInvariant, PTL

(***************************************************************************)
(* validateDelegatedRecovery: a rotation of another node's delegate gives  *)
(* way to one with its number only when the approval of that one beats its *)
(* own: later in the delegator's log, by a later seal of one event, or by  *)
(* an event that itself beats the other approval, up through any number of *)
(* delegators.                                                             *)
(***************************************************************************)
THEOREM RotationsGiveWay == Spec => GivesWayToStronger
<1>1. Init => LastEstablishes
  BY DEF Init, Blank, LastEstablishes
<1>2. Spec => [](DelegationInv /\ LastEstablishes)
  <2>1. DelegationInv /\ LastEstablishes /\ [Next]_vars => (DelegationInv /\ LastEstablishes)'
    BY NextKeeps, StaysEstablished
  <2>2. Init => DelegationInv /\ LastEstablishes
    BY <1>1, InitKeeps
  <2> QED BY <2>1, <2>2, PTL DEF Spec
<1>3. DelegationInv /\ LastEstablishes /\ [Next]_vars => [StandingGivesWay]_vars
  BY StepGivesWay
<1>4. Spec => [][StandingGivesWay]_vars
  BY <1>2, <1>3, PTL DEF Spec
<1> QED BY <1>4 DEF GivesWayToStronger, StandingGivesWay

(***************************************************************************)
(* evaluateRotation, evaluateInteraction, logEvent: whatever recoveries    *)
(* the logs of an identifier and of its delegators go through, in whatever *)
(* order their events come, every accepted event follows an accepted one,  *)
(* and the log up to the head of the key state is one chain of priors from *)
(* the inception, whose last establishment event the state goes by: of     *)
(* every identifier that is not delegated, which accepts no event twice,   *)
(* and of a delegated one for as long as it has not either.                *)
(***************************************************************************)
THEOREM LogsStayChained == Spec => []ChainStands
<1>1. Init => DelegationInv /\ ChainInv
  <2>1. Init => LastEstablishes /\ ChainStands
    BY DEF Init, Blank, LastEstablishes, ChainStands
  <2>2. Init => OrderInv
    BY DEF Init, Blank, OrderInv, Numbered, Linked, IsInjective, ToSet
  <2> QED BY <2>1, <2>2, InitKeeps DEF ChainInv
<1>2. DelegationInv /\ ChainInv /\ [Next]_vars => (DelegationInv /\ ChainInv)'
  BY NextKeeps, StaysChained
<1>3. ChainInv => ChainStands
  BY DEF ChainInv
<1> QED BY <1>1, <1>2, <1>3, PTL DEF Spec

(***************************************************************************)
(* evaluateRotation: whatever is accepted, of whoever's and even again,    *)
(* leaves the log below the last establishment event as it is, and with it *)
(* that event when the identifier is not delegated.                        *)
(***************************************************************************)
THEOREM BelowEstablishedStays == Spec => EstablishedStays
<1>1. Init => DelegationInv /\ LastEstablishes
  <2>1. Init => LastEstablishes
    BY DEF Init, Blank, LastEstablishes
  <2> QED BY <2>1, InitKeeps
<1>2. DelegationInv /\ LastEstablishes /\ [Next]_vars => (DelegationInv /\ LastEstablishes)'
  BY NextKeeps, StaysEstablished
<1>3. DelegationInv /\ LastEstablishes /\ [Next]_vars => [BelowEstStays]_vars
  BY StepStays
<1> QED BY <1>1, <1>2, <1>3, PTL DEF Spec, EstablishedStays
===============================================================================
