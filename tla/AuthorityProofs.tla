---------------------------- MODULE AuthorityProofs ----------------------------
(***************************************************************************)
(* Proofs about the authority of what is accepted.  The key state is what  *)
(* the chain of priors below its head gives (StateGoverned), so what an    *)
(* event is checked against when it is accepted is what its own chain puts *)
(* in force; and what it was checked with stays stored.                    *)
(***************************************************************************)
EXTENDS StoreProofs, FiniteSetTheorems

------------------------------------------------------------------------------
(* What acceptance checked *)

(* What governs an event that comes upon a key state, and what follows.    *)
GovOf(ks, e) ==
    LET b == Ev[e] IN
    IF b.ilk = "icp" THEN Governing(b.keys, b.kt, b.backs, b.toad)
    ELSE IF b.ilk = "rot"
    THEN Governing(b.keys, b.kt, RotatedWitnesses(ks.wits, b.cuts, b.adds), b.toad)
    ELSE Governing(ks.keys, ks.kt, ks.wits, ks.toad)

StateAfter(ks, e) ==
    IF Ev[e].ilk = "icp" THEN InitialKeyState(e)
    ELSE IF Ev[e].ilk = "rot" THEN RotatedKeyState(ks, e) ELSE InteractedKeyState(ks, e)

Placed(ks, e) ==
    \/ Ev[e].ilk = "icp"
    \/ ks # NoState /\ (Follows(ks, e) \/ (Ev[e].ilk = "rot" /\ Recovers(ks, e)))

Checked(ks, e, in, d) ==
    LET p == Ev[e].pre
        gov == GovOf(ks, e)
    IN
    /\ d.sigers = VerifiedSigers(Counted(p, gov.keys, in), gov.keys)
    /\ d.wigers = VerifiedSigers(in.wigers, gov.wits)
    /\ SatisfiesTholder(gov.kt, Indices(d.sigers))
    /\ Ev[e].ilk = "rot" => SatisfiesTholder(ks.nt, Exposed(d.sigers, ks.nkeys))
    /\ LocallyOwned(p) \/ LocallyWitnessed(gov.wits) => in.local
    /\ \/ gov.wits = <<>> /\ gov.toad = 0
       \/ LocallyOwned(p) \/ LocallyMembered(p) \/ LocallyWitnessed(gov.wits)
       \/ ~(WitnessesCounted(in.wigers, gov.wits) < gov.toad)

(* What validateAttachments checked of what it accepts.                    *)
LEMMA AttachmentChecks ==
    ASSUME NEW ks, NEW e, NEW in, NEW nextKeys, NEW nextTholder, NEW next, NEW lst,
           Ev[e].ilk = "rot" => nextKeys = ks.nkeys /\ nextTholder = ks.nt
    PROVE  LET d == AttachmentDecision(e, GovOf(ks, e), nextKeys, nextTholder, in, next, lst) IN
           /\ d.kind = "accept" => d.state = next /\ d.wits = lst /\ Checked(ks, e, in, d)
           /\ d.wits \in {<<>>, lst, GovOf(ks, e).wits}
           /\ d.kind # "duplicate"
<1> DEFINE gov == GovOf(ks, e)
           d == AttachmentDecision(e, gov, nextKeys, nextTholder, in, next, lst)
           v == AttachmentVerdict(e, gov, nextKeys, nextTholder, in)
           good == VerifiedSigers(Counted(Ev[e].pre, gov.keys, in), gov.keys)
<1>1. v \in {"accept", "reject", "misfit", "partialSigs", "partialWigs"}
  BY DEF AttachmentVerdict
<1>2. CASE v = "reject"
  <2>1. d = Reject
    BY <1>2 DEF AttachmentDecision
  <2> QED BY <2>1 DEF Reject, Decision
<1>3. CASE v \in {"misfit", "partialSigs", "partialWigs"}
  <2>1. d = Escrow(v, in, gov.wits)
    BY <1>3 DEF AttachmentDecision
  <2> QED BY <1>3, <2>1 DEF Escrow, Decision
<1>4. CASE v = "accept"
  <2>1. d = Accept(next, good, VerifiedSigers(in.wigers, gov.wits), lst)
    BY <1>4 DEF AttachmentDecision
  <2>2. /\ d.kind = "accept" /\ d.state = next /\ d.wits = lst /\ d.sigers = good
        /\ d.wigers = VerifiedSigers(in.wigers, gov.wits)
    BY <2>1 DEF Accept, Decision
  <2> HIDE DEF gov
  <2>3. /\ SatisfiesTholder(gov.kt, Indices(good))
        /\ Ev[e].ilk = "rot" => SatisfiesTholder(nextTholder, Exposed(good, nextKeys))
        /\ LocallyOwned(Ev[e].pre) \/ LocallyWitnessed(gov.wits) => in.local
        /\ \/ gov.wits = <<>> /\ gov.toad = 0
           \/ LocallyOwned(Ev[e].pre) \/ LocallyMembered(Ev[e].pre) \/ LocallyWitnessed(gov.wits)
           \/ ~(WitnessesCounted(in.wigers, gov.wits) < gov.toad)
    BY <1>4 DEF AttachmentVerdict, ExposesNext
  <2> QED BY <2>2, <2>3 DEF Checked, gov
<1> QED BY <1>1, <1>2, <1>3, <1>4

(***************************************************************************)
(* decideEvent: what it accepts was checked against what governs it, and   *)
(* the list it stores with an event is the one stored before, none, or the *)
(* one that governs an event that has its place.                           *)
(***************************************************************************)
LEMMA DecisionChecks ==
    ASSUME NEW e \in Event, NEW in
    PROVE  LET d == DecideEvent(e, in)
               ks == kevers[Ev[e].pre]
           IN
           /\ d.kind = "accept" =>
                 /\ Placed(ks, e) /\ d.state = StateAfter(ks, e) /\ Checked(ks, e, in, d)
                 /\ Establishment(e) => d.wits = GovOf(ks, e).wits
           /\ \/ d.wits \in {<<>>, wits[e]}
              \/ Placed(ks, e) /\ d.wits = GovOf(ks, e).wits
<1> DEFINE d == DecideEvent(e, in)
           ks == kevers[Ev[e].pre]
           b == Ev[e]
           Fine(x) == /\ x.kind = "accept" =>
                           /\ Placed(ks, e) /\ x.state = StateAfter(ks, e) /\ Checked(ks, e, in, x)
                           /\ Establishment(e) => x.wits = GovOf(ks, e).wits
                      /\ \/ x.wits \in {<<>>, wits[e]}
                         \/ Placed(ks, e) /\ x.wits = GovOf(ks, e).wits
<1>1. Fine(Reject) /\ Fine(Escrow("ooo", in, <<>>)) /\ Fine(Escrow("duplicitous", in, <<>>))
  BY DEF Reject, Escrow, Decision
<1>2. Fine(DuplicateDecision(ks, e, in))
  BY DEF DuplicateDecision, Decision
<1>3. ASSUME b.ilk = "icp" PROVE Fine(EvaluateInception(e, in))
  <2> DEFINE x == AttachmentDecision(e, GovOf(ks, e), b.nkeys, b.nt, in, InitialKeyState(e), b.backs)
  <2>1. GovOf(ks, e) = Governing(b.keys, b.kt, b.backs, b.toad) /\ GovOf(ks, e).wits = b.backs
    BY <1>3 DEF GovOf, Governing
  <2>2. /\ x.kind = "accept" => x.state = InitialKeyState(e) /\ x.wits = b.backs /\ Checked(ks, e, in, x)
        /\ x.wits \in {<<>>, b.backs, GovOf(ks, e).wits}
    BY <1>3, AttachmentChecks
  <2>3. EvaluateInception(e, in) \in {Reject, x}
    BY <2>1 DEF EvaluateInception
  <2>4. Placed(ks, e) /\ StateAfter(ks, e) = InitialKeyState(e)
    BY <1>3 DEF Placed, StateAfter
  <2> HIDE DEF x
  <2>5. Fine(x)
    BY <2>1, <2>2, <2>4
  <2> QED BY <1>1, <2>3, <2>5
<1>4. ASSUME b.ilk = "rot", ks # NoState PROVE Fine(EvaluateRotation(ks, e, in))
  <2> DEFINE n == RotatedKeyState(ks, e)
             x == AttachmentDecision(e, GovOf(ks, e), ks.nkeys, ks.nt, in, n, n.wits)
  <2>1. GovOf(ks, e) = Governing(b.keys, b.kt, n.wits, b.toad) /\ GovOf(ks, e).wits = n.wits
    BY <1>4 DEF GovOf, Governing, RotatedKeyState
  <2>2. /\ x.kind = "accept" => x.state = n /\ x.wits = n.wits /\ Checked(ks, e, in, x)
        /\ x.wits \in {<<>>, n.wits, GovOf(ks, e).wits}
    BY AttachmentChecks
  <2>3. \/ EvaluateRotation(ks, e, in) \in {Reject, Escrow("ooo", in, <<>>)}
        \/ Placed(ks, e) /\ EvaluateRotation(ks, e, in) = x
    BY <1>4, <2>1 DEF EvaluateRotation, Placed
  <2>4. StateAfter(ks, e) = n
    BY <1>4 DEF StateAfter
  <2> HIDE DEF x, n
  <2>5. Placed(ks, e) => Fine(x)
    BY <2>1, <2>2, <2>4
  <2> QED BY <1>1, <2>3, <2>5
<1>5. ASSUME b.ilk = "ixn", ks # NoState PROVE Fine(EvaluateInteraction(ks, e, in))
  <2> DEFINE n == InteractedKeyState(ks, e)
             x == AttachmentDecision(e, GovOf(ks, e), ks.nkeys, ks.nt, in, n, <<>>)
  <2>1. GovOf(ks, e) = Governing(ks.keys, ks.kt, ks.wits, ks.toad) /\ ~Establishment(e)
    BY <1>5 DEF GovOf, Establishment
  <2>2. /\ x.kind = "accept" => x.state = n /\ x.wits = <<>> /\ Checked(ks, e, in, x)
        /\ x.wits \in {<<>>, GovOf(ks, e).wits}
    BY AttachmentChecks
  <2>3. \/ EvaluateInteraction(ks, e, in) \in {Reject, Escrow("ooo", in, <<>>)}
        \/ Placed(ks, e) /\ EvaluateInteraction(ks, e, in) = x
    BY <1>5, <2>1 DEF EvaluateInteraction, Placed
  <2>4. StateAfter(ks, e) = n
    BY <1>5 DEF StateAfter
  <2> HIDE DEF x, n
  <2>5. Placed(ks, e) => Fine(x)
    BY <2>1, <2>2, <2>4
  <2> QED BY <1>1, <2>3, <2>5
<1>6. ASSUME ks # NoState PROVE Fine(EvaluateUpdate(ks, e, in))
  <2>1. EvaluateUpdate(ks, e, in) = Reject
        \/ (b.ilk = "rot" /\ EvaluateUpdate(ks, e, in) = EvaluateRotation(ks, e, in))
        \/ (b.ilk = "ixn" /\ EvaluateUpdate(ks, e, in) = EvaluateInteraction(ks, e, in))
    BY DEF EvaluateUpdate
  <2> HIDE DEF Fine
  <2> QED BY <1>1, <1>4, <1>5, <1>6, <2>1
<1>7. Fine(d)
  <2> HIDE DEF Fine
  <2> QED BY <1>1, <1>2, <1>3, <1>6 DEF DecideEvent
<1> QED BY <1>7

------------------------------------------------------------------------------
(* What governs an event that has its place *)

(* The key state is what its last establishment event put in force, and    *)
(* that event governs the chain from it to the head.                       *)
GovernedAt(p) ==
    LET ks == states[p]
        est == Ev[ks.est.d]
    IN
    /\ ks.est.d \in Event /\ est.sn = ks.est.s
    /\ ks.keys = est.keys /\ ks.kt = est.kt /\ ks.toad = est.toad
    /\ ks.nkeys = est.nkeys /\ ks.nt = est.nt
    /\ \A n \in ks.est.s..ks.s :
          /\ LastAt(p, n) \in Event
          /\ GovEst[LastAt(p, n)] = ks.est.d
          /\ GovWits[LastAt(p, n)] = ks.wits

StateGoverned == \A p \in Pre : states[p] # NoState => GovernedAt(p)

LEMMA PriorGoverned ==
    ASSUME ChainInv, StateGoverned, NEW e \in Event, NEW ks, ks = states[Ev[e].pre],
           ks # NoState, Follows(ks, e) \/ Recovers(ks, e)
    PROVE  LET x == Ev[e].prior IN
           /\ x \in Event /\ GovEst[x] = ks.est.d /\ GovWits[x] = ks.wits
           /\ x = LastAt(Ev[e].pre, Ev[e].sn - 1)
           /\ Ev[e].sn - 1 \in ks.est.s..ks.s
<1> DEFINE p == Ev[e].pre
<1>1. p \in Pre /\ Ev[e].sn \in Nat
  BY BodyFacts
<1>2. ks.s \in Nat /\ ks.est.s \in Nat /\ ks.est.s <= ks.s /\ LastAt(p, ks.s) = ks.d
  BY <1>1, BodyFacts DEF ChainInv, LogInv, LogTypeOK, IsHead, HeadIsLast, KelChain
<1>3. Ev[e].prior = LastAt(p, Ev[e].sn - 1) /\ Ev[e].sn - 1 \in ks.est.s..ks.s
  <2>1. CASE Follows(ks, e)
    BY <1>1, <1>2, <2>1 DEF Follows
  <2>2. CASE Recovers(ks, e)
    BY <1>1, <1>2, <2>2 DEF Recovers
  <2> QED BY <2>1, <2>2
<1> QED BY <1>1, <1>3 DEF StateGoverned, GovernedAt

(* What it is checked against is what its own chain puts in force.         *)
LEMMA PlacedGoverned ==
    ASSUME ChainInv, StateGoverned, NEW e \in Event, NEW ks, ks = states[Ev[e].pre],
           Placed(ks, e)
    PROVE  LET gov == GovOf(ks, e)
               est == Ev[GovEst[e]]
           IN
           /\ gov.wits = GovWits[e] /\ gov.keys = est.keys /\ gov.kt = est.kt
           /\ gov.toad = est.toad
           /\ Ev[e].ilk = "rot" => LET before == Ev[GovEst[Ev[e].prior]] IN
                                   ks.nkeys = before.nkeys /\ ks.nt = before.nt
<1>1. /\ Ev[e].pre \in Pre /\ NoEvent \notin Event /\ Ev[e].ilk \in {"icp", "rot", "ixn"}
  BY BodyFacts, EventAssumption DEF Ilk
<1>2. CASE Ev[e].ilk = "icp"
  <2>1. GovEst[e] = e /\ GovWits[e] = Ev[e].backs
    BY <1>2, GovEstUnfolds, GovWitsUnfolds DEF Establishment
  <2> QED BY <1>2, <2>1 DEF GovOf, Governing
<1>3. CASE Ev[e].ilk = "rot"
  <2>1. /\ Ev[e].prior \in Event /\ GovEst[Ev[e].prior] = ks.est.d
        /\ GovWits[Ev[e].prior] = ks.wits /\ ks # NoState
    BY <1>3, PriorGoverned DEF Placed
  <2>2. /\ GovEst[e] = e
        /\ GovWits[e] = RotatedWitnesses(ks.wits, Ev[e].cuts, Ev[e].adds)
    BY <1>1, <1>3, <2>1, GovEstUnfolds, GovWitsUnfolds DEF Establishment
  <2>3. ks.nkeys = Ev[ks.est.d].nkeys /\ ks.nt = Ev[ks.est.d].nt
    BY <1>1, <2>1 DEF StateGoverned, GovernedAt
  <2> QED BY <1>3, <2>1, <2>2, <2>3 DEF GovOf, Governing
<1>4. CASE Ev[e].ilk = "ixn"
  <2>1. /\ Ev[e].prior \in Event /\ GovEst[Ev[e].prior] = ks.est.d
        /\ GovWits[Ev[e].prior] = ks.wits /\ ks # NoState
    BY <1>4, PriorGoverned DEF Placed
  <2>2. GovEst[e] = ks.est.d /\ GovWits[e] = ks.wits
    BY <1>1, <1>4, <2>1, GovEstUnfolds, GovWitsUnfolds DEF Establishment
  <2>3. /\ ks.keys = Ev[ks.est.d].keys /\ ks.kt = Ev[ks.est.d].kt
        /\ ks.toad = Ev[ks.est.d].toad
    BY <1>1, <2>1 DEF StateGoverned, GovernedAt
  <2> QED BY <1>4, <2>2, <2>3 DEF GovOf, Governing
<1> QED BY <1>1, <1>2, <1>3, <1>4

------------------------------------------------------------------------------
(* Steps *)

(***************************************************************************)
(* The invariant.  A witness list stored with an event is the one its own  *)
(* chain puts in force, and is stored with each accepted establishment     *)
(* event; a receipt of a stranger is stored of accepted events only.       *)
(***************************************************************************)
WitsStored ==
    \A e \in Event :
        /\ wits[e] = <<>> \/ wits[e] = GovWits[e]
        /\ Establishment(e) /\ e \in Accepted(Ev[e].pre) => wits[e] = GovWits[e]

RctsAccepted == \A e \in Event : rcts[e] # {} => e \in Accepted(Ev[e].pre)

GovernedInv == TypeOK /\ ChainInv /\ StateGoverned

(* A handler that accepts an event.                                        *)
Accepts(e, in, d) ==
    /\ d = DecideEvent(e, in) /\ d.kind = "accept" /\ in.local \in BOOLEAN /\ Attached(in)
    /\ Placed(states[Ev[e].pre], e)
    /\ Checked(states[Ev[e].pre], e, in, d)
    /\ Sees(e, StateAfter(states[Ev[e].pre], e))
    /\ StoreMaterial(AllWrites, e, d.sigers, d.wigers, d.wits, in.local)
    /\ PutAll(wits[e], d.wits) = wits[e] \/ d.wits = GovWits[e]
    /\ Establishment(e) => d.wits = GovWits[e]
    /\ UNCHANGED rcts

(***************************************************************************)
(* Any other step first sees nothing, and what it stores with an event is  *)
(* the list stored before, or the one its own chain puts in force.         *)
(***************************************************************************)
Keeping ==
    /\ UNCHANGED logged
    /\ \A e \in Event : /\ sigs[e] \subseteq sigs'[e] /\ wigs[e] \subseteq wigs'[e]
                        /\ esrs[e] = "local" => esrs'[e] = "local"
                        /\ wits'[e] = wits[e] \/ wits'[e] = PutAll(wits[e], GovWits[e])

LEMMA FullStepKinds ==
    ASSUME GovernedInv, NEW e \in Event, NEW rows, NEW in, FullStep(e, in, rows)
    PROVE  Accepts(e, in, DecideEvent(e, in)) \/ (Keeping /\ UNCHANGED rcts)
<1> DEFINE d == DecideEvent(e, in)
           p == Ev[e].pre
           ks == states[p]
<1>1. /\ p \in Pre /\ kevers[p] = ks /\ MaterialTypes /\ wits[e] \in Seq(Wit)
      /\ LogInv /\ ChainInv /\ StateGoverned
  BY BodyFacts, TypesTogether DEF GovernedInv, TypeOK, ChainInv, LogInv, CacheIsDurable, MaterialTypes
<1>2. /\ Apply(AllWrites, e, d, in.local, rows) /\ kevers' = LiveAfter(e, d)
      /\ in.local \in BOOLEAN /\ Attached(in) /\ rows \in [EscrowKind -> SUBSET Event]
      /\ UNCHANGED rcts
  BY DEF FullStep, EventStep, receiptStores
<1>3. IF d.kind = "accept" THEN Sees(e, d.state) ELSE UNCHANGED logged
  BY <1>1, <1>2, Applied
<1>4. /\ d.kind = "accept" =>
            /\ Placed(ks, e) /\ d.state = StateAfter(ks, e) /\ Checked(ks, e, in, d)
            /\ Establishment(e) => d.wits = GovOf(ks, e).wits
      /\ \/ d.wits \in {<<>>, wits[e]}
         \/ Placed(ks, e) /\ d.wits = GovOf(ks, e).wits
  BY <1>1, DecisionChecks
<1>5. PutAll(wits[e], d.wits) = wits[e] \/ d.wits = GovWits[e]
  <2>1. PutAll(wits[e], <<>>) = wits[e] /\ PutAll(wits[e], wits[e]) = wits[e]
    BY <1>1, PutOnce
  <2>2. Placed(ks, e) => GovOf(ks, e).wits = GovWits[e]
    BY <1>1, PlacedGoverned
  <2> QED BY <1>4, <2>1, <2>2
<1>6. CASE d.kind = "accept"
  <2>1. StoreMaterial(AllWrites, e, d.sigers, d.wigers, d.wits, in.local)
    BY <1>2, <1>6 DEF Apply, EscrowKind, LogEvent
  <2>2. Sees(e, StateAfter(ks, e))
    BY <1>3, <1>4, <1>6
  <2>3. Establishment(e) => d.wits = GovWits[e]
    BY <1>1, <1>4, <1>6, PlacedGoverned
  <2> QED BY <1>2, <1>4, <1>5, <1>6, <2>1, <2>2, <2>3 DEF Accepts
<1>7. CASE d.kind # "accept"
  <2>1. UNCHANGED logged
    BY <1>3, <1>7
  <2>2. CASE StoreMaterial(AllWrites, e, d.sigers, d.wigers, d.wits, in.local)
    <3>1. \A x \in Event : /\ sigs[x] \subseteq sigs'[x] /\ wigs[x] \subseteq wigs'[x]
                           /\ esrs[x] = "local" => esrs'[x] = "local"
                           /\ wits'[x] = wits[x] \/ (x = e /\ wits'[x] = PutAll(wits[x], d.wits))
      <4>1. MaterialTypes /\ StoreMaterial(AllWrites, e, d.sigers, d.wigers, d.wits, in.local)
        BY <1>1, <2>2
      <4> HIDE DEF d
      <4>2. \A x \in Event : sigs[x] \subseteq sigs'[x] /\ wigs[x] \subseteq wigs'[x]
        BY <4>1 DEF StoreMaterial, MaterialTypes
      <4>3. \A x \in Event : esrs[x] = "local" => esrs'[x] = "local"
        BY <4>1 DEF StoreMaterial, MaterialTypes, Promote
      <4>4. \A x \in Event : wits'[x] = wits[x] \/ (x = e /\ wits'[x] = PutAll(wits[x], d.wits))
        BY <4>1 DEF StoreMaterial, MaterialTypes
      <4> QED BY <4>2, <4>3, <4>4
    <3> QED BY <1>2, <1>5, <2>1, <3>1 DEF Keeping
  <2>3. CASE UNCHANGED <<evts, sigs, wigs, wits, esrs, kels, fels, fons, states>>
    BY <1>2, <2>1, <2>3 DEF Keeping
  <2> QED BY <1>2, <1>7, <2>2, <2>3 DEF Apply, LogEvent, PersistEscrow
<1> QED BY <1>6, <1>7

LEMMA ReceiptsKeep ==
    ASSUME GovernedInv, OtherStep, CacheRead, ReceiptStep
    PROVE  Keeping
<1>1. /\ kevers' = kevers
  BY RehydratedIsSame DEF CacheRead, GovernedInv, ChainInv
<1>2. UNCHANGED <<sigs, wits, esrs, kels, fels, fons, states>>
  BY DEF OtherStep, eventStores
<1>3. wigs \in [Event -> SUBSET Wiger]
  BY DEF GovernedInv, TypeOK, StoresTypeOK
<1>4. ASSUME NEW r \in Receipts, DeliverReceipt(r)
      PROVE  \A x \in Event : wigs[x] \subseteq wigs'[x]
  <2>1. \/ wigs' = wigs
        \/ \E more : wigs' = [wigs EXCEPT ![r.ev] = @ \cup more]
    BY <1>4 DEF DeliverReceipt
  <2> QED BY <1>3, <2>1
<1>5. ASSUME NEW row, ReplayWitnessReceipt(row) \/ ReplayNonTransReceipt(row)
      PROVE  \A x \in Event : wigs[x] \subseteq wigs'[x]
  <2>1. \/ wigs' = wigs
        \/ \E more : wigs' = [wigs EXCEPT ![row.ev] = @ \cup more]
    BY <1>5 DEF ReplayWitnessReceipt, ReplayNonTransReceipt
  <2> QED BY <1>3, <2>1
<1>6. ASSUME NEW row, ReplayTransReceipt(row) \/ ExpireReceipt PROVE wigs' = wigs
  BY <1>6 DEF ReplayTransReceipt, ExpireReceipt
<1>7. \A x \in Event : wigs[x] \subseteq wigs'[x]
  BY <1>4, <1>5, <1>6 DEF ReceiptStep, SweepReceipts
<1> QED BY <1>1, <1>2, <1>7 DEF Keeping, logged

(* Every handler accepts an event or keeps.                                *)
LEMMA HandlerKinds ==
    ASSUME GovernedInv, [Next]_vars
    PROVE  \/ \E e \in Event : \E in : Accepts(e, in, DecideEvent(e, in))
           \/ Keeping /\ (UNCHANGED rcts \/ ReceiptStep)
<1>1. CASE UNCHANGED vars
  BY <1>1 DEF vars, Keeping, logged
<1>2. CASE SomeFullStep
  <2>1. PICK e \in Event, rows \in [EscrowKind -> SUBSET Event] : \E in : FullStep(e, in, rows)
    BY <1>2 DEF SomeFullStep
  <2>2. PICK in : FullStep(e, in, rows)
    BY <2>1
  <2> QED BY <2>2, FullStepKinds
<1>3. CASE OtherStep /\ CacheRead /\ ReceiptStep
  BY <1>3, ReceiptsKeep
<1> QED BY <1>1, <1>2, <1>3, NextKinds DEF GovernedInv

------------------------------------------------------------------------------
(* The key state is what its chain gives *)

(* What an event governs by is what the state after it holds.              *)
LEMMA AfterGoverned ==
    ASSUME ChainInv, StateGoverned, NEW e \in Event, NEW ks, ks = states[Ev[e].pre],
           Placed(ks, e), ks \in KeyState \cup {NoState}
    PROVE  LET n == StateAfter(ks, e)
               est == Ev[n.est.d]
           IN
           /\ n.est.d \in Event /\ GovEst[e] = n.est.d /\ GovWits[e] = n.wits
           /\ n.keys = est.keys /\ n.kt = est.kt /\ n.toad = est.toad
           /\ n.nkeys = est.nkeys /\ n.nt = est.nt
           /\ IF Establishment(e) THEN n.est.d = e ELSE n.est = ks.est /\ n.wits = ks.wits
<1>1. /\ Ev[e].pre \in Pre /\ NoEvent \notin Event /\ Ev[e].ilk \in {"icp", "rot", "ixn"}
  BY BodyFacts, EventAssumption DEF Ilk
<1>2. CASE Ev[e].ilk = "icp"
  <2>1. GovEst[e] = e /\ GovWits[e] = Ev[e].backs
    BY <1>2, GovEstUnfolds, GovWitsUnfolds DEF Establishment
  <2> QED BY <1>2, <2>1 DEF StateAfter, InitialKeyState, Establishment
<1>3. CASE Ev[e].ilk = "rot"
  <2>1. GovWits[e] = RotatedWitnesses(ks.wits, Ev[e].cuts, Ev[e].adds)
    BY <1>3, PlacedGoverned DEF GovOf, Governing
  <2>2. GovEst[e] = e
    BY <1>3, GovEstUnfolds DEF Establishment
  <2> QED BY <1>3, <2>1, <2>2 DEF StateAfter, RotatedKeyState, Establishment
<1>4. CASE Ev[e].ilk = "ixn"
  <2>1. /\ Ev[e].prior \in Event /\ GovEst[Ev[e].prior] = ks.est.d
        /\ GovWits[Ev[e].prior] = ks.wits /\ ks # NoState
    BY <1>4, PriorGoverned DEF Placed
  <2>2. GovEst[e] = ks.est.d /\ GovWits[e] = ks.wits
    BY <1>1, <1>4, <2>1, GovEstUnfolds, GovWitsUnfolds DEF Establishment
  <2>3. /\ ks.est.d \in Event /\ ks.keys = Ev[ks.est.d].keys /\ ks.kt = Ev[ks.est.d].kt
        /\ ks.toad = Ev[ks.est.d].toad /\ ks.nkeys = Ev[ks.est.d].nkeys
        /\ ks.nt = Ev[ks.est.d].nt
    BY <1>1, <2>1 DEF StateGoverned, GovernedAt
  <2>4. LET n == StateAfter(ks, e) IN
        /\ n.est = ks.est /\ n.keys = ks.keys /\ n.kt = ks.kt /\ n.toad = ks.toad
        /\ n.nkeys = ks.nkeys /\ n.nt = ks.nt /\ n.wits = ks.wits
    BY <1>4, <2>1 DEF StateAfter, InteractedKeyState, KeyState
  <2> QED BY <1>4, <2>2, <2>3, <2>4 DEF Establishment
<1> QED BY <1>1, <1>2, <1>3, <1>4

LEMMA AcceptsKeepsGoverned ==
    ASSUME GovernedInv, NEW e \in Event, NEW in, NEW d, Accepts(e, in, d)
    PROVE  StateGoverned'
<1> DEFINE p == Ev[e].pre
           ks == states[p]
           n == StateAfter(ks, e)
           sn == Ev[e].sn
<1>1. /\ p \in Pre /\ sn \in Nat /\ LogInv /\ ChainInv /\ StateGoverned
      /\ ks \in KeyState \cup {NoState} /\ Placed(ks, e) /\ Sees(e, n)
      /\ Ev[e].ilk \in {"icp", "rot", "ixn"}
  BY BodyFacts DEF GovernedInv, ChainInv, TypeOK, StoresTypeOK, Accepts, Ilk
<1>2. /\ n.est.d \in Event /\ GovEst[e] = n.est.d /\ GovWits[e] = n.wits
      /\ n.keys = Ev[n.est.d].keys /\ n.kt = Ev[n.est.d].kt /\ n.toad = Ev[n.est.d].toad
      /\ n.nkeys = Ev[n.est.d].nkeys /\ n.nt = Ev[n.est.d].nt
      /\ IF Establishment(e) THEN n.est.d = e ELSE n.est = ks.est /\ n.wits = ks.wits
  BY <1>1, AfterGoverned
<1>3. Moves(ks, e, n)
  BY <1>1 DEF Sees
<1>4. states'[p] = [n EXCEPT !.fn = Len(fels[p]) + 1]
  BY <1>1 DEF Sees, LogInv, LogTypeOK
<1>5. /\ states'[p].est = n.est /\ states'[p].s = sn /\ states'[p].wits = n.wits
      /\ states'[p].keys = n.keys /\ states'[p].kt = n.kt /\ states'[p].toad = n.toad
      /\ states'[p].nkeys = n.nkeys /\ states'[p].nt = n.nt
  BY <1>3, <1>4 DEF Moves, StandsAt
<1>6. /\ LastAt(p, sn)' = e
      /\ \A q \in Pre, m \in Int : q # p \/ m # sn => LastAt(q, m)' = LastAt(q, m)
  BY <1>1, LastAtAfter
<1>7. \A q \in Pre \ {p} : states'[q] = states[q]
  BY <1>1, SeesState
<1>8. ASSUME NEW q \in Pre \ {p}, states'[q] # NoState PROVE GovernedAt(q)'
  <2>1. GovernedAt(q) /\ states'[q] = states[q]
    BY <1>1, <1>7, <1>8 DEF StateGoverned
  <2>2. \A m \in states[q].est.s..states[q].s : LastAt(q, m)' = LastAt(q, m)
    BY <1>6
  <2> QED BY <2>1, <2>2 DEF GovernedAt
<1>9. GovernedAt(p)'
  <2>1. Ev[n.est.d].sn = n.est.s /\ n.est.s \in Int
    <3>1. CASE Establishment(e)
      <4>1. n.est.d = e
        BY <1>2, <3>1
      <4>2. n.est.s = sn
        BY <1>3, <3>1 DEF Moves, Incepts, Rotates, Interacts, Establishment
      <4>3. sn \in Int
        BY <1>1
      <4> QED BY <4>1, <4>2, <4>3
    <3>2. CASE ~Establishment(e)
      <4>1. ks # NoState /\ n.est = ks.est
        BY <1>1, <1>2, <3>2 DEF Placed, Establishment
      <4>2. ks.est.d \in Event /\ Ev[ks.est.d].sn = ks.est.s
        BY <1>1, <4>1 DEF StateGoverned, GovernedAt
      <4>3. Ev[ks.est.d].sn \in Int
        BY <4>2, BodyFacts
      <4> QED BY <4>1, <4>2, <4>3
    <3> QED BY <3>1, <3>2
  <2>2. ASSUME NEW m \in n.est.s..sn
        PROVE  /\ LastAt(p, m)' \in Event
               /\ GovEst[LastAt(p, m)'] = n.est.d
               /\ GovWits[LastAt(p, m)'] = n.wits
    <3>1. CASE m = sn
      BY <1>2, <1>6, <3>1
    <3>2. CASE m # sn
      <4>1. n.est.s # sn /\ m < sn /\ m \in Int
        BY <1>1, <2>1, <3>2
      <4>2. ~Establishment(e)
        BY <1>1, <1>2, <2>1, <4>1
      <4>3. ks # NoState /\ ks.s \in Int /\ sn = ks.s + 1 /\ n.est = ks.est /\ n.wits = ks.wits
        <5>1. ks # NoState /\ sn = ks.s + 1
          BY <1>3, <4>2 DEF Moves, Incepts, Rotates, Interacts, Establishment, Follows
        <5>2. n.est = ks.est /\ n.wits = ks.wits
          BY <1>2, <4>2
        <5>3. ks.s \in Int
          BY <1>1, <5>1 DEF LogInv, LogTypeOK, IsHead, Sn
        <5> QED BY <5>1, <5>2, <5>3
      <4>4. m \in ks.est.s..ks.s
        BY <1>1, <2>1, <4>1, <4>3
      <4>5. /\ LastAt(p, m) \in Event
            /\ GovEst[LastAt(p, m)] = ks.est.d /\ GovWits[LastAt(p, m)] = ks.wits
        BY <1>1, <4>3, <4>4 DEF StateGoverned, GovernedAt
      <4>6. LastAt(p, m)' = LastAt(p, m)
        BY <1>1, <1>6, <4>1
      <4> QED BY <4>3, <4>5, <4>6
    <3> QED BY <3>1, <3>2
  <2> HIDE DEF n, sn
  <2> QED BY <1>2, <1>5, <2>1, <2>2 DEF GovernedAt
<1> QED BY <1>8, <1>9 DEF StateGoverned

LEMMA KeepingKeepsGoverned ==
    ASSUME StateGoverned, UNCHANGED logged PROVE StateGoverned'
BY DEF logged, StateGoverned, GovernedAt, LastAt

LEMMA NextKeepsGoverned ==
    ASSUME GovernedInv, [Next]_vars PROVE GovernedInv'
<1>1. TypeOK' /\ ChainInv'
  BY NextKeepsTypes, NextKeepsChainInv DEF GovernedInv, AnyStep
<1>2. StateGoverned'
  BY HandlerKinds, AcceptsKeepsGoverned, KeepingKeepsGoverned DEF Keeping, GovernedInv
<1> QED BY <1>1, <1>2 DEF GovernedInv

(* A start that reads back every identifier it follows loses none of it.   *)
LEMMA RestartKeepsGoverned ==
    ASSUME GovernedInv, Pre \subseteq Habs, Restart PROVE GovernedInv'
<1>1. TypeOK'
  BY NextKeepsTypes DEF GovernedInv, AnyStep
<1>2. LogInv' /\ UNCHANGED logged
  BY RestartKeepsLogInv DEF GovernedInv, ChainInv
<1>3. ChainInv' /\ StateGoverned'
  BY <1>2, SameKeepsChain, KeepingKeepsGoverned DEF GovernedInv, ChainInv
<1> QED BY <1>1, <1>3 DEF GovernedInv

LEMMA InitGoverned == Init => GovernedInv
<1> SUFFICES ASSUME Init PROVE GovernedInv
  OBVIOUS
<1>1. StateGoverned
  BY DEF Init, InitStores, StateGoverned
<1> QED BY <1>1, InitTypes, InitChainInv DEF GovernedInv

LEMMA GovernedInvariant == Spec => []GovernedInv
<1>1. Init => GovernedInv
  BY InitGoverned
<1>2. GovernedInv /\ [Next]_vars => GovernedInv'
  BY NextKeepsGoverned
<1> QED BY <1>1, <1>2, PTL DEF Spec

LEMMA ReplaysChain == GovernedInv => StateFromChain
<1> SUFFICES ASSUME GovernedInv, NEW p \in Pre, states[p] # NoState
             PROVE  LET ks == states[p]
                        est == Ev[GovEst[ks.d]]
                    IN
                    /\ ks.est.d = GovEst[ks.d]
                    /\ ks.wits = GovWits[ks.d]
                    /\ <<ks.keys, ks.kt, ks.nkeys, ks.nt, ks.toad>>
                         = <<est.keys, est.kt, est.nkeys, est.nt, est.toad>>
  BY DEF StateFromChain
<1>1. /\ states[p].s \in states[p].est.s..states[p].s
      /\ LastAt(p, states[p].s) = states[p].d
  BY BodyFacts DEF GovernedInv, ChainInv, LogInv, LogTypeOK, IsHead, HeadIsLast, KelChain, Sn
<1> QED BY <1>1 DEF GovernedInv, StateGoverned, GovernedAt

(***************************************************************************)
(* applyTransition: the key state, its keys, thresholds, next keys and     *)
(* witnesses, is what replaying the chain below the head from its          *)
(* inception gives, after any number of rotations and recoveries.          *)
(***************************************************************************)
THEOREM StateIsReplayed == Spec => []StateFromChain
BY GovernedInvariant, ReplaysChain, PTL

(***************************************************************************)
(* reloadKevers: the same when the node stops between handlers and starts  *)
(* again any number of times, if it only follows its own identifiers.      *)
(***************************************************************************)
THEOREM StateIsReplayedAcrossRestarts ==
    ASSUME Pre \subseteq Habs PROVE RestartSpec => []StateFromChain
<1>1. Init => GovernedInv
  BY InitGoverned
<1>2. GovernedInv /\ [Next \/ Restart]_vars => GovernedInv'
  BY NextKeepsGoverned, RestartKeepsGoverned
<1> QED BY <1>1, <1>2, ReplaysChain, PTL DEF RestartSpec

------------------------------------------------------------------------------
(* What vouches for an accepted event *)

AuthorizedBy(e, signatures) ==
    LET est == Ev[GovEst[e]]
        good == VerifiedSigers(signatures, est.keys)
    IN
    /\ SatisfiesTholder(est.kt, Indices(good))
    /\ Ev[e].ilk = "rot" =>
          LET before == Ev[GovEst[Ev[e].prior]] IN
          SatisfiesTholder(before.nt, Exposed(good, before.nkeys))

WitnessedBy(e, signatures) ==
    \/ LocallyWitnessed(GovWits[e])
    \/ Cardinality(VerifiedSigers(signatures, GovWits[e])) >= Ev[GovEst[e]].toad

Vouched ==
    \A p \in Pre : \A e \in Accepted(p) :
        /\ AuthorizedBy(e, sigs[e])
        /\ p \notin Habs => WitnessedBy(e, wigs[e])
        /\ LocallyOwned(p) \/ LocallyWitnessed(GovWits[e]) => esrs[e] = "local"

(* An index verifies one signature, so a list verifies finitely many.      *)
LEMMA VerifiedFinite ==
    ASSUME NEW S \in SUBSET Wiger, NEW ws \in Seq(Wit)
    PROVE  IsFiniteSet(VerifiedSigers(S, ws))
<1> DEFINE V == VerifiedSigers(S, ws)
           f == [w \in V |-> w.index]
<1>1. IsFiniteSet(1..Len(ws))
  <2>1. 1 \in Int /\ Len(ws) \in Int
    OBVIOUS
  <2> QED BY <2>1, FS_Interval
<1>2. f \in [V -> 1..Len(ws)]
  BY DEF VerifiedSigers
<1>3. \A v, w \in V : f[v] = f[w] => v = w
  BY DEF VerifiedSigers, Wiger
<1>4. f \in Injection(V, 1..Len(ws))
  <2> HIDE DEF V, f
  <2> QED BY <1>2, <1>3 DEF Injection, IsInjective
<1> QED
  <2> HIDE DEF V, f
  <2> QED BY <1>1, <1>4, FS_Injection DEF V

LEMMA MoreVerified ==
    ASSUME NEW S, NEW T, S \subseteq T, NEW keys
    PROVE  VerifiedSigers(S, keys) \subseteq VerifiedSigers(T, keys)
BY DEF VerifiedSigers

LEMMA VerifiedAgain ==
    ASSUME NEW S, NEW keys
    PROVE  VerifiedSigers(VerifiedSigers(S, keys), keys) = VerifiedSigers(S, keys)
BY DEF VerifiedSigers

LEMMA MoreSatisfies ==
    ASSUME NEW th, NEW A, NEW B, A \subseteq B, SatisfiesTholder(th, A)
    PROVE  SatisfiesTholder(th, B)
BY DEF SatisfiesTholder

LEMMA MoreAuthorizes ==
    ASSUME NEW e, NEW S, NEW T, S \subseteq T, AuthorizedBy(e, S)
    PROVE  AuthorizedBy(e, T)
<1> DEFINE est == Ev[GovEst[e]]
           before == Ev[GovEst[Ev[e].prior]]
           A == VerifiedSigers(S, est.keys)
           B == VerifiedSigers(T, est.keys)
<1>1. A \subseteq B
  BY MoreVerified
<1> HIDE DEF A, B
<1>2. Indices(A) \subseteq Indices(B)
  BY <1>1 DEF Indices
<1>3. Exposed(A, before.nkeys) \subseteq Exposed(B, before.nkeys)
  BY <1>1 DEF Exposed
<1> QED BY <1>2, <1>3, MoreSatisfies DEF AuthorizedBy, A, B

LEMMA GovernsTyped ==
    ASSUME NEW e \in Event
    PROVE  GovWits[e] \in Seq(Wit) /\ Ev[GovEst[e]].toad \in Nat
BY GovEstUnfolds, GovWitsUnfolds, EventAssumption DEF Body

LEMMA MoreWitnesses ==
    ASSUME NEW e \in Event, NEW S, NEW T \in SUBSET Wiger, S \subseteq T, WitnessedBy(e, S)
    PROVE  WitnessedBy(e, T)
<1> DEFINE A == VerifiedSigers(S, GovWits[e])
           B == VerifiedSigers(T, GovWits[e])
<1>1. A \subseteq B /\ IsFiniteSet(A) /\ IsFiniteSet(B)
  BY MoreVerified, VerifiedFinite, GovernsTyped
<1> HIDE DEF A, B
<1>2. Cardinality(A) <= Cardinality(B) /\ Cardinality(A) \in Nat /\ Cardinality(B) \in Nat
  BY <1>1, FS_Subset, FS_CardinalityType
<1>3. Ev[GovEst[e]].toad \in Nat
  BY GovernsTyped
<1>4. Cardinality(A) >= Ev[GovEst[e]].toad => Cardinality(B) >= Ev[GovEst[e]].toad
  BY <1>2, <1>3
<1> QED BY <1>4 DEF WitnessedBy, A, B

(* What is accepted was accepted before, or is the event first seen.       *)
LEMMA AcceptedAfter ==
    ASSUME LogInv, NEW e \in Event, NEW n, Sees(e, n)
    PROVE  /\ e \in Accepted(Ev[e].pre)' /\ e \notin Accepted(Ev[e].pre)
           /\ \A q \in Pre : Accepted(q)' \subseteq Accepted(q) \cup {x \in {e} : Ev[x].pre = q}
<1>1. /\ Ev[e].pre \in Pre
      /\ \A q \in Pre : Keeps(fels[q], fels'[q]) /\ Brings(fels[q], fels'[q], e)
      /\ \A q \in Pre \ {Ev[e].pre} : fels'[q] = fels[q]
      /\ Holds(fels'[Ev[e].pre], e)
  BY FelGrows, BodyFacts
<1>2. e \in Accepted(Ev[e].pre)'
  BY <1>1 DEF Holds, Accepted, Range
<1>3. e \notin Accepted(Ev[e].pre)
  BY NeverSeen DEF Sees, Accepted, Range
<1>4. ASSUME NEW q \in Pre, NEW x \in Accepted(q)'
      PROVE  x \in Accepted(q) \cup {y \in {e} : Ev[y].pre = q}
  <2>1. CASE q = Ev[e].pre
    <3>1. PICK i \in DOMAIN fels'[q] : fels'[q][i] = x
      BY <1>4 DEF Accepted, Range
    <3>2. (i \in DOMAIN fels[q] /\ fels[q][i] = x) \/ x = e
      BY <1>1, <3>1 DEF Keeps, Brings
    <3> QED BY <2>1, <3>2 DEF Accepted, Range
  <2>2. CASE q # Ev[e].pre
    BY <1>1, <1>4, <2>2 DEF Accepted
  <2> QED BY <2>1, <2>2
<1> QED BY <1>2, <1>3, <1>4

LEMMA AcceptedOf ==
    ASSUME LogInv, NEW p \in Pre, NEW e \in Accepted(p)
    PROVE  e \in Event /\ Ev[e].pre = p
<1>1. PICK j \in DOMAIN fels[p] : fels[p][j] = e
  BY DEF Accepted, Range
<1> QED BY <1>1 DEF LogInv, LogTypeOK, FelNumbered

(* What it was accepted with vouches for it.                               *)
LEMMA CheckedVouches ==
    ASSUME GovernedInv, NEW e \in Event, NEW in, NEW d, Accepts(e, in, d)
    PROVE  /\ AuthorizedBy(e, d.sigers)
           /\ Ev[e].pre \notin Habs => WitnessedBy(e, d.wigers)
           /\ LocallyOwned(Ev[e].pre) \/ LocallyWitnessed(GovWits[e]) => in.local
<1> DEFINE ks == states[Ev[e].pre]
           gov == GovOf(ks, e)
           p == Ev[e].pre
<1>1. Checked(ks, e, in, d) /\ Placed(ks, e) /\ Attached(in)
  BY DEF Accepts
<1>2. /\ gov.wits = GovWits[e] /\ gov.keys = Ev[GovEst[e]].keys /\ gov.kt = Ev[GovEst[e]].kt
      /\ gov.toad = Ev[GovEst[e]].toad
      /\ Ev[e].ilk = "rot" => LET before == Ev[GovEst[Ev[e].prior]] IN
                              ks.nkeys = before.nkeys /\ ks.nt = before.nt
  BY <1>1, PlacedGoverned DEF GovernedInv
<1> HIDE DEF gov, ks
<1>3. /\ d.sigers = VerifiedSigers(Counted(p, gov.keys, in), gov.keys)
      /\ d.wigers = VerifiedSigers(in.wigers, gov.wits)
      /\ SatisfiesTholder(gov.kt, Indices(d.sigers))
      /\ Ev[e].ilk = "rot" => SatisfiesTholder(ks.nt, Exposed(d.sigers, ks.nkeys))
      /\ LocallyOwned(p) \/ LocallyWitnessed(gov.wits) => in.local
      /\ \/ gov.wits = <<>> /\ gov.toad = 0
         \/ LocallyOwned(p) \/ LocallyMembered(p) \/ LocallyWitnessed(gov.wits)
         \/ ~(WitnessesCounted(in.wigers, gov.wits) < gov.toad)
  BY <1>1 DEF Checked, gov
<1>4. VerifiedSigers(d.sigers, gov.keys) = d.sigers /\ VerifiedSigers(d.wigers, gov.wits) = d.wigers
  BY <1>3, VerifiedAgain
<1>5. AuthorizedBy(e, d.sigers)
  BY <1>2, <1>3, <1>4 DEF AuthorizedBy
<1>6. ASSUME p \notin Habs PROVE WitnessedBy(e, d.wigers)
  <2>1. ~LocallyOwned(p) /\ ~LocallyMembered(p)
    BY <1>6, EventAssumption DEF LocallyOwned, LocallyMembered
  <2>2. gov.toad \in Nat /\ gov.wits \in Seq(Wit) /\ in.wigers \in SUBSET Wiger
    BY <1>1, <1>2, GovernsTyped DEF Attached
  <2>3. IsFiniteSet(d.wigers)
    BY <1>3, <2>2, VerifiedFinite
  <2>4. Cardinality(d.wigers) \in Nat
    BY <2>3, FS_CardinalityType
  <2>5. LocallyWitnessed(gov.wits) \/ Cardinality(d.wigers) >= gov.toad
    <3>1. CASE gov.wits = <<>> /\ gov.toad = 0
      BY <2>4, <3>1
    <3>2. CASE ~(WitnessesCounted(in.wigers, gov.wits) < gov.toad)
      BY <1>3, <2>2, <2>4, <3>2 DEF WitnessesCounted
    <3> QED BY <1>3, <2>1, <3>1, <3>2
  <2> QED BY <1>2, <1>4, <2>5 DEF WitnessedBy
<1> QED BY <1>2, <1>3, <1>5, <1>6

LEMMA AcceptsKeepsVouched ==
    ASSUME GovernedInv, Vouched, NEW e \in Event, NEW in, NEW d, Accepts(e, in, d),
           (MaterialTypes)'
    PROVE  Vouched'
<1>1. LogInv /\ MaterialTypes
  BY TypesTogether DEF GovernedInv, ChainInv, TypeOK
<1>2. Sees(e, StateAfter(states[Ev[e].pre], e))
      /\ StoreMaterial(AllWrites, e, d.sigers, d.wigers, d.wits, in.local)
  BY DEF Accepts
<1>3. \A x \in Event : sigs[x] \subseteq sigs'[x] /\ wigs[x] \subseteq wigs'[x]
  BY <1>1, <1>2 DEF StoreMaterial, MaterialTypes, AllWrites
<1>9. d.sigers \subseteq sigs'[e] /\ d.wigers \subseteq wigs'[e]
  BY <1>1, <1>2 DEF StoreMaterial, MaterialTypes, AllWrites
<1>10. /\ \A x \in Event : esrs[x] = "local" => esrs'[x] = "local"
       /\ in.local => esrs'[e] = "local"
  BY <1>1, <1>2 DEF StoreMaterial, MaterialTypes, AllWrites, Promote
<1>4. SUFFICES ASSUME NEW p \in Pre, NEW x \in Accepted(p)'
               PROVE  /\ AuthorizedBy(x, sigs'[x])
                      /\ p \notin Habs => WitnessedBy(x, wigs'[x])
                      /\ LocallyOwned(p) \/ LocallyWitnessed(GovWits[x]) => esrs'[x] = "local"
  BY DEF Vouched, Accepted, AuthorizedBy, WitnessedBy, LocallyOwned, LocallyWitnessed
<1>5. x \in Accepted(p) \/ (x = e /\ p = Ev[e].pre)
  BY <1>1, <1>2, <1>4, AcceptedAfter
<1>6. \A y \in Event : wigs'[y] \in SUBSET Wiger
  BY DEF MaterialTypes
<1>7. CASE x \in Accepted(p)
  <2>1. x \in Event /\ AuthorizedBy(x, sigs[x]) /\ (p \notin Habs => WitnessedBy(x, wigs[x]))
        /\ (LocallyOwned(p) \/ LocallyWitnessed(GovWits[x]) => esrs[x] = "local")
    BY <1>1, <1>7, AcceptedOf DEF Vouched
  <2>2. sigs[x] \subseteq sigs'[x] /\ wigs[x] \subseteq wigs'[x] /\ wigs'[x] \in SUBSET Wiger
    BY <1>3, <1>6, <2>1
  <2>3. AuthorizedBy(x, sigs'[x])
    BY <2>1, <2>2, MoreAuthorizes
  <2>4. p \notin Habs => WitnessedBy(x, wigs'[x])
    BY <2>1, <2>2, MoreWitnesses
  <2> QED BY <1>10, <2>1, <2>3, <2>4
<1>8. CASE x = e /\ p = Ev[e].pre
  <2>1. /\ AuthorizedBy(e, d.sigers)
        /\ Ev[e].pre \notin Habs => WitnessedBy(e, d.wigers)
        /\ LocallyOwned(Ev[e].pre) \/ LocallyWitnessed(GovWits[e]) => in.local
    BY CheckedVouches
  <2>2. wigs'[e] \in SUBSET Wiger
    BY <1>6
  <2>3. AuthorizedBy(e, sigs'[e])
    BY <1>9, <2>1, MoreAuthorizes
  <2>4. Ev[e].pre \notin Habs => WitnessedBy(e, wigs'[e])
    BY <1>9, <2>1, <2>2, MoreWitnesses
  <2> QED BY <1>8, <1>10, <2>1, <2>3, <2>4
<1> QED BY <1>5, <1>7, <1>8

LEMMA KeepingKeepsVouched ==
    ASSUME LogInv, Vouched, Keeping, (MaterialTypes)'
    PROVE  Vouched'
<1>1. SUFFICES ASSUME NEW p \in Pre, NEW x \in Accepted(p)'
               PROVE  /\ AuthorizedBy(x, sigs'[x])
                      /\ p \notin Habs => WitnessedBy(x, wigs'[x])
                      /\ LocallyOwned(p) \/ LocallyWitnessed(GovWits[x]) => esrs'[x] = "local"
  BY DEF Vouched, Accepted, AuthorizedBy, WitnessedBy, LocallyOwned, LocallyWitnessed
<1>2. x \in Accepted(p)
  BY <1>1 DEF Keeping, logged, Accepted
<1>3. x \in Event /\ AuthorizedBy(x, sigs[x]) /\ (p \notin Habs => WitnessedBy(x, wigs[x]))
      /\ (LocallyOwned(p) \/ LocallyWitnessed(GovWits[x]) => esrs[x] = "local")
  BY <1>2, AcceptedOf DEF Vouched
<1>4. /\ sigs[x] \subseteq sigs'[x] /\ wigs[x] \subseteq wigs'[x]
      /\ esrs[x] = "local" => esrs'[x] = "local"
  BY <1>3 DEF Keeping
<1>5. wigs'[x] \in SUBSET Wiger
  BY <1>3 DEF MaterialTypes
<1> QED BY <1>3, <1>4, <1>5, MoreAuthorizes, MoreWitnesses

------------------------------------------------------------------------------
(* Receipts *)

(* A receipt that is counted or filed is of an accepted event.             *)
LEMMA TargetAccepted ==
    ASSUME LogInv, NEW e \in Event, ReceiptTarget(e) = "accepted"
    PROVE  e \in Accepted(Ev[e].pre)
<1>1. LastAt(Ev[e].pre, Ev[e].sn) = e /\ e # NoEvent
  BY EventAssumption DEF ReceiptTarget
<1> QED BY <1>1, BodyFacts, LastAccepted

(* The list it is checked against, when the event is an establishment.     *)
LEMMA TargetList ==
    ASSUME WitsStored, NEW e \in Event, Establishment(e), e \in Accepted(Ev[e].pre)
    PROVE  Range(GovWits[e]) \subseteq Range(AcceptedWits(e))
<1>1. wits[e] = GovWits[e]
  BY DEF WitsStored
<1>2. CASE wits[e] # <<>>
  BY <1>1, <1>2 DEF AcceptedWits
<1>3. CASE wits[e] = <<>>
  BY <1>1, <1>3 DEF Range
<1> QED BY <1>2, <1>3

(***************************************************************************)
(* Of the receipts of strangers, a receipt step files those of accepted    *)
(* events whose receiptor is not in the list they are checked against.     *)
(***************************************************************************)
Filing ==
    \/ UNCHANGED rcts
    \/ \E e \in Event : \E cs :
          /\ ReceiptTarget(e) = "accepted"
          /\ \A c \in cs : c.verfer \notin Range(AcceptedWits(e))
          /\ rcts' = [rcts EXCEPT ![e] = @ \cup cs]

LEMMA ReceiptsFile ==
    ASSUME TypeOK, ReceiptStep PROVE Filing
<1>1. ASSUME NEW r \in Receipts, DeliverReceipt(r) PROVE Filing
  <2> DEFINE e == r.ev
             ws == AcceptedWits(e)
             good == {c \in r.couples : Valid(c) /\ ~OwnReceiptConflict(Ev[e].pre, c.verfer, r.local)}
             strangers == good \ {c \in good : c.verfer \in Range(ws)}
  <2>1. e \in Event
    BY MessageAssumption
  <2>2. \/ UNCHANGED rcts
        \/ ReceiptTarget(e) = "accepted" /\ rcts' = [rcts EXCEPT ![e] = @ \cup strangers]
    BY <1>1 DEF DeliverReceipt
  <2>3. \A c \in strangers : c.verfer \notin Range(ws)
    OBVIOUS
  <2> HIDE DEF strangers, e
  <2> QED BY <2>1, <2>2, <2>3 DEF Filing
<1>2. ASSUME NEW row \in ures, ReplayNonTransReceipt(row) PROVE Filing
  <2>1. row.ev \in Event
    BY DEF TypeOK, StoresTypeOK
  <2>2. CASE FromAwaitedWitness(row.ev, row.couple)
    BY <1>2, <2>2 DEF ReplayNonTransReceipt, FromAwaitedWitness, Filing
  <2>3. CASE ~FromAwaitedWitness(row.ev, row.couple)
    <3>1. \/ UNCHANGED rcts
          \/ /\ ReceiptTarget(row.ev) = "accepted"
             /\ row.couple.verfer \notin Range(AcceptedWits(row.ev))
             /\ rcts' = [rcts EXCEPT ![row.ev] = @ \cup {row.couple}]
      BY <1>2, <2>3 DEF ReplayNonTransReceipt
    <3> QED BY <2>1, <3>1 DEF Filing
  <2> QED BY <2>2, <2>3
<1>3. ASSUME NEW row, ReplayWitnessReceipt(row) \/ ReplayTransReceipt(row) PROVE Filing
  BY <1>3 DEF ReplayWitnessReceipt, ReplayTransReceipt, Filing
<1>4. ASSUME ExpireReceipt PROVE Filing
  BY <1>4 DEF ExpireReceipt, Filing
<1> QED BY <1>1, <1>2, <1>3, <1>4 DEF ReceiptStep, SweepReceipts

(***************************************************************************)
(* The whole invariant of what is accepted, and why.                       *)
(***************************************************************************)
AuthorityInv ==
    GovernedInv /\ Vouched /\ WitsStored /\ RctsAccepted /\ EstReceiptsFiled

LEMMA ListAfterPut ==
    ASSUME TypeOK, WitsStored, NEW e \in Event,
           wits'[e] = wits[e] \/ wits'[e] = PutAll(wits[e], GovWits[e])
    PROVE  /\ wits'[e] = <<>> \/ wits'[e] = GovWits[e]
           /\ wits[e] = GovWits[e] => wits'[e] = GovWits[e]
           /\ wits'[e] = PutAll(wits[e], GovWits[e]) => wits'[e] = GovWits[e]
<1>1. GovWits[e] \in Seq(Wit)
  BY GovernsTyped
<1>2. wits[e] = <<>> \/ wits[e] = GovWits[e]
  BY DEF WitsStored
<1>3. PutAll(<<>>, GovWits[e]) = GovWits[e] /\ PutAll(GovWits[e], GovWits[e]) = GovWits[e]
  BY <1>1, PutOnce
<1> QED BY <1>2, <1>3

LEMMA AcceptsKeepsReceipts ==
    ASSUME AuthorityInv, NEW e \in Event, NEW in, NEW d, Accepts(e, in, d)
    PROVE  WitsStored' /\ RctsAccepted' /\ EstReceiptsFiled'
<1>1. /\ LogInv /\ TypeOK /\ WitsStored /\ RctsAccepted /\ EstReceiptsFiled
      /\ wits \in [Event -> Seq(Wit)] /\ Ev[e].pre \in Pre
  BY BodyFacts DEF AuthorityInv, GovernedInv, ChainInv, TypeOK, StoresTypeOK
<1>2. /\ Sees(e, StateAfter(states[Ev[e].pre], e)) /\ rcts' = rcts
      /\ wits' = [wits EXCEPT ![e] = PutAll(@, d.wits)]
      /\ PutAll(wits[e], d.wits) = wits[e] \/ d.wits = GovWits[e]
      /\ Establishment(e) => d.wits = GovWits[e]
  BY DEF Accepts, StoreMaterial, AllWrites
<1>3. /\ e \notin Accepted(Ev[e].pre)
      /\ \A q \in Pre : Accepted(q)' \subseteq Accepted(q) \cup {x \in {e} : Ev[x].pre = q}
      /\ \A q \in Pre : Accepted(q) \subseteq Accepted(q)'
  <2>1. \A q \in Pre : Keeps(fels[q], fels'[q])
    BY <1>1, <1>2, FelGrows
  <2>2. \A q \in Pre : Accepted(q) \subseteq Accepted(q)'
    BY <2>1 DEF Keeps, Accepted, Range
  <2> QED BY <1>1, <1>2, <2>2, AcceptedAfter
<1>4. wits'[e] = PutAll(wits[e], d.wits) /\ \A x \in Event \ {e} : wits'[x] = wits[x]
  BY <1>1, <1>2
<1>5. ASSUME NEW x \in Event
      PROVE  /\ wits'[x] = <<>> \/ wits'[x] = GovWits[x]
             /\ Establishment(x) /\ x \in Accepted(Ev[x].pre)' => wits'[x] = GovWits[x]
  <2>1. CASE x = e
    BY <1>1, <1>2, <1>4, <2>1, ListAfterPut
  <2>2. CASE x # e
    <3>1. wits'[x] = wits[x] /\ (x \in Accepted(Ev[x].pre)' => x \in Accepted(Ev[x].pre))
      BY <1>3, <1>4, <2>2, BodyFacts
    <3> QED BY <1>1, <3>1 DEF WitsStored
  <2> QED BY <2>1, <2>2
<1>6. WitsStored'
  BY <1>5 DEF WitsStored, Establishment
<1>7. RctsAccepted'
  <2> SUFFICES ASSUME NEW x \in Event, rcts'[x] # {} PROVE x \in Accepted(Ev[x].pre)'
    BY DEF RctsAccepted, Accepted
  <2>1. x \in Accepted(Ev[x].pre)
    BY <1>1, <1>2 DEF RctsAccepted
  <2> QED BY <1>3, <2>1, BodyFacts
<1>8. EstReceiptsFiled'
  <2> SUFFICES ASSUME NEW p \in Pre, NEW x \in Accepted(p)', Establishment(x), NEW c \in rcts'[x]
               PROVE  c.verfer \notin Range(GovWits[x])
    BY DEF EstReceiptsFiled, Accepted, Establishment
  <2>1. x \in Accepted(p)
    <3>1. x \in Accepted(p) \/ (x = e /\ p = Ev[e].pre)
      BY <1>3
    <3>2. x = e => rcts[x] = {}
      BY <1>1, <1>3 DEF RctsAccepted
    <3> QED BY <1>2, <3>1, <3>2
  <2> QED BY <1>1, <1>2, <2>1 DEF EstReceiptsFiled
<1> QED BY <1>6, <1>7, <1>8

LEMMA KeepingKeepsReceipts ==
    ASSUME AuthorityInv, Keeping, Filing
    PROVE  WitsStored' /\ RctsAccepted' /\ EstReceiptsFiled'
<1>1. /\ LogInv /\ TypeOK /\ WitsStored /\ RctsAccepted /\ EstReceiptsFiled
      /\ rcts \in [Event -> SUBSET Couple]
  BY DEF AuthorityInv, GovernedInv, ChainInv, TypeOK, StoresTypeOK
<1>2. fels' = fels /\ \A q : Accepted(q)' = Accepted(q)
  BY DEF Keeping, logged, Accepted
<1>3. WitsStored'
  <2> SUFFICES ASSUME NEW x \in Event
               PROVE  /\ wits'[x] = <<>> \/ wits'[x] = GovWits[x]
                      /\ Establishment(x) /\ x \in Accepted(Ev[x].pre)' => wits'[x] = GovWits[x]
    BY DEF WitsStored, Establishment
  <2>1. wits'[x] = wits[x] \/ wits'[x] = PutAll(wits[x], GovWits[x])
    BY DEF Keeping
  <2>2. /\ wits'[x] = <<>> \/ wits'[x] = GovWits[x]
        /\ wits[x] = GovWits[x] => wits'[x] = GovWits[x]
    BY <1>1, <2>1, ListAfterPut
  <2> QED BY <1>1, <1>2, <2>2 DEF WitsStored
<1>4. ASSUME NEW x \in Event, NEW c \in rcts'[x]
      PROVE  /\ x \in Accepted(Ev[x].pre)
             /\ Establishment(x) => c.verfer \notin Range(GovWits[x])
  <2>1. CASE c \in rcts[x]
    <3>1. x \in Accepted(Ev[x].pre)
      BY <1>1, <2>1 DEF RctsAccepted
    <3> QED BY <1>1, <2>1, <3>1, BodyFacts DEF EstReceiptsFiled
  <2>2. CASE c \notin rcts[x]
    <3>1. PICK e \in Event : \E cs :
             /\ ReceiptTarget(e) = "accepted"
             /\ \A a \in cs : a.verfer \notin Range(AcceptedWits(e))
             /\ rcts' = [rcts EXCEPT ![e] = @ \cup cs]
      BY <1>4, <2>2 DEF Filing
    <3>2. x = e /\ ReceiptTarget(x) = "accepted" /\ c.verfer \notin Range(AcceptedWits(x))
      BY <1>1, <1>4, <2>2, <3>1
    <3> QED BY <1>1, <3>2, TargetAccepted, TargetList
  <2> QED BY <2>1, <2>2
<1>5. RctsAccepted'
  BY <1>2, <1>4 DEF RctsAccepted
<1>6. EstReceiptsFiled'
  <2> SUFFICES ASSUME NEW p \in Pre, NEW x \in Accepted(p)', Establishment(x), NEW c \in rcts'[x]
               PROVE  c.verfer \notin Range(GovWits[x])
    BY DEF EstReceiptsFiled, Accepted, Establishment
  <2>1. x \in Event
    BY <1>1, <1>2, AcceptedOf
  <2> QED BY <1>4, <2>1
<1> QED BY <1>3, <1>5, <1>6

------------------------------------------------------------------------------
(* The theorems *)

LEMMA KeepingKeepsAuthority ==
    ASSUME AuthorityInv, GovernedInv', Keeping, Filing PROVE AuthorityInv'
<1>1. LogInv /\ Vouched
  BY DEF AuthorityInv, GovernedInv, ChainInv
<1>2. MaterialTypes'
  BY DEF GovernedInv, TypeOK, StoresTypeOK, MaterialTypes
<1>3. Vouched'
  BY <1>1, <1>2, KeepingKeepsVouched
<1>4. WitsStored' /\ RctsAccepted' /\ EstReceiptsFiled'
  BY KeepingKeepsReceipts
<1> QED BY <1>3, <1>4 DEF AuthorityInv

LEMMA NextKeepsAuthority ==
    ASSUME AuthorityInv, [Next]_vars PROVE AuthorityInv'
<1>1. GovernedInv /\ GovernedInv' /\ TypeOK /\ Vouched
  BY NextKeepsGoverned DEF AuthorityInv, GovernedInv
<1>2. MaterialTypes'
  BY <1>1 DEF GovernedInv, TypeOK, StoresTypeOK, MaterialTypes
<1>3. ASSUME NEW e \in Event, NEW in, Accepts(e, in, DecideEvent(e, in))
      PROVE  AuthorityInv'
  <2>1. PICK d : d = DecideEvent(e, in)
    OBVIOUS
  <2>2. Accepts(e, in, d)
    BY <1>3, <2>1
  <2>3. Vouched'
    BY <1>1, <1>2, <2>2, AcceptsKeepsVouched
  <2>4. WitsStored' /\ RctsAccepted' /\ EstReceiptsFiled'
    BY <2>2, AcceptsKeepsReceipts
  <2> QED BY <1>1, <2>3, <2>4 DEF AuthorityInv
<1>4. CASE Keeping /\ (UNCHANGED rcts \/ ReceiptStep)
  <2>1. Filing
    BY <1>1, <1>4, ReceiptsFile DEF Filing
  <2> QED BY <1>1, <1>4, <2>1, KeepingKeepsAuthority
<1> QED BY <1>1, <1>3, <1>4, HandlerKinds

LEMMA RestartKeepsAuthority ==
    ASSUME AuthorityInv, Pre \subseteq Habs, Restart PROVE AuthorityInv'
<1>1. GovernedInv' /\ UNCHANGED logged
  BY RestartKeepsGoverned, RestartKeepsLogInv DEF AuthorityInv, GovernedInv, ChainInv
<1>2. Keeping /\ Filing
  BY <1>1 DEF Restart, eventStores, receiptStores, Keeping, Filing
<1> QED BY <1>1, <1>2, KeepingKeepsAuthority

LEMMA InitAuthority == Init => AuthorityInv
<1> SUFFICES ASSUME Init PROVE AuthorityInv
  OBVIOUS
<1>1. \A p \in Pre : Accepted(p) = {}
  BY DEF Init, InitStores, Accepted, Range
<1>2. \A e \in Event : wits[e] = <<>> /\ rcts[e] = {}
  BY DEF Init, InitStores
<1>3. WitsStored
  BY <1>1, <1>2, BodyFacts DEF WitsStored
<1> QED BY <1>1, <1>2, <1>3, InitGoverned
        DEF AuthorityInv, Vouched, RctsAccepted, EstReceiptsFiled

LEMMA AuthorityInvariant == Spec => []AuthorityInv
<1>1. Init => AuthorityInv
  BY InitAuthority
<1>2. AuthorityInv /\ [Next]_vars => AuthorityInv'
  BY NextKeepsAuthority
<1> QED BY <1>1, <1>2, PTL DEF Spec

(***************************************************************************)
(* validateAttachments: an accepted event carries stored signatures that   *)
(* reach the threshold of the establishment event governing it on its own  *)
(* chain, a rotation also exposes enough of the keys the one before        *)
(* committed to, in however many messages and escrows they came.           *)
(***************************************************************************)
THEOREM AcceptedAreAuthorized == Spec => []AcceptedAuthorized
<1>1. AuthorityInv => AcceptedAuthorized
  BY DEF AuthorityInv, Vouched, AuthorizedBy, AcceptedAuthorized
<1> QED BY <1>1, AuthorityInvariant, PTL

(***************************************************************************)
(* validateAttachments, storeVerifiedDetachedReceiptMaterial,              *)
(* processEscrowFindUnver: an accepted event of a remote identifier none   *)
(* of whose witnesses is local carries the signatures of its threshold of  *)
(* the witnesses its own chain puts in force.                              *)
(***************************************************************************)
THEOREM AcceptedAreWitnessed == Spec => []AcceptedWitnessed
<1>1. AuthorityInv => AcceptedWitnessed
  BY DEF AuthorityInv, Vouched, WitnessedBy, AcceptedWitnessed
<1> QED BY <1>1, AuthorityInvariant, PTL

(***************************************************************************)
(* validateAttachments misfit rule: an event of an identifier this node    *)
(* owns, or one of whose witnesses is local, is accepted only from a local *)
(* source, whatever escrow it waited in.                                   *)
(***************************************************************************)
THEOREM ProtectedAreLocal == Spec => []ProtectedOnlyLocal
<1>1. AuthorityInv => ProtectedOnlyLocal
  BY DEF AuthorityInv, Vouched, ProtectedOnlyLocal
<1> QED BY <1>1, AuthorityInvariant, PTL

(***************************************************************************)
(* resolveAcceptedEventWitnesses, resolvePartialWitnessEscrowWitnesses:    *)
(* the receipt of a witness of an accepted establishment event is never    *)
(* filed with the receipts of strangers, whenever it came and however      *)
(* often the witnesses changed since.                                      *)
(***************************************************************************)
THEOREM WitnessReceiptsCounted == Spec => []EstReceiptsFiled
<1>1. AuthorityInv => EstReceiptsFiled
  BY DEF AuthorityInv
<1> QED BY <1>1, AuthorityInvariant, PTL

(***************************************************************************)
(* reloadKevers: the same when the node stops between handlers and starts  *)
(* again any number of times, if it only follows its own identifiers.      *)
(***************************************************************************)
THEOREM AuthorityAcrossRestarts ==
    ASSUME Pre \subseteq Habs
    PROVE  RestartSpec => [](AcceptedAuthorized /\ ProtectedOnlyLocal /\ EstReceiptsFiled)
<1>1. Init => AuthorityInv
  BY InitAuthority
<1>2. AuthorityInv /\ [Next \/ Restart]_vars => AuthorityInv'
  BY NextKeepsAuthority, RestartKeepsAuthority
<1>3. AuthorityInv => AcceptedAuthorized /\ ProtectedOnlyLocal /\ EstReceiptsFiled
  BY DEF AuthorityInv, Vouched, AuthorizedBy, AcceptedAuthorized, ProtectedOnlyLocal
<1> QED BY <1>1, <1>2, <1>3, PTL DEF RestartSpec
==============================================================================
