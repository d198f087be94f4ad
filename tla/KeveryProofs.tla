----------------------------- MODULE KeveryProofs -----------------------------
(***************************************************************************)
(* Proofs about the key event log for every set of identifiers, events and *)
(* messages.  Every handler either leaves the log, the key state and the   *)
(* cache alone or first sees one new event that the key state of its       *)
(* identifier accepts (HandlerStep); that step preserves LogInv.           *)
(***************************************************************************)
EXTENDS KeveryProperties, SequenceTheorems, TLAPS

(* What the proofs follow: all that first seeing an event changes.         *)
logged == <<kels, fels, fons, states, kevers>>

------------------------------------------------------------------------------
(* Decisions *)

(***************************************************************************)
(* validateAttachments accepts with the key state it was given and answers *)
(* with no other kind than accept, reject or one of the escrows.           *)
(***************************************************************************)
LEMMA AttachmentKinds ==
    ASSUME NEW e, NEW gov, NEW nextKeys, NEW nextTholder, NEW in, NEW ks, NEW lst
    PROVE  LET d == AttachmentDecision(e, gov, nextKeys, nextTholder, in, ks, lst) IN
           /\ d.kind \in {"accept", "reject"} \cup EscrowKind
           /\ d.kind = "accept" => d.state = ks
<1> DEFINE v == AttachmentVerdict(e, gov, nextKeys, nextTholder, in)
<1>1. v \in {"accept", "reject", "misfit", "partialSigs", "partialWigs"}
  BY DEF AttachmentVerdict
<1>2. CASE v = "reject"
  BY <1>2 DEF AttachmentDecision, Reject, Decision, EscrowKind
<1>3. CASE v = "accept"
  BY <1>3 DEF AttachmentDecision, Accept, Decision, EscrowKind
<1>4. CASE v \in {"misfit", "partialSigs", "partialWigs"}
  BY <1>4 DEF AttachmentDecision, Escrow, Decision, EscrowKind
<1> QED BY <1>1, <1>2, <1>3, <1>4

(***************************************************************************)
(* The key state an accepted event leads to, and how the event stands to   *)
(* the key state before.                                                   *)
(***************************************************************************)
StandsAt(n, e) == IsHead(n) /\ n.d = e /\ n.s = Ev[e].sn

Incepts(ks, e, n) ==
    ks = NoState /\ Ev[e].ilk = "icp" /\ Ev[e].sn = 0 /\ n.est.s = 0

Rotates(ks, e, n) ==
    /\ ks # NoState /\ Ev[e].ilk = "rot"
    /\ Follows(ks, e) \/ Recovers(ks, e)
    /\ n.est.s = Ev[e].sn

Interacts(ks, e, n) ==
    ks # NoState /\ Ev[e].ilk = "ixn" /\ Follows(ks, e) /\ n.est.s = ks.est.s

Moves(ks, e, n) ==
    StandsAt(n, e) /\ (Incepts(ks, e, n) \/ Rotates(ks, e, n) \/ Interacts(ks, e, n))

Kinds == {"accept", "reject"} \cup EscrowKind

(* evaluateInception accepts an inception body at sn 0.                    *)
LEMMA InceptionAccepts ==
    ASSUME NEW e \in Event, NEW in, Ev[e].ilk = "icp"
    PROVE  LET d == EvaluateInception(e, in) IN
           d.kind \in Kinds /\ (d.kind = "accept" => Moves(NoState, e, d.state))
<1>1. CASE ~ValidInception(e)
  BY <1>1 DEF EvaluateInception, Reject, Decision, Kinds
<1>2. CASE ValidInception(e)
  <2>1. /\ EvaluateInception(e, in).kind \in Kinds
        /\ EvaluateInception(e, in).kind = "accept" =>
              EvaluateInception(e, in).state = InitialKeyState(e)
    BY <1>2, AttachmentKinds DEF EvaluateInception, Kinds
  <2>2. Ev[e].sn = 0 /\ 0 \in Sn
    BY <1>2, EventAssumption DEF ValidInception, Sn
  <2>3. StandsAt(InitialKeyState(e), e) /\ InitialKeyState(e).est.s = 0
    BY <2>2 DEF InitialKeyState, StandsAt, IsHead
  <2> QED BY <2>1, <2>2, <2>3 DEF Incepts, Moves
<1> QED BY <1>1, <1>2

(* evaluateRotation accepts a rotation that follows or recovers.           *)
LEMMA RotationAccepts ==
    ASSUME NEW ks, ks # NoState, IsHead(ks), NEW e \in Event, NEW in, Ev[e].ilk = "rot"
    PROVE  LET d == EvaluateRotation(ks, e, in) IN
           d.kind \in Kinds /\ (d.kind = "accept" => Moves(ks, e, d.state))
<1> DEFINE n == RotatedKeyState(ks, e)
           placed == Recovers(ks, e) \/ Follows(ks, e)
           d == EvaluateRotation(ks, e, in)
<1>1. d.kind \in Kinds /\ (d.kind = "accept" => placed /\ d.state = n)
  BY AttachmentKinds DEF EvaluateRotation, Escrow, Reject, Decision, EscrowKind, Kinds
<1>2. StandsAt(n, e) /\ n.est.s = Ev[e].sn
  <2>1. Ev[e].sn \in Sn
    BY EventAssumption DEF Body
  <2> QED BY <2>1 DEF RotatedKeyState, StandsAt, IsHead
<1> QED BY <1>1, <1>2 DEF Rotates, Moves

(* evaluateInteraction accepts an interaction that follows.                *)
LEMMA InteractionAccepts ==
    ASSUME NEW ks, ks # NoState, IsHead(ks), NEW e \in Event, NEW in, Ev[e].ilk = "ixn"
    PROVE  LET d == EvaluateInteraction(ks, e, in) IN
           d.kind \in Kinds /\ (d.kind = "accept" => Moves(ks, e, d.state))
<1> DEFINE n == InteractedKeyState(ks, e)
           d == EvaluateInteraction(ks, e, in)
<1>1. d.kind \in Kinds /\ (d.kind = "accept" => Follows(ks, e) /\ d.state = n)
  BY AttachmentKinds DEF EvaluateInteraction, Escrow, Reject, Decision, EscrowKind, Kinds
<1>2. StandsAt(n, e) /\ n.est.s = ks.est.s
  <2>1. Ev[e].sn \in Sn
    BY EventAssumption DEF Body
  <2> QED BY <2>1 DEF InteractedKeyState, StandsAt, IsHead
<1> QED BY <1>1, <1>2 DEF Interacts, Moves

(* evaluateUpdate accepts one of the two.                                  *)
LEMMA UpdateAccepts ==
    ASSUME NEW ks, ks # NoState, IsHead(ks), NEW e \in Event, NEW in
    PROVE  LET d == EvaluateUpdate(ks, e, in) IN
           d.kind \in Kinds /\ (d.kind = "accept" => Moves(ks, e, d.state))
<1> DEFINE d == EvaluateUpdate(ks, e, in)
<1>1. CASE Ev[e].pre \in Transferable /\ Ev[e].ilk = "rot"
  BY <1>1, RotationAccepts DEF EvaluateUpdate
<1>2. CASE Ev[e].pre \in Transferable /\ Ev[e].ilk = "ixn"
  BY <1>2, InteractionAccepts DEF EvaluateUpdate
<1>3. CASE Ev[e].pre \notin Transferable \/ Ev[e].ilk \notin {"rot", "ixn"}
  <2>1. d = Reject
    BY <1>3 DEF EvaluateUpdate
  <2> QED BY <2>1 DEF Reject, Decision, Kinds
<1> QED BY <1>1, <1>2, <1>3

(***************************************************************************)
(* decideEvent: what is accepted moves the durable key state, and what is  *)
(* found a duplicate is in the key event log already.                      *)
(***************************************************************************)
InKel(e) ==
    LET column == kels[Ev[e].pre][Ev[e].sn] IN \E i \in DOMAIN column : column[i] = e

LEMMA BodyFacts ==
    ASSUME NEW e \in Event
    PROVE  /\ Ev[e].pre \in Pre /\ Ev[e].sn \in Sn /\ Ev[e].ilk \in Ilk
           /\ Sn \subseteq Nat /\ 0 \in Sn
BY EventAssumption DEF Body, Sn

LEMMA LastAtInKel ==
    ASSUME LogTypeOK, NEW p \in Pre, NEW sn, LastAt(p, sn) # NoEvent
    PROVE  /\ sn \in Sn /\ LastAt(p, sn) \in Event
           /\ \E i \in DOMAIN kels[p][sn] : kels[p][sn][i] = LastAt(p, sn)
<1>1. sn \in Sn /\ kels[p][sn] # <<>> /\ LastAt(p, sn) = kels[p][sn][Len(kels[p][sn])]
  BY DEF LastAt
<1>2. kels[p][sn] \in Seq(Event)
  BY <1>1 DEF LogTypeOK
<1>3. Len(kels[p][sn]) \in DOMAIN kels[p][sn] /\ kels[p][sn][Len(kels[p][sn])] \in Event
  BY <1>1, <1>2
<1> QED BY <1>1, <1>3

LEMMA Decides ==
    ASSUME LogInv, NEW e \in Event, NEW in
    PROVE  LET d == DecideEvent(e, in) IN
           /\ d.kind \in Kinds \cup {"duplicate"}
           /\ d.kind = "accept" => Moves(states[Ev[e].pre], e, d.state)
           /\ d.kind = "duplicate" => InKel(e)
<1> DEFINE p == Ev[e].pre
           ks == kevers[p]
           d == DecideEvent(e, in)
<1>1. p \in Pre /\ ks = states[p] /\ Ev[e].ilk \in Ilk
  BY BodyFacts DEF LogInv, CacheIsDurable
<1>2. ks # NoState => IsHead(ks)
  BY <1>1 DEF LogInv, LogTypeOK
<1>3. \A kind \in {"ooo", "duplicitous"} : Escrow(kind, in, <<>>).kind \in Kinds \ {"accept"}
  BY DEF Escrow, Decision, Kinds, EscrowKind
<1>4. \A s : DuplicateDecision(s, e, in).kind = "duplicate"
  BY DEF DuplicateDecision, Decision
<1>5. "duplicate" \notin Kinds /\ Reject.kind = "reject" /\ "reject" \in Kinds
  BY DEF Kinds, EscrowKind, Reject, Decision
<1>6. CASE ks = NoState
  <2>1. CASE Ev[e].ilk = "icp"
    BY <1>1, <1>5, <1>6, <2>1, InceptionAccepts DEF DecideEvent, Known
  <2>2. CASE Ev[e].ilk # "icp"
    BY <1>3, <1>5, <1>6, <2>2 DEF DecideEvent, Known
  <2> QED BY <2>1, <2>2
<1>7. CASE ks # NoState /\ Ev[e].ilk = "icp"
  <2>1. d.kind \in (Kinds \ {"accept"}) \cup {"duplicate"}
    BY <1>3, <1>4, <1>5, <1>7 DEF DecideEvent, Known
  <2>2. d.kind = "duplicate" => ks.d = e
    BY <1>3, <1>5, <1>7 DEF DecideEvent, Known
  <2>3. ASSUME ks.d = e PROVE InKel(e)
    <3>1. fels[p] \in Seq(Event) /\ fels[p] # <<>> /\ e = fels[p][Len(fels[p])]
      BY <1>1, <1>7, <2>3 DEF LogInv, LogTypeOK, HeadIsLast
    <3>2. Len(fels[p]) \in DOMAIN fels[p]
      BY <3>1
    <3>3. \E i \in DOMAIN kels[p][Ev[e].sn] : kels[p][Ev[e].sn][i] = e
      BY <1>1, <3>1, <3>2 DEF LogInv, KelHoldsFel
    <3> QED BY <3>3 DEF InKel
  <2> QED BY <2>1, <2>2, <2>3, <1>5
<1>8. CASE ks # NoState /\ Ev[e].ilk # "icp"
  <2>1. CASE LastAt(p, Ev[e].sn) = e /\ Ev[e].sn <= ks.s
    <3>1. d.kind = "duplicate"
      BY <1>4, <1>8, <2>1 DEF DecideEvent, Known
    <3>2. InKel(e)
      BY <1>1, <2>1, LastAtInKel, EventAssumption DEF InKel, LogInv
    <3> QED BY <3>1, <3>2
  <2>2. CASE ~(LastAt(p, Ev[e].sn) = e /\ Ev[e].sn <= ks.s) /\ Ev[e].sn > ks.s + 1
    BY <1>3, <1>5, <1>8, <2>2 DEF DecideEvent, Known
  <2>3. CASE ~(LastAt(p, Ev[e].sn) = e /\ Ev[e].sn <= ks.s) /\ ~(Ev[e].sn > ks.s + 1)
    <3>1. d = EvaluateUpdate(ks, e, in)
      BY <1>8, <2>3 DEF DecideEvent, Known
    <3> QED BY <1>1, <1>2, <1>5, <1>8, <3>1, UpdateAccepts
  <2> QED BY <2>1, <2>2, <2>3
<1> QED BY <1>6, <1>7, <1>8

------------------------------------------------------------------------------
(* Steps *)

(***************************************************************************)
(* applyDecision of an acceptance: event e is first seen, and the key      *)
(* state of its identifier becomes n.                                      *)
(***************************************************************************)
Sees(e, n) ==
    LET p == Ev[e].pre
        seen == [n EXCEPT !.fn = Len(fels[p]) + 1]
    IN
    /\ Moves(states[p], e, n)
    /\ fels' = [fels EXCEPT ![p] = Append(@, e)]
    /\ fons' = [fons EXCEPT ![e] = Len(fels[p]) + 1]
    /\ kels' = [kels EXCEPT ![p][Ev[e].sn] = AddOnce(@, e)]
    /\ states' = [states EXCEPT ![p] = seen]
    /\ kevers' = [kevers EXCEPT ![p] = seen]

Contents ==
    /\ evts \in SUBSET Event
    /\ escrow \in [EscrowKind -> SUBSET Event]

(* Logging again what is in the key event log changes nothing of it.       *)
LEMMA AddedBefore ==
    ASSUME LogInv, NEW e \in Event, InKel(e)
    PROVE  [kels EXCEPT ![Ev[e].pre][Ev[e].sn] = AddOnce(@, e)] = kels
<1> DEFINE p == Ev[e].pre
           n == Ev[e].sn
<1>1. p \in Pre /\ n \in Sn /\ kels \in [Pre -> [Sn -> Seq(Event)]]
  BY BodyFacts DEF LogInv, LogTypeOK
<1>2. AddOnce(kels[p][n], e) = kels[p][n]
  BY DEF AddOnce, InKel, Range
<1> QED BY <1>1, <1>2

LEMMA Applied ==
    ASSUME LogInv, NEW e \in Event, NEW in, NEW local,
           NEW rows \in [EscrowKind -> SUBSET Event],
           Apply(AllWrites, e, DecideEvent(e, in), local, rows),
           kevers' = LiveAfter(e, DecideEvent(e, in))
    PROVE  /\ Contents'
           /\ IF DecideEvent(e, in).kind = "accept"
              THEN Sees(e, DecideEvent(e, in).state) ELSE UNCHANGED logged
<1> DEFINE d == DecideEvent(e, in)
           p == Ev[e].pre
<1>1. /\ d.kind \in Kinds \cup {"duplicate"}
      /\ d.kind = "accept" => Moves(states[p], e, d.state)
      /\ d.kind = "duplicate" => InKel(e)
  BY Decides
<1>2. evts \in SUBSET Event
  BY DEF LogInv, LogTypeOK
<1>3. /\ "accept" \notin EscrowKind /\ "duplicate" \notin EscrowKind
      /\ "reject" \notin EscrowKind
  BY DEF EscrowKind
<1>4. CASE d.kind = "accept"
  <2>1. /\ LogEvent(AllWrites, e, d.sigers, d.wigers, d.wits, local, TRUE)
        /\ PinState(AllWrites, p, SeenState(e, d)) /\ escrow' = rows
    BY <1>3, <1>4 DEF Apply
  <2>2. kevers' = [kevers EXCEPT ![p] = SeenState(e, d)]
    BY <1>4 DEF LiveAfter
  <2>3. Sees(e, d.state)
    BY <1>1, <1>4, <2>1, <2>2 DEF LogEvent, PinState, SeenState, Sees, AllWrites
  <2>4. evts' = evts \cup {e}
    BY <2>1 DEF LogEvent, StoreMaterial, AllWrites
  <2> QED BY <1>2, <1>4, <2>1, <2>3, <2>4 DEF Contents
<1>5. CASE d.kind = "duplicate" /\ NewAttachments(d)
  <2>1. /\ LogEvent(AllWrites, e, d.sigers, d.wigers, d.wits, local, FALSE)
        /\ escrow' = rows /\ UNCHANGED states
    BY <1>3, <1>5 DEF Apply
  <2>2. UNCHANGED <<kels, fels, fons>>
    BY <1>1, <1>5, <2>1, AddedBefore DEF LogEvent, AllWrites
  <2>3. evts' = evts \cup {e}
    BY <2>1 DEF LogEvent, StoreMaterial, AllWrites
  <2>4. kevers' = kevers
    BY <1>5 DEF LiveAfter
  <2> QED BY <1>2, <1>5, <2>1, <2>2, <2>3, <2>4 DEF Contents, logged
<1>6. CASE d.kind = "reject" \/ (d.kind = "duplicate" /\ ~NewAttachments(d))
  <2>1. escrow' = rows /\ UNCHANGED <<evts, kels, fels, fons, states>>
    BY <1>3, <1>6 DEF Apply
  <2>2. kevers' = kevers
    BY <1>6 DEF LiveAfter
  <2> QED BY <1>2, <1>6, <2>1, <2>2 DEF Contents, logged
<1>7. CASE d.kind \in EscrowKind
  <2>1. /\ PersistEscrow(AllWrites, d.kind, e, d.sigers, d.wigers, d.wits, local, rows)
        /\ UNCHANGED <<kels, fels, fons, states>>
    BY <1>3, <1>7 DEF Apply
  <2>2. kevers' = kevers
    BY <1>3, <1>7 DEF LiveAfter
  <2>3. /\ evts' = evts \cup {e}
        /\ escrow' = [rows EXCEPT ![d.kind] = @ \cup {e}]
    BY <2>1 DEF PersistEscrow, StoreMaterial, AllWrites
  <2>4. escrow' \in [EscrowKind -> SUBSET Event]
    BY <1>7, <2>3
  <2> QED BY <1>2, <1>3, <1>7, <2>1, <2>2, <2>3, <2>4 DEF Contents, logged
<1>8. d.kind \in {"accept", "reject", "duplicate"} \cup EscrowKind
  BY <1>1 DEF Kinds
<1> QED BY <1>4, <1>5, <1>6, <1>7, <1>8

(* A read-through of the key state leaves the cache as it is.              *)
LEMMA RehydratedIsSame ==
    ASSUME LogInv, NEW p \in Pre PROVE Rehydrated(p) = kevers
<1>1. kevers = [q \in Pre |-> kevers[q]] /\ GetKever(p) = kevers[p]
  BY DEF GetKever, LogInv, LogTypeOK, CacheIsDurable
<1> QED BY <1>1 DEF Rehydrated

LEMMA CacheReads ==
    ASSUME LogInv, NEW e
    PROVE  TargetCache(e) = kevers /\ PartialCache(e) = kevers
<1>1. ReceiptTarget(e) = "accepted" => e \in Event
  BY DEF ReceiptTarget, LogInv, LogTypeOK
<1>2. Awaited(e) => e \in Event
  BY DEF Awaited, EscrowKind, LogInv, LogTypeOK
<1>3. e \in Event => Rehydrated(Ev[e].pre) = kevers
  BY BodyFacts, RehydratedIsSame
<1> QED BY <1>1, <1>2, <1>3 DEF TargetCache, PartialCache

(* No handler does more than first see one event.                          *)
LEMMA HandlerStep ==
    ASSUME LogInv, [Next]_vars
    PROVE  Contents' /\ ((\E e \in Event : \E n : Sees(e, n)) \/ UNCHANGED logged)
<1>1. Contents
  BY DEF Contents, LogInv, LogTypeOK
<1>2. ASSUME NEW m \in Messages, DeliverEvent(m)
      PROVE  Contents' /\ ((\E e \in Event : \E n : Sees(e, n)) \/ UNCHANGED logged)
  <2>1. m.ev \in Event
    BY MessageAssumption
  <2>2. /\ Apply(AllWrites, m.ev, DecideEvent(m.ev, m), m.local, escrow)
        /\ kevers' = LiveAfter(m.ev, DecideEvent(m.ev, m))
    BY <1>2 DEF DeliverEvent
  <2> QED BY <1>1, <2>1, <2>2, Applied DEF Contents
<1>3. ASSUME NEW k \in EscrowKind, NEW e \in Event, ReplayEscrow(k, e)
      PROVE  Contents' /\ ((\E x \in Event : \E n : Sees(x, n)) \/ UNCHANGED logged)
  <2>1. /\ Apply(AllWrites, e, DecideEvent(e, Rehydrate(e)), esrs[e] = "local",
                 WithoutRow(k, e))
        /\ kevers' = LiveAfter(e, DecideEvent(e, Rehydrate(e)))
    BY <1>3 DEF ReplayEscrow
  <2>2. WithoutRow(k, e) \in [EscrowKind -> SUBSET Event]
    BY <1>1 DEF WithoutRow, Contents
  <2> QED BY <2>1, <2>2, Applied
<1>4. ASSUME NEW r \in Receipts, DeliverReceipt(r)
      PROVE  Contents' /\ UNCHANGED logged
  <2>1. kevers' = TargetCache(r.ev) /\ UNCHANGED eventStores
    BY <1>4 DEF DeliverReceipt
  <2> QED BY <1>1, <2>1, CacheReads DEF eventStores, logged, Contents
<1>5. ASSUME NEW row \in uwes, ReplayWitnessReceipt(row)
      PROVE  Contents' /\ UNCHANGED logged
  <2>1. kevers' = PartialCache(row.ev) /\ UNCHANGED eventStores
    BY <1>5 DEF ReplayWitnessReceipt
  <2> QED BY <1>1, <2>1, CacheReads DEF eventStores, logged, Contents
<1>6. ASSUME NEW row \in ures, ReplayNonTransReceipt(row)
      PROVE  Contents' /\ UNCHANGED logged
  <2>1. UNCHANGED eventStores
    BY <1>6 DEF ReplayNonTransReceipt
  <2>2. kevers' = PartialCache(row.ev) \/ kevers' = TargetCache(row.ev)
    BY <1>6 DEF ReplayNonTransReceipt
  <2> QED BY <1>1, <2>1, <2>2, CacheReads DEF eventStores, logged, Contents
<1>7. ASSUME NEW row \in vres, ReplayTransReceipt(row)
      PROVE  Contents' /\ UNCHANGED logged
  <2>1. kevers' = TargetCache(row.ev) /\ UNCHANGED eventStores
    BY <1>7 DEF ReplayTransReceipt
  <2> QED BY <1>1, <2>1, CacheReads DEF eventStores, logged, Contents
<1>8. ASSUME ExpireReceipt
      PROVE  Contents' /\ UNCHANGED logged
  BY <1>1, <1>8 DEF ExpireReceipt, eventStores, logged, Contents
<1>9. ASSUME UNCHANGED vars
      PROVE  Contents' /\ UNCHANGED logged
  BY <1>1, <1>9 DEF vars, logged, Contents
<1> QED BY <1>2, <1>3, <1>4, <1>5, <1>6, <1>7, <1>8, <1>9 DEF Next

------------------------------------------------------------------------------
(* First seeing an event preserves the invariant *)

(* The prior of an event that is not an inception was seen before it.      *)
LEMMA PriorSeen ==
    ASSUME LogInv, NEW e \in Event, NEW n, Moves(states[Ev[e].pre], e, n),
           Ev[e].ilk # "icp"
    PROVE  \E i \in DOMAIN fels[Ev[e].pre] : fels[Ev[e].pre][i] = Ev[e].prior
<1> DEFINE p == Ev[e].pre
           ks == states[p]
<1>1. p \in Pre /\ fels[p] \in Seq(Event) /\ NoEvent \notin Event
  BY BodyFacts, EventAssumption DEF LogInv, LogTypeOK
<1>2. ks # NoState /\ (Follows(ks, e) \/ Recovers(ks, e))
  BY DEF Moves, Incepts, Rotates, Interacts
<1>3. CASE Follows(ks, e)
  <2>1. Ev[e].prior = fels[p][Len(fels[p])] /\ fels[p] # <<>>
    BY <1>1, <1>2, <1>3 DEF Follows, LogInv, HeadIsLast
  <2>2. Len(fels[p]) \in DOMAIN fels[p]
    BY <1>1, <2>1
  <2> QED BY <2>1, <2>2
<1>4. CASE Recovers(ks, e)
  <2> DEFINE sn == Ev[e].sn - 1
  <2>1. Ev[e].prior = LastAt(p, sn) /\ Ev[e].prior # NoEvent
    BY <1>1, <1>4 DEF Recovers, LogInv, LogTypeOK
  <2>2. sn \in Sn /\ \E i \in DOMAIN kels[p][sn] : kels[p][sn][i] = Ev[e].prior
    BY <1>1, <2>1, LastAtInKel DEF LogInv
  <2> QED BY <1>1, <2>2 DEF LogInv, KelHoldsFel
<1> QED BY <1>2, <1>3, <1>4

(***************************************************************************)
(* What the key state accepts was never seen before: an inception finds an *)
(* empty log; the prior of what follows the head is the last event seen;   *)
(* and what recovers is above every establishment event.                   *)
(***************************************************************************)
LEMMA NeverSeen ==
    ASSUME LogInv, NEW e \in Event, NEW n, Moves(states[Ev[e].pre], e, n)
    PROVE  \A j \in DOMAIN fels[Ev[e].pre] : fels[Ev[e].pre][j] # e
<1> DEFINE p == Ev[e].pre
           ks == states[p]
<1> SUFFICES ASSUME NEW j \in DOMAIN fels[p], fels[p][j] = e PROVE FALSE
  OBVIOUS
<1>1. p \in Pre /\ fels[p] \in Seq(Event) /\ j \in 1..Len(fels[p]) /\ Ev[e].sn \in Nat
  BY BodyFacts DEF LogInv, LogTypeOK
<1>2. CASE Incepts(ks, e, n)
  <2>1. fels[p] = <<>>
    BY <1>1, <1>2 DEF Incepts, LogInv, HeadIsLast
  <2> QED BY <1>1, <2>1
<1>3. CASE Ev[e].ilk # "icp" /\ ks # NoState /\ Follows(ks, e)
  <2>1. Ev[e].prior = fels[p][Len(fels[p])] /\ Len(fels[p]) \in DOMAIN fels[p]
    BY <1>1, <1>3 DEF Follows, LogInv, HeadIsLast
  <2>2. PICK i \in 1..(j - 1) : fels[p][i] = Ev[e].prior
    BY <1>1, <1>3 DEF LogInv, PriorBefore
  <2>3. fons[fels[p][i]] = i /\ fons[fels[p][Len(fels[p])]] = Len(fels[p])
    BY <1>1, <2>1, <2>2 DEF LogInv, FelNumbered
  <2> QED BY <1>1, <2>1, <2>2, <2>3
<1>4. CASE Ev[e].ilk = "rot" /\ ks # NoState /\ Recovers(ks, e)
  <2>1. Ev[e].sn <= ks.est.s
    BY <1>1, <1>4 DEF Establishment, LogInv, EstBelow
  <2>2. Ev[e].sn > ks.est.s /\ ks.est.s \in Nat
    BY <1>1, <1>4, BodyFacts DEF Recovers, LogInv, LogTypeOK, IsHead
  <2> QED BY <1>1, <2>1, <2>2
<1> QED BY <1>2, <1>3, <1>4 DEF Moves, Rotates, Interacts

(* How the log, the key state and the key event log look afterwards.       *)
LEMMA SeesShape ==
    ASSUME LogInv, NEW e \in Event, NEW n, Sees(e, n)
    PROVE  LET p == Ev[e].pre
               len == Len(fels[p])
               sn == Ev[e].sn
           IN
           /\ p \in Pre /\ sn \in Sn /\ len \in Nat
           /\ fels' \in [Pre -> Seq(Event)] /\ Len(fels'[p]) = len + 1
           /\ fels'[p][len + 1] = e
           /\ \A i \in 1..len : fels'[p][i] = fels[p][i]
           /\ \A q \in Pre \ {p} : fels'[q] = fels[q]
           /\ fons' \in [Event -> Nat] /\ fons'[e] = len + 1
           /\ \A x \in Event \ {e} : fons'[x] = fons[x]
           /\ kels' \in [Pre -> [Sn -> Seq(Event)]]
           /\ kels'[p][sn] = Append(kels[p][sn], e)
           /\ \A q \in Pre, m \in Sn : q # p \/ m # sn => kels'[q][m] = kels[q][m]
<1> DEFINE p == Ev[e].pre
           len == Len(fels[p])
           sn == Ev[e].sn
<1>1. p \in Pre /\ sn \in Sn /\ Sn \subseteq Nat
  BY BodyFacts
<1>2. fels \in [Pre -> Seq(Event)] /\ fons \in [Event -> Nat]
      /\ kels \in [Pre -> [Sn -> Seq(Event)]]
  BY DEF LogInv, LogTypeOK
<1>3. len \in Nat
  BY <1>1, <1>2
<1>4. /\ fels' \in [Pre -> Seq(Event)] /\ fels'[p] = Append(fels[p], e)
      /\ \A q \in Pre \ {p} : fels'[q] = fels[q]
  BY <1>1, <1>2 DEF Sees
<1>5. /\ fons' \in [Event -> Nat] /\ fons'[e] = len + 1
      /\ \A x \in Event \ {e} : fons'[x] = fons[x]
  BY <1>2, <1>3 DEF Sees
<1>6. AddOnce(kels[p][sn], e) = Append(kels[p][sn], e)
  <2>1. ASSUME NEW i \in DOMAIN kels[p][sn], kels[p][sn][i] = e PROVE FALSE
    <3>1. PICK j \in DOMAIN fels[p] : fels[p][j] = kels[p][sn][i]
      BY <1>1 DEF LogInv, KelHoldsFel
    <3>2. Moves(states[p], e, n)
      BY DEF Sees
    <3> QED BY <2>1, <3>1, <3>2, NeverSeen
  <2> QED BY <2>1 DEF AddOnce, Range
<1>7. /\ kels' \in [Pre -> [Sn -> Seq(Event)]]
      /\ kels'[p][sn] = Append(kels[p][sn], e)
      /\ \A q \in Pre, m \in Sn : q # p \/ m # sn => kels'[q][m] = kels[q][m]
  <2> DEFINE longer == Append(kels[p][sn], e)
             row == [kels[p] EXCEPT ![sn] = longer]
  <2>1. kels[p] \in [Sn -> Seq(Event)] /\ longer \in Seq(Event)
    <3>1. kels[p] \in [Sn -> Seq(Event)]
      BY <1>1, <1>2
    <3>2. kels[p][sn] \in Seq(Event)
      BY <1>1, <3>1
    <3> QED BY <3>1, <3>2, AppendProperties
  <2>2. kels' = [kels EXCEPT ![p] = row]
    BY <1>1, <1>2, <1>6 DEF Sees
  <2> HIDE DEF longer
  <2>3. /\ row \in [Sn -> Seq(Event)] /\ row[sn] = longer
        /\ \A m \in Sn : m # sn => row[m] = kels[p][m]
    BY <1>1, <2>1
  <2> HIDE DEF row
  <2>4. /\ kels' \in [Pre -> [Sn -> Seq(Event)]] /\ kels'[p] = row
        /\ \A q \in Pre : q # p => kels'[q] = kels[q]
    BY <1>1, <1>2, <2>2, <2>3
  <2>5. kels'[p][sn] = Append(kels[p][sn], e)
    BY <2>3, <2>4 DEF longer
  <2> QED BY <2>3, <2>4, <2>5
<1>8. /\ Len(fels'[p]) = len + 1 /\ fels'[p][len + 1] = e
      /\ \A i \in 1..len : fels'[p][i] = fels[p][i]
  <2>1. fels[p] \in Seq(Event)
    BY <1>1, <1>2
  <2> QED BY <1>4, <2>1
<1> QED BY <1>1, <1>3, <1>4, <1>5, <1>7, <1>8

(***************************************************************************)
(* Both logs grow by e and change nowhere else: what was there keeps its   *)
(* place, and what is there was there before or is e.                      *)
(***************************************************************************)
Keeps(old, new) == \A i \in DOMAIN old : i \in DOMAIN new /\ new[i] = old[i]
Brings(old, new, x) == \A i \in DOMAIN new : i \in DOMAIN old \/ (i = Len(old) + 1 /\ new[i] = x)
Holds(list, x) == \E i \in DOMAIN list : list[i] = x

LEMMA AppendGrows ==
    ASSUME NEW S, NEW s \in Seq(S), NEW x \in S
    PROVE  Keeps(s, Append(s, x)) /\ Brings(s, Append(s, x), x) /\ Holds(Append(s, x), x)
<1> DEFINE t == Append(s, x)
<1>1. /\ t \in Seq(S) /\ Len(t) = Len(s) + 1 /\ t[Len(s) + 1] = x
      /\ \A i \in 1..Len(s) : t[i] = s[i]
  BY AppendProperties
<1> HIDE DEF t
<1>2. DOMAIN s = 1..Len(s) /\ DOMAIN t = 1..(Len(s) + 1) /\ Len(s) \in Nat
  BY <1>1
<1>3. Keeps(s, t) /\ Brings(s, t, x) /\ Holds(t, x)
  BY <1>1, <1>2 DEF Keeps, Brings, Holds
<1> QED BY <1>3 DEF t

LEMMA AppendEnds ==
    ASSUME NEW S, NEW s \in Seq(S), NEW x \in S
    PROVE  Append(s, x) # <<>> /\ Append(s, x)[Len(Append(s, x))] = x
<1>1. /\ Append(s, x) # <<>> /\ Append(s, x)[Len(s) + 1] = x
      /\ Len(Append(s, x)) = Len(s) + 1
  BY AppendProperties
<1> QED BY <1>1

LEMMA Unchanged ==
    ASSUME NEW s, NEW x PROVE Keeps(s, s) /\ Brings(s, s, x)
BY DEF Keeps, Brings

LEMMA FelGrows ==
    ASSUME LogInv, NEW e \in Event, NEW n, Sees(e, n)
    PROVE  /\ \A q \in Pre : Keeps(fels[q], fels'[q])
           /\ \A q \in Pre : Brings(fels[q], fels'[q], e)
           /\ \A q \in Pre \ {Ev[e].pre} : fels'[q] = fels[q]
           /\ Holds(fels'[Ev[e].pre], e)
<1> DEFINE p == Ev[e].pre
<1>1. /\ p \in Pre
      /\ \A q \in Pre : fels[q] \in Seq(Event)
      /\ fels' = [fels EXCEPT ![p] = Append(@, e)]
      /\ fels = [q \in Pre |-> fels[q]]
  BY BodyFacts DEF Sees, LogInv, LogTypeOK
<1>2. fels'[p] = Append(fels[p], e) /\ \A q \in Pre \ {p} : fels'[q] = fels[q]
  BY <1>1
<1>3. Keeps(fels[p], fels'[p]) /\ Brings(fels[p], fels'[p], e) /\ Holds(fels'[p], e)
  BY <1>1, <1>2, AppendGrows
<1>4. \A q \in Pre \ {p} : Keeps(fels[q], fels'[q]) /\ Brings(fels[q], fels'[q], e)
  BY <1>2, Unchanged
<1> QED BY <1>2, <1>3, <1>4

LEMMA KelGrows ==
    ASSUME LogInv, NEW e \in Event, NEW n, Sees(e, n)
    PROVE  LET p == Ev[e].pre
               sn == Ev[e].sn
           IN
           /\ \A q \in Pre, m \in Sn : Keeps(kels[q][m], kels'[q][m])
           /\ \A q \in Pre, m \in Sn : q # p \/ m # sn => kels'[q][m] = kels[q][m]
           /\ Brings(kels[p][sn], kels'[p][sn], e) /\ Holds(kels'[p][sn], e)
<1> DEFINE p == Ev[e].pre
           sn == Ev[e].sn
<1>1. p \in Pre /\ sn \in Sn /\ kels[p][sn] \in Seq(Event)
  BY BodyFacts DEF LogInv, LogTypeOK
<1>2. /\ kels'[p][sn] = Append(kels[p][sn], e)
      /\ \A q \in Pre, m \in Sn : q # p \/ m # sn => kels'[q][m] = kels[q][m]
  BY SeesShape
<1>3. /\ Keeps(kels[p][sn], kels'[p][sn]) /\ Brings(kels[p][sn], kels'[p][sn], e)
      /\ Holds(kels'[p][sn], e)
  <2> DEFINE s == kels[p][sn]
  <2>1. s \in Seq(Event) /\ kels'[p][sn] = Append(s, e)
    BY <1>1, <1>2
  <2> HIDE DEF s
  <2>2. Keeps(s, Append(s, e)) /\ Brings(s, Append(s, e), e) /\ Holds(Append(s, e), e)
    BY <2>1, AppendGrows
  <2> QED BY <2>1, <2>2 DEF s
<1>4. \A q \in Pre, m \in Sn : q # p \/ m # sn => Keeps(kels[q][m], kels'[q][m])
  <2> SUFFICES ASSUME NEW q \in Pre, NEW m \in Sn, q # p \/ m # sn
               PROVE  Keeps(kels[q][m], kels'[q][m])
    OBVIOUS
  <2>1. kels'[q][m] = kels[q][m]
    BY <1>2
  <2> QED BY <2>1, Unchanged
<1> QED BY <1>2, <1>3, <1>4

(* How the durable key state and the live one look afterwards.             *)
LEMMA SeesState ==
    ASSUME LogInv, NEW e \in Event, NEW n, Sees(e, n)
    PROVE  LET p == Ev[e].pre IN
           /\ states'[p] # NoState /\ IsHead(states'[p])
           /\ states'[p].d = e /\ states'[p].s = Ev[e].sn
           /\ states'[p].est.s = n.est.s /\ states'[p].fn = Len(fels[p]) + 1
           /\ kevers'[p] = states'[p]
           /\ \A q \in Pre \ {p} : states'[q] = states[q] /\ kevers'[q] = kevers[q]
           /\ states' = [q \in Pre |-> states'[q]] /\ kevers' = [q \in Pre |-> kevers'[q]]
<1> DEFINE p == Ev[e].pre
           seen == [n EXCEPT !.fn = Len(fels[p]) + 1]
<1>1. p \in Pre /\ Len(fels[p]) \in Nat /\ NoEvent \notin Event
  BY SeesShape, EventAssumption
<1>2. IsHead(n) /\ n.d = e /\ n.s = Ev[e].sn
  BY DEF Sees, Moves, StandsAt
<1>3. /\ IsHead(seen) /\ seen.d = e /\ seen.s = Ev[e].sn
      /\ seen.est.s = n.est.s /\ seen.fn = Len(fels[p]) + 1
  BY <1>1, <1>2 DEF IsHead
<1>4. seen # NoState
  BY <1>1, <1>3 DEF NoState
<1>5. states = [q \in Pre |-> states[q]] /\ kevers = [q \in Pre |-> kevers[q]]
  BY DEF LogInv, LogTypeOK
<1>6. states' = [states EXCEPT ![p] = seen] /\ kevers' = [kevers EXCEPT ![p] = seen]
  BY DEF Sees
<1>7. states'[p] = seen /\ kevers'[p] = seen
  BY <1>1, <1>5, <1>6
<1>8. /\ \A q \in Pre \ {p} : states'[q] = states[q] /\ kevers'[q] = kevers[q]
      /\ states' = [q \in Pre |-> states'[q]] /\ kevers' = [q \in Pre |-> kevers'[q]]
  BY <1>1, <1>5, <1>6
<1> QED BY <1>3, <1>4, <1>7, <1>8

(* The last establishment event only moves up.                             *)
LEMMA EstRises ==
    ASSUME LogInv, NEW e \in Event, NEW n, Moves(states[Ev[e].pre], e, n)
    PROVE  LET ks == states[Ev[e].pre] IN
           /\ n.est.s <= Ev[e].sn
           /\ Establishment(e) => n.est.s = Ev[e].sn
           /\ ks # NoState => n.est.s >= ks.est.s
           /\ ks # NoState => Ev[e].sn > ks.est.s
<1> DEFINE ks == states[Ev[e].pre]
<1>1. Ev[e].pre \in Pre /\ Ev[e].sn \in Nat
  BY BodyFacts
<1>2. ks # NoState => ks.est.s \in Nat /\ ks.s \in Nat /\ ks.est.s <= ks.s
  BY <1>1, BodyFacts DEF LogInv, LogTypeOK, IsHead, HeadIsLast
<1>3. CASE Incepts(ks, e, n)
  BY <1>1, <1>3 DEF Incepts
<1>4. CASE Rotates(ks, e, n)
  BY <1>1, <1>2, <1>4 DEF Rotates, Follows, Recovers
<1>5. CASE Interacts(ks, e, n)
  BY <1>1, <1>2, <1>5 DEF Interacts, Follows, Establishment
<1> QED BY <1>3, <1>4, <1>5 DEF Moves

LEMMA SeesKeepsLogInv ==
    ASSUME LogInv, NEW e \in Event, NEW n, Sees(e, n), Contents'
    PROVE  LogInv'
<1> DEFINE p == Ev[e].pre
           len == Len(fels[p])
           sn == Ev[e].sn
<1>1. Moves(states[p], e, n)
  BY DEF Sees
<1>2. p \in Pre /\ sn \in Sn /\ len \in Nat /\ sn \in Nat
  BY SeesShape, BodyFacts
<1>3. \A q \in Pre : fels[q] \in Seq(Event) /\ fels'[q] \in Seq(Event)
  BY SeesShape DEF LogInv, LogTypeOK
<1>4. LogTypeOK'
  <2>1. \A q \in Pre : states'[q] # NoState => IsHead(states'[q])
    BY SeesState DEF LogInv, LogTypeOK
  <2> QED BY <2>1, SeesShape, SeesState DEF LogTypeOK, Contents, IsHead
<1>5. CacheIsDurable'
  BY SeesState DEF CacheIsDurable, LogInv
<1>6. HeadIsLast'
  <2> SUFFICES ASSUME NEW q \in Pre
               PROVE  HeadIsLast!(q)'
    BY DEF HeadIsLast
  <2>1. CASE q = p
    <3>1. Len(fels'[p]) = len + 1 /\ fels'[p][len + 1] = e
      BY SeesShape
    <3>2. /\ states'[p] # NoState /\ states'[p].d = e /\ states'[p].s = sn
          /\ states'[p].fn = len + 1 /\ states'[p].est.s = n.est.s
      BY SeesState
    <3>3. fels'[p] # <<>> /\ states'[p].d = fels'[p][Len(fels'[p])]
      BY <1>2, <1>3, <3>1, <3>2
    <3>4. states'[p].est.s <= states'[p].s
      BY <1>1, <3>2, EstRises
    <3> HIDE DEF p, sn, len
    <3>5. states'[p].s = Ev[states'[p].d].sn /\ states'[p].fn = Len(fels'[p])
      BY <3>1, <3>2 DEF sn
    <3> QED BY <2>1, <3>2, <3>3, <3>4, <3>5
  <2>2. CASE q # p
    <3>1. fels'[q] = fels[q] /\ states'[q] = states[q]
      BY <2>2, SeesShape, SeesState
    <3> QED BY <3>1 DEF LogInv, HeadIsLast
  <2> QED BY <2>1, <2>2
<1>7. KelHoldsFel'
  <2>1. ASSUME NEW q \in Pre, NEW m \in Sn, NEW i \in DOMAIN kels'[q][m]
        PROVE  /\ Ev[kels'[q][m][i]].sn = m
               /\ \E j \in DOMAIN fels'[q] : fels'[q][j] = kels'[q][m][i]
    <3>1. CASE q = p /\ m = sn /\ kels'[q][m][i] = e
      BY <3>1, FelGrows DEF Holds
    <3>2. CASE i \in DOMAIN kels[q][m]
      <4>1. kels'[q][m][i] = kels[q][m][i]
        BY <3>2, KelGrows DEF Keeps
      <4>2. Ev[kels[q][m][i]].sn = m
        BY <3>2 DEF LogInv, KelHoldsFel
      <4>3. PICK j \in DOMAIN fels[q] : fels[q][j] = kels[q][m][i]
        BY <3>2 DEF LogInv, KelHoldsFel
      <4>4. j \in DOMAIN fels'[q] /\ fels'[q][j] = fels[q][j]
        BY FelGrows DEF Keeps
      <4> QED BY <4>1, <4>2, <4>3, <4>4
    <3>3. CASE q # p \/ m # sn
      BY <3>2, <3>3, KelGrows
    <3>4. CASE q = p /\ m = sn
      BY <3>1, <3>2, <3>4, KelGrows DEF Brings
    <3> QED BY <3>3, <3>4
  <2>2. ASSUME NEW q \in Pre, NEW j \in DOMAIN fels'[q]
        PROVE  \E i \in DOMAIN kels'[q][Ev[fels'[q][j]].sn] :
                  kels'[q][Ev[fels'[q][j]].sn][i] = fels'[q][j]
    <3>1. CASE q = p /\ fels'[q][j] = e
      <4>1. \E i \in DOMAIN kels'[p][sn] : kels'[p][sn][i] = e
        BY KelGrows DEF Holds
      <4> QED BY <3>1, <4>1
    <3>2. CASE j \in DOMAIN fels[q]
      <4> DEFINE x == fels[q][j]
                 m == Ev[x].sn
      <4>1. fels'[q][j] = x
        BY <3>2, FelGrows DEF Keeps
      <4>2. x \in Event
        BY <1>3, <3>2
      <4>3. m \in Sn
        BY <4>2, BodyFacts
      <4>4. PICK i \in DOMAIN kels[q][m] : kels[q][m][i] = x
        BY <3>2 DEF LogInv, KelHoldsFel
      <4>5. i \in DOMAIN kels'[q][m] /\ kels'[q][m][i] = kels[q][m][i]
        BY <4>3, KelGrows DEF Keeps
      <4> QED BY <4>1, <4>4, <4>5
    <3>3. q = p \/ j \in DOMAIN fels[q]
      BY FelGrows
    <3> QED BY <3>1, <3>2, <3>3, FelGrows DEF Brings
  <2> QED BY <2>1, <2>2 DEF KelHoldsFel
<1>8. ASSUME NEW q \in Pre, NEW j \in DOMAIN fels'[q]
      PROVE  \/ q = p /\ j = len + 1 /\ fels'[q][j] = e
             \/ j \in DOMAIN fels[q] /\ fels'[q][j] = fels[q][j] /\ fels[q][j] # e
  <2>1. CASE j \in DOMAIN fels[q]
    <3>1. fels'[q][j] = fels[q][j] /\ Ev[fels[q][j]].pre = q
      BY <2>1, FelGrows DEF Keeps, LogInv, FelNumbered
    <3>2. \A i \in DOMAIN fels[p] : fels[p][i] # e
      BY <1>1, NeverSeen
    <3> QED BY <2>1, <3>1, <3>2
  <2>2. CASE j \notin DOMAIN fels[q]
    <3>1. q = p
      BY <2>2, FelGrows
    <3> QED BY <2>2, <3>1, FelGrows DEF Brings
  <2> QED BY <2>1, <2>2
<1>9. PriorBefore'
  <2> SUFFICES ASSUME NEW q \in Pre, NEW j \in DOMAIN fels'[q], Ev[fels'[q][j]].ilk # "icp"
               PROVE  \E i \in 1..(j - 1) : fels'[q][i] = Ev[fels'[q][j]].prior
    BY DEF PriorBefore
  <2>1. CASE q = p /\ j = len + 1 /\ fels'[q][j] = e
    <3>1. PICK i \in DOMAIN fels[p] : fels[p][i] = Ev[e].prior
      BY <1>1, <2>1, PriorSeen
    <3>2. i \in 1..len
      BY <1>2, <1>3, <3>1
    <3>3. fels'[p][i] = fels[p][i]
      BY <1>2, <3>1, FelGrows DEF Keeps
    <3> QED BY <1>2, <2>1, <3>1, <3>2, <3>3
  <2>2. CASE j \in DOMAIN fels[q] /\ fels'[q][j] = fels[q][j]
    <3>1. PICK i \in 1..(j - 1) : fels[q][i] = Ev[fels[q][j]].prior
      BY <2>2 DEF LogInv, PriorBefore
    <3>2. i \in DOMAIN fels[q]
      BY <1>3, <2>2, <3>1
    <3>3. fels'[q][i] = fels[q][i]
      BY <3>2, FelGrows DEF Keeps
    <3> QED BY <2>2, <3>1, <3>3
  <2> QED BY <1>8, <2>1, <2>2
<1>10. EstBelow'
  <2> SUFFICES ASSUME NEW q \in Pre, NEW j \in DOMAIN fels'[q], Establishment(fels'[q][j])
               PROVE  Ev[fels'[q][j]].sn <= states'[q].est.s
    BY DEF EstBelow, Establishment
  <2>1. CASE q = p /\ fels'[q][j] = e
    BY <1>1, <1>2, <2>1, EstRises, SeesState
  <2>2. CASE j \in DOMAIN fels[q] /\ fels'[q][j] = fels[q][j]
    <3>1. Ev[fels[q][j]].sn <= states[q].est.s /\ Ev[fels[q][j]].sn \in Nat
      BY <1>3, <2>2, BodyFacts DEF LogInv, EstBelow
    <3>2. CASE q = p
      <4>1. states[p] # NoState
        BY <1>3, <2>2, <3>2 DEF LogInv, HeadIsLast
      <4>2. states'[p].est.s = n.est.s /\ n.est.s >= states[p].est.s
        BY <1>1, <4>1, EstRises, SeesState
      <4>3. states[p].est.s \in Nat /\ states'[p].est.s \in Nat
        BY <1>2, <4>1, BodyFacts, SeesState DEF LogInv, LogTypeOK, IsHead
      <4> QED BY <2>2, <3>1, <3>2, <4>2, <4>3
    <3>3. CASE q # p
      BY <2>2, <3>1, <3>3, SeesState
    <3> QED BY <3>2, <3>3
  <2> QED BY <1>8, <2>1, <2>2
<1>11. FelNumbered'
  <2> SUFFICES ASSUME NEW q \in Pre, NEW j \in DOMAIN fels'[q]
               PROVE  Ev[fels'[q][j]].pre = q /\ fons'[fels'[q][j]] = j
    BY DEF FelNumbered
  <2>1. CASE q = p /\ j = len + 1 /\ fels'[q][j] = e
    BY <2>1, SeesShape
  <2>2. CASE j \in DOMAIN fels[q] /\ fels'[q][j] = fels[q][j] /\ fels[q][j] # e
    <3>1. fels[q][j] \in Event
      BY <1>3, <2>2
    <3>2. fons'[fels[q][j]] = fons[fels[q][j]]
      BY <2>2, <3>1, SeesShape
    <3> QED BY <2>2, <3>2 DEF LogInv, FelNumbered
  <2> QED BY <1>8, <2>1, <2>2
<1> QED BY <1>4, <1>5, <1>6, <1>7, <1>9, <1>10, <1>11 DEF LogInv

------------------------------------------------------------------------------
(* The invariant of the log *)

LEMMA SameKeepsLogInv ==
    ASSUME LogInv, Contents', UNCHANGED logged PROVE LogInv'
<1>1. LogTypeOK' /\ CacheIsDurable'
  BY DEF logged, LogInv, LogTypeOK, Contents, IsHead, CacheIsDurable
<1>2. HeadIsLast'
  BY DEF logged, LogInv, HeadIsLast
<1>3. KelHoldsFel' /\ PriorBefore'
  BY DEF logged, LogInv, KelHoldsFel, PriorBefore
<1>4. EstBelow' /\ FelNumbered'
  BY DEF logged, LogInv, EstBelow, FelNumbered
<1> QED BY <1>1, <1>2, <1>3, <1>4 DEF LogInv

LEMMA InitLogInv ==
    ASSUME Init PROVE LogInv
<1> USE DEF Init, InitStores
<1>1. LogTypeOK
  BY DEF LogTypeOK
<1>2. CacheIsDurable /\ HeadIsLast
  BY DEF CacheIsDurable, HeadIsLast
<1>3. KelHoldsFel /\ PriorBefore /\ EstBelow /\ FelNumbered
  BY DEF KelHoldsFel, PriorBefore, EstBelow, FelNumbered
<1> QED BY <1>1, <1>2, <1>3 DEF LogInv

LEMMA NextKeepsLogInv ==
    ASSUME LogInv, [Next]_vars PROVE LogInv'
BY HandlerStep, SeesKeepsLogInv, SameKeepsLogInv

(* A start reads back what was live when every identifier is local.        *)
LEMMA RestartKeepsLogInv ==
    ASSUME LogInv, Pre \subseteq Habs, Restart PROVE LogInv' /\ UNCHANGED logged
<1>1. UNCHANGED eventStores /\ kevers' = Reloaded(states)
  BY DEF Restart
<1>2. Reloaded(states) = kevers
  BY DEF Reloaded, LogInv, LogTypeOK, CacheIsDurable
<1>3. UNCHANGED logged /\ Contents'
  BY <1>1, <1>2 DEF eventStores, logged, Contents, LogInv, LogTypeOK
<1> QED BY <1>3, SameKeepsLogInv

(***************************************************************************)
(* processEvent, processEscrows, processReceipt: in every order of         *)
(* deliveries and replays the cache agrees with the durable state, the     *)
(* state stands at the last event first seen, and no establishment event   *)
(* is above the one it knows.                                              *)
(***************************************************************************)
THEOREM LogInvariant == Spec => []LogInv
<1>1. Init => LogInv
  BY InitLogInv
<1>2. LogInv /\ [Next]_vars => LogInv'
  BY NextKeepsLogInv
<1> QED BY <1>1, <1>2, PTL DEF Spec

(***************************************************************************)
(* reloadKevers: the same when the node stops and starts again any number  *)
(* of times, if it only follows its own identifiers.                       *)
(***************************************************************************)
THEOREM LogInvariantAcrossRestarts ==
    ASSUME Pre \subseteq Habs PROVE RestartSpec => []LogInv
<1>1. Init => LogInv
  BY InitLogInv
<1>2. LogInv /\ [Next \/ Restart]_vars => LogInv'
  BY NextKeepsLogInv, RestartKeepsLogInv
<1> QED BY <1>1, <1>2, PTL DEF RestartSpec

(***************************************************************************)
(* logEvent / appendFel: every accepted event is first seen once, under    *)
(* the ordinal of its place, and is in the key event log.                  *)
(***************************************************************************)
THEOREM FirstSeenIsOnce == Spec => []FirstSeenOnce
<1>1. LogInv => FirstSeenOnce
  <2> SUFFICES ASSUME LogInv, NEW p \in Pre
               PROVE  /\ IsInjective(fels[p])
                      /\ \A i \in DOMAIN fels[p] : fons[fels[p][i]] = i
                      /\ Accepted(p) = UNION {Range(kels[p][n]) : n \in Sn}
    BY DEF FirstSeenOnce
  <2>1. \A i \in DOMAIN fels[p] : fons[fels[p][i]] = i
    BY DEF LogInv, FelNumbered
  <2>2. IsInjective(fels[p])
    BY <2>1 DEF IsInjective
  <2>3. ASSUME NEW e \in Accepted(p) PROVE \E n \in Sn : e \in Range(kels[p][n])
    <3>1. PICK j \in DOMAIN fels[p] : fels[p][j] = e
      BY DEF Accepted, Range
    <3>2. e \in Event
      BY <3>1 DEF LogInv, LogTypeOK
    <3>3. \E i \in DOMAIN kels[p][Ev[e].sn] : kels[p][Ev[e].sn][i] = e
      BY <3>1 DEF LogInv, KelHoldsFel
    <3> QED BY <3>2, <3>3, BodyFacts DEF Range
  <2>4. ASSUME NEW n \in Sn, NEW e \in Range(kels[p][n]) PROVE e \in Accepted(p)
    <3>1. PICK i \in DOMAIN kels[p][n] : kels[p][n][i] = e
      BY DEF Range
    <3>2. \E j \in DOMAIN fels[p] : fels[p][j] = kels[p][n][i]
      BY DEF LogInv, KelHoldsFel
    <3> QED BY <3>1, <3>2 DEF Accepted, Range
  <2> QED BY <2>1, <2>2, <2>3, <2>4
<1> QED BY <1>1, LogInvariant, PTL

------------------------------------------------------------------------------
(* The chain below the head *)

LEMMA LastAtAfter ==
    ASSUME LogInv, NEW e \in Event, NEW n, Sees(e, n)
    PROVE  LET p == Ev[e].pre
               sn == Ev[e].sn
           IN
           /\ LastAt(p, sn)' = e
           /\ \A q \in Pre, m \in Int : q # p \/ m # sn => LastAt(q, m)' = LastAt(q, m)
<1> DEFINE p == Ev[e].pre
           sn == Ev[e].sn
<1>1. p \in Pre /\ sn \in Sn /\ kels[p][sn] \in Seq(Event)
  BY BodyFacts DEF LogInv, LogTypeOK
<1>2. kels'[p][sn] = Append(kels[p][sn], e)
  BY SeesShape
<1>3. kels'[p][sn] # <<>> /\ kels'[p][sn][Len(kels'[p][sn])] = e
  <2> DEFINE old == kels[p][sn]
             new == kels'[p][sn]
  <2>1. old \in Seq(Event) /\ new = Append(old, e)
    BY <1>1, <1>2
  <2> HIDE DEF old, new
  <2>2. Append(old, e) # <<>> /\ Append(old, e)[Len(Append(old, e))] = e
    BY <2>1, AppendEnds
  <2> QED BY <2>1, <2>2 DEF new
<1>4. LastAt(p, sn)' = e
  BY <1>1, <1>3 DEF LastAt
<1>5. ASSUME NEW q \in Pre, NEW m \in Int, q # p \/ m # sn
      PROVE  LastAt(q, m)' = LastAt(q, m)
  <2>1. m \in Sn => kels'[q][m] = kels[q][m]
    BY <1>5, KelGrows
  <2> QED BY <2>1 DEF LastAt
<1> QED BY <1>4, <1>5

(***************************************************************************)
(* An establishment event seen before keeps its place: what is accepted    *)
(* is above the last one.                                                  *)
(***************************************************************************)
LEMMA SeesKeepsEst ==
    ASSUME LogInv, EstNeverSuperseded, NEW e \in Event, NEW n, Sees(e, n)
    PROVE  EstNeverSuperseded'
<1> DEFINE p == Ev[e].pre
           sn == Ev[e].sn
<1>1. p \in Pre /\ sn \in Sn /\ sn \in Nat /\ Moves(states[p], e, n)
  BY BodyFacts DEF Sees
<1> SUFFICES ASSUME NEW q \in Pre, NEW x \in Accepted(q)', Establishment(x)
             PROVE  OnChain(x)'
  BY DEF EstNeverSuperseded, Establishment
<1>2. PICK j \in DOMAIN fels'[q] : fels'[q][j] = x
  BY DEF Accepted, Range
<1>3. CASE q = p /\ x = e
  <2>1. states'[p] # NoState /\ states'[p].s = sn /\ LastAt(p, sn)' = e
    BY SeesState, LastAtAfter
  <2> QED BY <1>1, <1>3, <2>1 DEF OnChain
<1>4. CASE j \in DOMAIN fels[q]
  <2> DEFINE m == Ev[x].sn
  <2>1. fels[q][j] = x /\ Ev[x].pre = q /\ x \in Event
    <3>1. fels[q][j] = x
      BY <1>2, <1>4, FelGrows DEF Keeps
    <3> QED BY <1>4, <3>1 DEF LogInv, FelNumbered, LogTypeOK
  <2>2. x \in Accepted(q) /\ m \in Int /\ m <= states[q].est.s
    BY <1>4, <2>1, BodyFacts DEF Accepted, Range, LogInv, EstBelow
  <2>3. states[q] # NoState /\ m <= states[q].s /\ LastAt(q, m) = x
    BY <2>1, <2>2 DEF EstNeverSuperseded, OnChain
  <2>4. CASE q # p
    <3>1. states'[q] = states[q] /\ LastAt(q, m)' = LastAt(q, m)
      BY <2>2, <2>4, SeesState, LastAtAfter
    <3> QED BY <2>1, <2>3, <3>1 DEF OnChain
  <2>5. CASE q = p
    <3>1. sn > states[p].est.s /\ states[p].est.s \in Nat
      BY <1>1, <2>3, <2>5, EstRises, BodyFacts DEF LogInv, LogTypeOK, IsHead
    <3>2. LastAt(p, m)' = x
      BY <1>1, <2>2, <2>3, <2>5, <3>1, LastAtAfter
    <3>3. states'[p] # NoState /\ states'[p].s = sn
      BY SeesState
    <3>4. m <= states'[p].s
      BY <1>1, <2>2, <2>5, <3>1, <3>3
    <3> QED BY <2>1, <2>5, <3>2, <3>3, <3>4 DEF OnChain
  <2> QED BY <2>4, <2>5
<1>5. j \in DOMAIN fels[q] \/ (q = p /\ x = e)
  <2>1. CASE q = p
    BY <1>2, <2>1, FelGrows DEF Brings
  <2>2. CASE q # p
    <3>1. fels'[q] = fels[q]
      BY <2>2, FelGrows
    <3> QED BY <1>2, <3>1
  <2> QED BY <2>1, <2>2
<1> QED BY <1>3, <1>4, <1>5

LEMMA SeesKeepsChain ==
    ASSUME LogInv, KelChain, NEW e \in Event, NEW n, Sees(e, n)
    PROVE  KelChain'
<1> DEFINE p == Ev[e].pre
           sn == Ev[e].sn
           ks == states[p]
<1>1. p \in Pre /\ sn \in Nat /\ Moves(ks, e, n)
  BY BodyFacts DEF Sees
<1>2. states'[p].s = sn /\ states'[p].d = e /\ LastAt(p, sn)' = e
  BY SeesState, LastAtAfter
<1>3. \A m \in Int : m # sn => LastAt(p, m)' = LastAt(p, m)
  BY <1>1, LastAtAfter
<1>4. ks # NoState =>
        /\ ks.s \in Nat /\ ks.est.s \in Nat
        /\ LastAt(p, ks.s) = ks.d /\ Ev[LastAt(p, 0)].ilk = "icp"
        /\ \A m \in 1..ks.s :
              LastAt(p, m) # NoEvent /\ Ev[LastAt(p, m)].prior = LastAt(p, m - 1)
  BY <1>1, BodyFacts DEF KelChain, LogInv, LogTypeOK, IsHead
<1>5. ASSUME \A m \in 1..sn :
                LastAt(p, m)' # NoEvent /\ Ev[LastAt(p, m)'].prior = LastAt(p, m - 1)',
             Ev[LastAt(p, 0)'].ilk = "icp"
      PROVE  KelChain'
  <2> SUFFICES ASSUME NEW q \in Pre, states'[q] # NoState
               PROVE  /\ LastAt(q, states[q].s)' = states'[q].d
                      /\ \A m \in 1..states'[q].s :
                            /\ LastAt(q, m)' # NoEvent
                            /\ Ev[LastAt(q, m)'].prior = LastAt(q, m - 1)'
                      /\ Ev[LastAt(q, 0)'].ilk = "icp"
    BY DEF KelChain
  <2>1. CASE q = p
    <3>1. LastAt(p, states[p].s)' = LastAt(p, sn)'
      BY <1>2 DEF LastAt
    <3> QED BY <1>2, <1>5, <2>1, <3>1
  <2>2. CASE q # p
    <3>1. /\ states'[q] = states[q]
          /\ kels'[q] = kels[q]
      BY <1>1, <2>2, SeesState DEF Sees, LogInv, LogTypeOK
    <3> QED BY <3>1 DEF KelChain, LastAt
  <2> QED BY <2>1, <2>2
<1>6. CASE Incepts(ks, e, n)
  <2>1. sn = 0 /\ Ev[LastAt(p, 0)'].ilk = "icp"
    BY <1>2, <1>6 DEF Incepts
  <2> QED BY <1>5, <2>1
<1>7. CASE ks # NoState /\ (Follows(ks, e) \/ Recovers(ks, e))
  <2>1. sn >= 1 /\ sn - 1 <= ks.s /\ Ev[e].prior = LastAt(p, sn - 1)
    BY <1>1, <1>4, <1>7 DEF Follows, Recovers
  <2>2. Ev[LastAt(p, 0)'].ilk = "icp"
    BY <1>3, <1>4, <1>7, <2>1
  <2>3. ASSUME NEW m \in 1..sn
        PROVE  LastAt(p, m)' # NoEvent /\ Ev[LastAt(p, m)'].prior = LastAt(p, m - 1)'
    <3>1. LastAt(p, m - 1)' = LastAt(p, m - 1)
      BY <1>1, <1>3
    <3>2. CASE m = sn
      BY <1>2, <2>1, <3>1, <3>2, EventAssumption
    <3>3. CASE m # sn
      BY <1>1, <1>3, <1>4, <1>7, <2>1, <3>1, <3>3
    <3> QED BY <3>2, <3>3
  <2> QED BY <1>5, <2>2, <2>3
<1> QED BY <1>1, <1>6, <1>7 DEF Moves, Rotates, Interacts

LEMMA SameKeepsChain ==
    ASSUME UNCHANGED logged, KelChain, EstNeverSuperseded
    PROVE  KelChain' /\ EstNeverSuperseded'
BY DEF logged, KelChain, EstNeverSuperseded, OnChain, Accepted, Range, LastAt, Establishment

ChainInv == LogInv /\ KelChain /\ EstNeverSuperseded

LEMMA InitChainInv ==
    ASSUME Init PROVE ChainInv
<1>1. LogInv
  BY InitLogInv
<1>2. KelChain /\ EstNeverSuperseded
  BY DEF Init, InitStores, KelChain, EstNeverSuperseded, Accepted, Range
<1> QED BY <1>1, <1>2 DEF ChainInv

LEMMA NextKeepsChainInv ==
    ASSUME ChainInv, [Next]_vars PROVE ChainInv'
<1>1. LogInv /\ LogInv' /\ KelChain /\ EstNeverSuperseded
  BY NextKeepsLogInv DEF ChainInv
<1>2. (\E e \in Event : \E n : Sees(e, n)) \/ UNCHANGED logged
  BY <1>1, HandlerStep
<1>3. KelChain' /\ EstNeverSuperseded'
  BY <1>1, <1>2, SeesKeepsChain, SeesKeepsEst, SameKeepsChain
<1> QED BY <1>1, <1>3 DEF ChainInv

LEMMA ChainInvariant == Spec => []ChainInv
<1>1. Init => ChainInv
  BY InitChainInv
<1>2. ChainInv /\ [Next]_vars => ChainInv'
  BY NextKeepsChainInv
<1> QED BY <1>1, <1>2, PTL DEF Spec

(***************************************************************************)
(* processEvent / applyDecision: below the head the last event recorded at *)
(* each sequence number names the one before it, back to an inception, and *)
(* the key state stands at the end, after any number of recoveries.        *)
(***************************************************************************)
THEOREM ChainBelowHead == Spec => []KelChain
<1>1. ChainInv => KelChain
  BY DEF ChainInv
<1> QED BY <1>1, ChainInvariant, PTL

(***************************************************************************)
(* evaluateRotation: no accepted establishment event is ever superseded.   *)
(***************************************************************************)
THEOREM EstablishmentStays == Spec => []EstNeverSuperseded
<1>1. ChainInv => EstNeverSuperseded
  BY DEF ChainInv
<1> QED BY <1>1, ChainInvariant, PTL

(***************************************************************************)
(* applyDecision, reloadKevers: the durable key state of an identifier of  *)
(* this node never goes back behind its last establishment event, restarts *)
(* or not.                                                                 *)
(***************************************************************************)
THEOREM StateOnlyAdvances ==
    ASSUME Pre \subseteq Habs PROVE RestartSpec => StateNeverRollsBack
<1> DEFINE Advances ==
             \A p \in Pre : states[p] # NoState /\ states'[p] # states[p] =>
                 states'[p].est.s >= states[p].est.s /\ states'[p].fn > states[p].fn
<1>1. ASSUME LogInv, NEW e \in Event, NEW n, Sees(e, n) PROVE Advances
  <2> SUFFICES ASSUME NEW p \in Pre, states[p] # NoState, states'[p] # states[p]
               PROVE  states'[p].est.s >= states[p].est.s /\ states'[p].fn > states[p].fn
    OBVIOUS
  <2>1. p = Ev[e].pre /\ Moves(states[p], e, n)
    BY <1>1, SeesState DEF Sees
  <2>2. states'[p].est.s = n.est.s /\ states'[p].fn = Len(fels[p]) + 1
    BY <1>1, <2>1, SeesState
  <2>3. n.est.s >= states[p].est.s
    BY <1>1, <2>1, EstRises
  <2>4. states[p].fn = Len(fels[p]) /\ Len(fels[p]) \in Nat
    BY <1>1 DEF LogInv, LogTypeOK, HeadIsLast
  <2> QED BY <2>2, <2>3, <2>4
<1>2. LogInv /\ [Next \/ Restart]_vars => Advances
  <2>1. ASSUME LogInv, [Next]_vars PROVE Advances
    BY <1>1, <2>1, HandlerStep DEF logged
  <2>2. ASSUME LogInv, Restart PROVE Advances
    BY <2>2, RestartKeepsLogInv DEF logged
  <2> QED BY <2>1, <2>2
<1>3. Init => LogInv
  BY InitLogInv
<1>4. LogInv /\ [Next \/ Restart]_vars => LogInv'
  BY NextKeepsLogInv, RestartKeepsLogInv
<1>5. LogInv /\ [Next \/ Restart]_vars => [Advances]_vars
  BY <1>2
<1> HIDE DEF Advances
<1>6. RestartSpec => [][Advances]_vars
  BY <1>3, <1>4, <1>5, PTL DEF RestartSpec
<1> QED BY <1>6 DEF Advances, StateNeverRollsBack

------------------------------------------------------------------------------
(* Receipts of other identifiers *)

(* What a stored quadruple rests on, and goes on resting on.               *)
Backed(e, q) ==
    LET est == q.seal.d IN
    /\ e \in Accepted(Ev[e].pre)
    /\ est \in Event /\ Establishment(est) /\ est \in Accepted(q.seal.pre)
    /\ Ev[est].pre = q.seal.pre /\ Ev[est].sn = q.seal.sn
    /\ VerifiedSigers({q.siger}, Ev[est].keys) # {}

QuadTypeOK ==
    /\ vrcs \in [Event -> SUBSET Quadruple]
    /\ vres \in SUBSET [ev : Event, quad : Quadruple]

QuadsBacked == \A e \in Event : \A q \in vrcs[e] : Backed(e, q)

(* The last event at a number was accepted, at that number.                *)
LEMMA LastAccepted ==
    ASSUME LogInv, NEW p \in Pre, NEW sn, LastAt(p, sn) # NoEvent
    PROVE  /\ LastAt(p, sn) \in Event /\ LastAt(p, sn) \in Accepted(p)
           /\ Ev[LastAt(p, sn)].pre = p /\ Ev[LastAt(p, sn)].sn = sn
<1> DEFINE x == LastAt(p, sn)
<1>1. LogTypeOK
  BY DEF LogInv
<1>2. sn \in Sn /\ x \in Event /\ \E i \in DOMAIN kels[p][sn] : kels[p][sn][i] = x
  BY <1>1, LastAtInKel
<1>3. PICK i \in DOMAIN kels[p][sn] : kels[p][sn][i] = x
  BY <1>2
<1> HIDE DEF x
<1>4. Ev[x].sn = sn /\ \E j \in DOMAIN fels[p] : fels[p][j] = x
  BY <1>2, <1>3 DEF LogInv, KelHoldsFel
<1>5. PICK j \in DOMAIN fels[p] : fels[p][j] = x
  BY <1>4
<1>6. Ev[x].pre = p
  BY <1>5 DEF LogInv, FelNumbered
<1>7. x \in Accepted(p)
  BY <1>5 DEF Accepted, Range
<1> QED BY <1>2, <1>4, <1>6, <1>7 DEF x

(***************************************************************************)
(* processVerifiedTransferableReceiptQuadruple, lookupAcceptedReceipted-   *)
(* Event: what both ways of storing a quadruple have checked.              *)
(***************************************************************************)
LEMMA SealBacks ==
    ASSUME LogInv, NEW e \in Event, NEW q \in Quadruple,
           ReceiptTarget(e) = "accepted", SealVerdict(q) = "accept"
    PROVE  Backed(e, q)
<1> DEFINE p == Ev[e].pre
           est == LastAt(q.seal.pre, q.seal.sn)
<1>1. p \in Pre /\ q.seal.pre \in Pre /\ NoEvent \notin Event
  BY BodyFacts, EventAssumption DEF Quadruple, Seal
<1>2. LastAt(p, Ev[e].sn) = e
  BY DEF ReceiptTarget
<1>3. e \in Accepted(p)
  BY <1>1, <1>2, LastAccepted
<1>4. /\ est # NoEvent /\ est = q.seal.d
      /\ q.siger.index \in DOMAIN Ev[est].keys
      /\ Ev[est].keys[q.siger.index] = q.siger.key
  BY DEF SealVerdict
<1>5. est \in Event /\ est \in Accepted(q.seal.pre)
      /\ Ev[est].pre = q.seal.pre /\ Ev[est].sn = q.seal.sn
  BY <1>1, <1>4, LastAccepted
<1> HIDE DEF est
<1>6. Establishment(est)
  BY <1>4, <1>5, KeyAssumption DEF Establishment
<1>7. VerifiedSigers({q.siger}, Ev[est].keys) # {}
  BY <1>4 DEF VerifiedSigers
<1> QED BY <1>3, <1>4, <1>5, <1>6, <1>7 DEF Backed

LEMMA AcceptedStays ==
    ASSUME LogInv, [Next]_vars, NEW p \in Pre PROVE Accepted(p) \subseteq Accepted(p)'
<1>1. (\E e \in Event : \E n : Sees(e, n)) \/ UNCHANGED logged
  BY HandlerStep
<1>2. ASSUME NEW e \in Event, NEW n, Sees(e, n)
      PROVE  Accepted(p) \subseteq Accepted(p)'
  <2>1. Keeps(fels[p], fels'[p])
    BY <1>2, FelGrows
  <2> QED BY <2>1 DEF Keeps, Accepted, Range
<1>3. CASE UNCHANGED logged
  BY <1>3 DEF logged, Accepted
<1> QED BY <1>1, <1>2, <1>3

LEMMA BackedStays ==
    ASSUME LogInv, [Next]_vars, NEW e \in Event, NEW q \in Quadruple, Backed(e, q)
    PROVE  Backed(e, q)'
<1>1. Ev[e].pre \in Pre /\ q.seal.pre \in Pre
  BY BodyFacts DEF Quadruple, Seal
<1>2. /\ Accepted(Ev[e].pre) \subseteq Accepted(Ev[e].pre)'
      /\ Accepted(q.seal.pre) \subseteq Accepted(q.seal.pre)'
  BY <1>1, AcceptedStays
<1> QED BY <1>2 DEF Backed

(* A handler stores no quadruple but a backed one.                         *)
LEMMA QuadStep ==
    ASSUME LogInv, QuadTypeOK, [Next]_vars
    PROVE  /\ QuadTypeOK'
           /\ \A e \in Event : \A q \in vrcs'[e] : q \in vrcs[e] \/ Backed(e, q)
<1> DEFINE Step == /\ QuadTypeOK'
                   /\ \A e \in Event : \A q \in vrcs'[e] : q \in vrcs[e] \/ Backed(e, q)
<1>1. ASSUME UNCHANGED vrcs, vres' \subseteq vres PROVE Step
  BY <1>1 DEF QuadTypeOK
<1>2. ASSUME NEW r \in Receipts, DeliverReceipt(r) PROVE Step
  <2> DEFINE x == r.ev
             p == Ev[x].pre
             new == VerifiedQuads(r.quads, p, r.local)
  <2>1. x \in Event /\ r.quads \in Seq(Quadruple)
    BY MessageAssumption
  <2>2. \A i \in DOMAIN r.quads : r.quads[i] \in Quadruple
    BY <2>1
  <2>3. Range(r.quads) \subseteq Quadruple
    BY <2>2 DEF Range
  <2>4. \A q \in new : q \in Quadruple /\ SealVerdict(q) = "accept"
    BY <2>2 DEF VerifiedQuads, QuadrupleVerdict, ReadUpTo
  <2>5. UnreadGroup(r.quads, p, r.local) \subseteq Quadruple
    BY <2>3 DEF UnreadGroup
  <2>6. CASE ReceiptTarget(x) = "stale"
    BY <1>1, <1>2, <2>6 DEF DeliverReceipt
  <2>7. CASE ReceiptTarget(x) = "missing"
    <3>1. /\ UNCHANGED vrcs
          /\ vres' = vres \cup {[ev |-> x, quad |-> q] : q \in Range(r.quads)}
      BY <1>2, <2>7 DEF DeliverReceipt
    <3> QED BY <2>1, <2>3, <3>1 DEF QuadTypeOK
  <2>8. CASE ReceiptTarget(x) = "accepted"
    <3>1. /\ vrcs' = [vrcs EXCEPT ![x] = @ \cup new]
          /\ vres' = vres \cup {[ev |-> x, quad |-> q] : q \in UnreadGroup(r.quads, p, r.local)}
      BY <1>2, <2>8 DEF DeliverReceipt
    <3>2. \A q \in new : Backed(x, q)
      BY <2>1, <2>4, <2>8, SealBacks
    <3> HIDE DEF new
    <3>3. QuadTypeOK'
      BY <2>1, <2>4, <2>5, <3>1 DEF QuadTypeOK
    <3>4. \A e \in Event : \A q \in vrcs'[e] : q \in vrcs[e] \/ (e = x /\ q \in new)
      BY <2>1, <3>1 DEF QuadTypeOK
    <3> QED BY <3>2, <3>3, <3>4
  <2> QED BY <1>2, <2>6, <2>7, <2>8 DEF DeliverReceipt
<1>3. ASSUME NEW row \in vres, ReplayTransReceipt(row) PROVE Step
  <2>1. row.ev \in Event /\ row.quad \in Quadruple
    BY <1>3 DEF QuadTypeOK
  <2>2. vres' \subseteq vres
    BY <1>3 DEF ReplayTransReceipt
  <2>3. CASE ReceiptTarget(row.ev) = "accepted" /\ SealVerdict(row.quad) = "accept"
    <3>1. vrcs' = [vrcs EXCEPT ![row.ev] = @ \cup {row.quad}]
      BY <1>3, <2>3 DEF ReplayTransReceipt
    <3>2. Backed(row.ev, row.quad)
      BY <2>1, <2>3, SealBacks
    <3>3. QuadTypeOK'
      BY <2>1, <2>2, <3>1 DEF QuadTypeOK
    <3>4. \A e \in Event : \A q \in vrcs'[e] : q \in vrcs[e] \/ (e = row.ev /\ q = row.quad)
      BY <2>1, <3>1 DEF QuadTypeOK
    <3> QED BY <3>2, <3>3, <3>4
  <2>4. CASE ~(ReceiptTarget(row.ev) = "accepted" /\ SealVerdict(row.quad) = "accept")
    BY <1>1, <1>3, <2>2, <2>4 DEF ReplayTransReceipt
  <2> QED BY <2>3, <2>4
<1>4. ASSUME NEW m \in Messages, DeliverEvent(m) PROVE UNCHANGED <<vrcs, vres>>
  BY <1>4 DEF DeliverEvent, receiptStores
<1>5. ASSUME NEW k \in EscrowKind, NEW e \in Event, ReplayEscrow(k, e)
      PROVE  UNCHANGED <<vrcs, vres>>
  BY <1>5 DEF ReplayEscrow, receiptStores
<1>6. ASSUME NEW row \in uwes, ReplayWitnessReceipt(row) PROVE UNCHANGED <<vrcs, vres>>
  BY <1>6 DEF ReplayWitnessReceipt
<1>7. ASSUME NEW row \in ures, ReplayNonTransReceipt(row) PROVE UNCHANGED <<vrcs, vres>>
  BY <1>7 DEF ReplayNonTransReceipt
<1>8. ASSUME ExpireReceipt PROVE UNCHANGED vrcs /\ vres' \subseteq vres
  BY <1>8 DEF ExpireReceipt
<1>9. ASSUME UNCHANGED vars PROVE UNCHANGED <<vrcs, vres>>
  BY <1>9 DEF vars
<1> HIDE DEF Step
<1>10. Step
  BY <1>1, <1>2, <1>3, <1>4, <1>5, <1>6, <1>7, <1>8, <1>9 DEF Next
<1> QED BY <1>10 DEF Step

ReceiptInv == ChainInv /\ QuadTypeOK /\ QuadsBacked

LEMMA NextKeepsReceiptInv ==
    ASSUME ReceiptInv, [Next]_vars PROVE ReceiptInv'
<1>1. LogInv /\ QuadTypeOK /\ ChainInv'
  BY NextKeepsChainInv DEF ReceiptInv, ChainInv
<1>2. QuadTypeOK' /\ \A e \in Event : \A q \in vrcs'[e] : q \in vrcs[e] \/ Backed(e, q)
  BY <1>1, QuadStep
<1>3. ASSUME NEW e \in Event, NEW q \in vrcs'[e] PROVE Backed(e, q)'
  <2>1. q \in Quadruple
    BY <1>2 DEF QuadTypeOK
  <2>2. Backed(e, q)
    BY <1>2 DEF ReceiptInv, QuadsBacked
  <2> QED BY <1>1, <2>1, <2>2, BackedStays
<1> QED BY <1>1, <1>2, <1>3 DEF ReceiptInv, QuadsBacked

(***************************************************************************)
(* processReceipt, reprocessEscrowedTransferableReceipt: a stored receipt  *)
(* of another identifier is of an accepted event and signed by a key of an *)
(* establishment event that stands on the receiptor's chain, for good.     *)
(***************************************************************************)
THEOREM ReceiptsStaySealed == Spec => []TransReceiptsSealed
<1>1. Init => ReceiptInv
  <2> SUFFICES ASSUME Init PROVE ReceiptInv
    OBVIOUS
  <2>1. vrcs = [e \in Event |-> {}] /\ vres = {}
    BY DEF Init, InitStores
  <2>2. QuadTypeOK /\ QuadsBacked
    BY <2>1 DEF QuadTypeOK, QuadsBacked
  <2> QED BY <2>2, InitChainInv DEF ReceiptInv
<1>2. ReceiptInv /\ [Next]_vars => ReceiptInv'
  BY NextKeepsReceiptInv
<1>3. ReceiptInv => TransReceiptsSealed
  <2> SUFFICES ASSUME ReceiptInv, NEW e \in Event, NEW q \in vrcs[e]
               PROVE  /\ e \in Accepted(Ev[e].pre)
                      /\ OnChain(q.seal.d)
                      /\ Ev[q.seal.d].pre = q.seal.pre /\ Ev[q.seal.d].sn = q.seal.sn
                      /\ VerifiedSigers({q.siger}, Ev[q.seal.d].keys) # {}
    BY DEF TransReceiptsSealed
  <2>1. Backed(e, q) /\ EstNeverSuperseded
    BY DEF ReceiptInv, ChainInv, QuadsBacked
  <2>2. q.seal.pre \in Pre
    BY DEF ReceiptInv, QuadTypeOK, Quadruple, Seal
  <2>3. OnChain(q.seal.d)
    BY <2>1, <2>2 DEF Backed, EstNeverSuperseded
  <2> QED BY <2>1, <2>3 DEF Backed
<1> QED BY <1>1, <1>2, <1>3, PTL DEF Spec

------------------------------------------------------------------------------
(* The validator implements the abstract log *)

ChainOf == [q \in Pre |-> Chain(q)]
Value == Event \cup {NoEvent}

LEMMA ListIsSeq ==
    ASSUME NEW S, NEW n \in Nat, NEW f \in [1..n -> S]
    PROVE  f \in Seq(S) /\ Len(f) = n /\ DOMAIN f = 1..n
<1>1. f \in Seq(S)
  BY SeqDef
<1>2. DOMAIN f = 1..n /\ Len(f) \in Nat /\ DOMAIN f = 1..Len(f)
  BY <1>1, LenProperties
<1> QED BY <1>1, <1>2

LEMMA LastAtValue ==
    ASSUME LogInv, NEW p \in Pre, NEW m PROVE LastAt(p, m) \in Value
BY LastAtInKel DEF LogInv, Value

(* The chain of an identifier with a key state, and without one.           *)
LEMMA ChainShape ==
    ASSUME LogInv, NEW p \in Pre
    PROVE  /\ states[p] = NoState => Chain(p) = <<>>
           /\ states[p] # NoState =>
                 /\ states[p].s \in Nat
                 /\ Chain(p) \in Seq(Value) /\ Len(Chain(p)) = states[p].s + 1
                 /\ \A i \in 1..(states[p].s + 1) : Chain(p)[i] = LastAt(p, i - 1)
<1>1. states[p] = NoState => Chain(p) = <<>>
  BY DEF Chain
<1>2. ASSUME states[p] # NoState
      PROVE  /\ states[p].s \in Nat
             /\ Chain(p) \in Seq(Value) /\ Len(Chain(p)) = states[p].s + 1
             /\ \A i \in 1..(states[p].s + 1) : Chain(p)[i] = LastAt(p, i - 1)
  <2> DEFINE n == states[p].s + 1
             c == [i \in 1..n |-> LastAt(p, i - 1)]
  <2>1. states[p].s \in Nat
    BY <1>2, BodyFacts, EventAssumption DEF LogInv, LogTypeOK, IsHead, Sn
  <2>5. Chain(p) = c
    BY <1>2 DEF Chain
  <2>2. c \in [1..n -> Value]
    BY LastAtValue
  <2>3. c \in Seq(Value) /\ Len(c) = n
    <3>1. n \in Nat
      BY <2>1
    <3> HIDE DEF c, n
    <3> QED BY <2>2, <3>1, ListIsSeq
  <2>4. \A i \in 1..n : c[i] = LastAt(p, i - 1)
    OBVIOUS
  <2> HIDE DEF c
  <2> QED BY <2>1, <2>3, <2>4, <2>5
<1> QED BY <1>1, <1>2

(***************************************************************************)
(* The chain after event e was first seen: what was below it, then e.      *)
(***************************************************************************)
LEMMA ChainAfter ==
    ASSUME LogInv, LogInv', NEW e \in Event, NEW n, Sees(e, n)
    PROVE  LET p == Ev[e].pre
               sn == Ev[e].sn
           IN
           /\ Chain(p)' \in Seq(Value) /\ Len(Chain(p)') = sn + 1
           /\ Chain(p)'[sn + 1] = e
           /\ \A i \in 1..sn : Chain(p)'[i] = LastAt(p, i - 1)
           /\ \A q \in Pre \ {p} : Chain(q)' = Chain(q)
<1> DEFINE p == Ev[e].pre
           sn == Ev[e].sn
           c == [i \in 1..(sn + 1) |-> LastAt(p, i - 1)']
<1>1. p \in Pre /\ sn \in Nat
  BY BodyFacts
<1>2. Chain(p)' = c
  <2>1. states'[p] # NoState /\ states'[p].s = sn
    BY SeesState
  <2> QED BY <2>1 DEF Chain
<1>3. /\ LastAt(p, sn)' = e
      /\ \A i \in 1..sn : LastAt(p, i - 1)' = LastAt(p, i - 1)
  BY <1>1, LastAtAfter
<1>4. \A i \in 1..(sn + 1) : LastAt(p, i - 1)' \in Value
  <2>1. \A i \in 1..sn : LastAt(p, i - 1)' \in Value
    BY <1>1, <1>3, LastAtValue
  <2>2. LastAt(p, (sn + 1) - 1)' = LastAt(p, sn)'
    BY <1>1 DEF LastAt
  <2> QED BY <1>1, <1>3, <2>1, <2>2 DEF Value
<1>5. c \in [1..(sn + 1) -> Value]
  BY <1>4
<1>6. c \in Seq(Value) /\ Len(c) = sn + 1
  <2>1. sn + 1 \in Nat
    BY <1>1
  <2> HIDE DEF c, sn
  <2> QED BY <1>5, <2>1, ListIsSeq
<1>7. c[sn + 1] = e /\ \A i \in 1..sn : c[i] = LastAt(p, i - 1)
  <2>1. LastAt(p, (sn + 1) - 1)' = LastAt(p, sn)'
    BY <1>1 DEF LastAt
  <2> QED BY <1>1, <1>3, <2>1
<1>8. ASSUME NEW q \in Pre \ {p} PROVE Chain(q)' = Chain(q)
  <2>1. states'[q] = states[q] /\ kels'[q] = kels[q]
    BY <1>1, SeesState DEF Sees, LogInv, LogTypeOK
  <2> QED BY <2>1 DEF Chain, LastAt
<1> QED BY <1>2, <1>6, <1>7, <1>8

(* A tail the state has no establishment event in is all interactions.     *)
LEMMA TailInteracts ==
    ASSUME LogInv, NEW p \in Pre, NEW m \in Nat, states[p] # NoState,
           m > states[p].est.s, LastAt(p, m) # NoEvent
    PROVE  Ev[LastAt(p, m)].ilk = "ixn"
<1> DEFINE x == LastAt(p, m)
<1>1. PICK i \in DOMAIN kels[p][m] : m \in Sn /\ kels[p][m][i] = x
  BY LastAtInKel DEF LogInv
<1>2. Ev[x].sn = m /\ \E j \in DOMAIN fels[p] : fels[p][j] = x
  BY <1>1 DEF LogInv, KelHoldsFel
<1>3. PICK j \in DOMAIN fels[p] : fels[p][j] = x
  BY <1>2
<1>4. Establishment(x) => m <= states[p].est.s
  BY <1>2, <1>3 DEF LogInv, EstBelow
<1>5. states[p].est.s \in Nat
  BY BodyFacts DEF LogInv, LogTypeOK, IsHead
<1> QED BY <1>4, <1>5 DEF Establishment

LEMMA SeesRefines ==
    ASSUME ChainInv, ChainInv', NEW e \in Event, NEW n, Sees(e, n)
    PROVE  KEL!Next
<1> DEFINE p == Ev[e].pre
           sn == Ev[e].sn
           ks == states[p]
           old == Chain(p)
           new == Chain(p)'
<1>1. /\ p \in Pre /\ sn \in Nat /\ Moves(ks, e, n) /\ LogInv /\ LogInv' /\ KelChain
      /\ fels' = [fels EXCEPT ![p] = Append(@, e)]
      /\ e \in Event
  BY BodyFacts DEF Sees, ChainInv
<1>2. KEL!Fresh(p, e)
  BY <1>1, NeverSeen DEF KEL!Fresh
<1>3. /\ new \in Seq(Value) /\ Len(new) = sn + 1 /\ new[sn + 1] = e
      /\ \A i \in 1..sn : new[i] = LastAt(p, i - 1)
  BY <1>1, ChainAfter
<1>4. [q \in Pre |-> Chain(q)]' = [ChainOf EXCEPT ![p] = new]
  <2>1. \A q \in Pre \ {p} : Chain(q)' = Chain(q)
    BY <1>1, ChainAfter
  <2> QED BY <1>1, <2>1 DEF ChainOf
<1>5. CASE Incepts(ks, e, n)
  <2>1. old = <<>> /\ sn = 0 /\ Ev[e].ilk = "icp"
    BY <1>1, <1>5, ChainShape DEF Incepts
  <2>2. new = <<e>>
    BY <1>3, <2>1
  <2>3. KEL!Begin(p, e)
    BY <1>1, <1>4, <2>1, <2>2 DEF KEL!Begin, ChainOf
  <2> QED BY <1>1, <1>2, <2>3 DEF KEL!Next
<1>6. ASSUME NEW kept \in Seq(Value), Len(kept) = sn,
             \A i \in 1..sn : kept[i] = LastAt(p, i - 1)
      PROVE  new = Append(kept, e)
  <2> DEFINE t == Append(kept, e)
  <2>1. e \in Value
    BY DEF Value
  <2>2. /\ t \in Seq(Value) /\ Len(t) = sn + 1 /\ t[sn + 1] = e
        /\ \A i \in 1..sn : t[i] = kept[i]
    <3>1. /\ t \in Seq(Value) /\ Len(t) = Len(kept) + 1 /\ t[Len(kept) + 1] = e
          /\ \A i \in 1..Len(kept) : t[i] = kept[i]
      BY <2>1, AppendProperties
    <3>2. Len(kept) = sn
      BY <1>6
    <3> HIDE DEF t, sn
    <3> QED BY <3>1, <3>2
  <2> HIDE DEF t
  <2>3. \A i \in 1..(sn + 1) : new[i] = t[i]
    BY <1>1, <1>3, <1>6, <2>2
  <2>4. new = t
    BY <1>3, <2>2, <2>3, SeqEqual
  <2> QED BY <2>4 DEF t
<1>7. ks # NoState =>
        /\ ks.s \in Nat /\ ks.est.s \in Nat
        /\ old \in Seq(Value) /\ Len(old) = ks.s + 1
        /\ \A i \in 1..(ks.s + 1) : old[i] = LastAt(p, i - 1)
  BY <1>1, ChainShape, BodyFacts DEF LogInv, LogTypeOK, IsHead
<1>8. CASE ks # NoState /\ Ev[e].ilk # "icp" /\ Follows(ks, e)
  <2>1. sn = Len(old) /\ Ev[e].prior = LastAt(p, ks.s) /\ sn = ks.s + 1
    BY <1>1, <1>7, <1>8 DEF Follows, KelChain
  <2>2. Ev[e].prior = old[Len(old)] /\ old # <<>>
    <3>1. Len(old) \in 1..(ks.s + 1) /\ Len(old) - 1 = ks.s /\ Len(old) # 0
      BY <1>7, <1>8
    <3>2. old[Len(old)] = LastAt(p, ks.s)
      BY <1>7, <1>8, <3>1
    <3>3. old # <<>>
      BY <3>1, EmptySeq
    <3>4. Ev[e].prior = old[Len(old)]
      BY <2>1, <3>2
    <3> QED BY <3>3, <3>4
  <2>3. new = Append(old, e)
    BY <1>6, <1>7, <1>8, <2>1
  <2>4. KEL!Extend(p, e)
    BY <1>1, <1>4, <1>8, <2>1, <2>2, <2>3 DEF KEL!Extend, KEL!Last, ChainOf
  <2> QED BY <1>1, <1>2, <2>4 DEF KEL!Next
<1>9. CASE ks # NoState /\ Ev[e].ilk = "rot" /\ Recovers(ks, e)
  <2> DEFINE kept == SubSeq(old, 1, sn)
  <2>1. sn \in 1..(Len(old) - 1) /\ sn > ks.est.s /\ Ev[e].prior = LastAt(p, sn - 1)
    BY <1>1, <1>7, <1>9 DEF Recovers
  <2>2. /\ kept \in Seq(Value) /\ Len(kept) = sn
        /\ \A i \in 1..sn : kept[i] = old[i]
    <3>1. \A i \in 1..sn : old[i] \in Value
      BY <1>1, <1>7, <1>9, <2>1, LastAtValue
    <3>2. /\ kept \in Seq(Value) /\ Len(kept) = (IF 1 <= sn THEN sn - 1 + 1 ELSE 0)
          /\ \A i \in 1..(sn - 1 + 1) : kept[i] = old[1 + i - 1]
      BY <1>1, <3>1, SubSeqProperties
    <3> HIDE DEF kept
    <3> QED BY <1>1, <2>1, <3>2
  <2> HIDE DEF kept
  <2>3. \A i \in 1..sn : kept[i] = LastAt(p, i - 1)
    <3> SUFFICES ASSUME NEW i \in 1..sn PROVE kept[i] = LastAt(p, i - 1)
      OBVIOUS
    <3>1. /\ ks.s \in Nat /\ Len(old) = ks.s + 1
          /\ \A j \in 1..(ks.s + 1) : old[j] = LastAt(p, j - 1)
      BY <1>7, <1>9
    <3> HIDE DEF ks, old, sn
    <3>2. i \in 1..(ks.s + 1)
      BY <1>1, <2>1, <3>1
    <3> QED BY <2>2, <3>1, <3>2
  <2>4. new = Append(kept, e)
    BY <1>6, <2>2, <2>3
  <2>5. Ev[e].prior = kept[Len(kept)]
    BY <1>1, <2>1, <2>2, <2>3
  <2>6. \A i \in (sn + 1)..Len(old) : Ev[old[i]].ilk = "ixn"
    <3> SUFFICES ASSUME NEW i \in (sn + 1)..Len(old) PROVE Ev[old[i]].ilk = "ixn"
      OBVIOUS
    <3> DEFINE m == i - 1
    <3>3. /\ i \in Int /\ i >= sn + 1 /\ i <= ks.s + 1
          /\ ks.s \in Nat /\ ks.est.s \in Nat /\ sn \in Nat
      BY <1>1, <1>7, <1>9
    <3>4. m \in Nat /\ m \in 1..ks.s /\ m > ks.est.s /\ i \in 1..(ks.s + 1)
      <4>1. sn > ks.est.s
        BY <2>1
      <4> HIDE DEF ks, sn
      <4> QED BY <3>3, <4>1
    <3>5. old[i] = LastAt(p, m)
      BY <1>7, <1>9, <3>4
    <3>1. m \in Nat /\ m \in 1..ks.s /\ m > ks.est.s /\ old[i] = LastAt(p, m)
      BY <3>4, <3>5
    <3>2. LastAt(p, m) # NoEvent
      BY <1>1, <1>9, <3>1 DEF KelChain
    <3> QED BY <1>1, <1>9, <3>1, <3>2, TailInteracts
  <2>7. KEL!Supersede(p, e)
    BY <1>1, <1>4, <1>9, <2>1, <2>4, <2>5, <2>6 DEF KEL!Supersede, KEL!Last, ChainOf, kept
  <2> QED BY <1>1, <1>2, <2>7 DEF KEL!Next
<1> QED BY <1>1, <1>5, <1>8, <1>9 DEF Moves, Rotates, Interacts

(***************************************************************************)
(* Kevery, Kever, Baser: the first-seen log and the chain below the head   *)
(* are an abstract key event log: they begin with an inception, grow at    *)
(* the end, or a rotation replaces a tail of interactions, and nothing     *)
(* leaves the first-seen log.                                              *)
(***************************************************************************)
THEOREM Refinement == Spec => ImplementsKeyEventLog
<1>1. Init => KEL!Init
  BY DEF Init, InitStores, KEL!Init, Chain
<1>2. ChainInv /\ ChainInv' /\ [Next]_vars
         => [KEL!Next]_KEL!vars
  <2> SUFFICES ASSUME ChainInv, ChainInv', [Next]_vars
               PROVE  [KEL!Next]_KEL!vars
    OBVIOUS
  <2>1. (\E e \in Event : \E n : Sees(e, n)) \/ UNCHANGED logged
    BY HandlerStep DEF ChainInv
  <2>2. CASE \E e \in Event : \E n : Sees(e, n)
    BY <2>2, SeesRefines
  <2>3. CASE UNCHANGED logged
    BY <2>3 DEF logged, KEL!vars, Chain, LastAt
  <2> QED BY <2>1, <2>2, <2>3
<1> QED BY <1>1, <1>2, ChainInvariant, PTL DEF Spec, ImplementsKeyEventLog, KEL!Spec
==============================================================================
