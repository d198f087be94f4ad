-------------------------------- MODULE Kevery --------------------------------
(***************************************************************************)
(* The event and receipt processor of a KERI node: one action for each     *)
(* message it handles and for each escrow row it replays.  Handlers run to *)
(* completion one at a time; the escrow sweep of the reactor runs forever  *)
(* beside the parsing of what arrives, and the model lets a sweep visit    *)
(* the rows in any order.                                                  *)
(***************************************************************************)
EXTENDS Kever

CONSTANTS
    Messages,    \* event messages the network may carry
    Receipts,    \* receipt messages the network may carry
    Resent,      \* messages the network keeps after delivery, to deliver again
    Lax,         \* TRUE: own receipts are processed promiscuously
    MayExpire,   \* TRUE: an escrowed receipt may outlive its timeout
    MaxCrashes   \* bound: how many times the node may stop and start again

ASSUME MessageAssumption ==
    /\ \A m \in Messages : /\ m.ev \in Event /\ m.local \in BOOLEAN
                           /\ m.sigers \in SUBSET Siger
                           /\ m.wigers \in SUBSET Wiger
    /\ \A r \in Receipts : /\ r.ev \in Event /\ r.local \in BOOLEAN
                           /\ r.couples \in SUBSET Couple
                           /\ r.wigers \in SUBSET Wiger
                           /\ r.quads \in Seq(Quadruple)
    /\ Resent \subseteq Messages \cup Receipts /\ Lax \in BOOLEAN /\ MayExpire \in BOOLEAN /\ MaxCrashes \in Nat

(***************************************************************************)
(* A key signs an event once: whichever messages carry its signature, they *)
(* carry the same one.                                                     *)
(***************************************************************************)
ASSUME SignatureAssumption ==
    \A m1, m2 \in Messages : m1.ev = m2.ev =>
        \A s1 \in m1.sigers, s2 \in m2.sigers :
            s1.index = s2.index /\ s1.key = s2.key => s1 = s2

VARIABLES
    net,      \* event messages still in flight
    post,     \* receipt messages still in flight
    crashes   \* times the node stopped

vars == <<evts, sigs, wigs, wits, rcts, vrcs, esrs, kels, fels, fons, states,
          escrow, uwes, ures, vres, kevers, net, post, crashes>>

eventStores == <<evts, sigs, wits, esrs, kels, fels, fons, states, escrow>>
receiptStores == <<rcts, vrcs, uwes, ures, vres>>

------------------------------------------------------------------------------
(* Deciding an event *)

(***************************************************************************)
(* An accepted event seen again may bring attachments not stored yet: the  *)
(* verified ones, the witness ones against the list stored with it.        *)
(***************************************************************************)
\* Mistake: an event seen again is evaluated again.
DuplicateEvaluated(ks, e, in) ==
    IF Ev[e].ilk = "icp" THEN EvaluateInception(e, in) ELSE EvaluateUpdate(ks, e, in)

DuplicateDecision(ks, e, in) ==
    LET keys == IF Establishment(e) THEN Ev[e].keys ELSE ks.keys IN
    Decision("duplicate", ks, VerifiedSigers(in.sigers, keys) \ sigs[e],
             VerifiedSigers(in.wigers, wits[e]) \ wigs[e], wits[e])

(***************************************************************************)
(* An event of the log at or below the head was accepted.  One above it is *)
(* in the log only because a stop came before its state was pinned, or a   *)
(* recovery moved the head below it: it is decided anew.                   *)
(***************************************************************************)
\* Mistake: what the log holds was accepted.
KnownByLog(ks, e) == LastAt(Ev[e].pre, Ev[e].sn) = e

Known(ks, e) == LastAt(Ev[e].pre, Ev[e].sn) = e /\ Ev[e].sn <= ks.s

DecideEvent(e, in) ==
    LET b == Ev[e]
        ks == kevers[b.pre]
    IN
    IF ks = NoState
    THEN IF b.ilk = "icp" THEN EvaluateInception(e, in) ELSE Escrow("ooo", in, <<>>)
    ELSE IF b.ilk = "icp"
    THEN IF b.sn # 0 THEN Reject
         ELSE IF ks.d = e THEN DuplicateDecision(ks, e, in)
         ELSE Escrow("duplicitous", in, <<>>)
    ELSE IF Known(ks, e) THEN DuplicateDecision(ks, e, in)
    ELSE IF b.sn > ks.s + 1 THEN Escrow("ooo", in, <<>>)
    ELSE EvaluateUpdate(ks, e, in)

------------------------------------------------------------------------------
(* Applying a decision *)

(* applyFirstSeenState: the ordinal logEvent assigned goes into the state. *)
SeenState(e, d) == [d.state EXCEPT !.fn = Len(fels[Ev[e].pre]) + 1]

NewAttachments(d) == d.sigers # {} \/ d.wigers # {}

(***************************************************************************)
(* The first n writes of applying decision d about event e, where rows is  *)
(* the escrow with the row being replayed, if any, already removed.        *)
(***************************************************************************)
Apply(n, e, d, local, rows) ==
    \/ /\ d.kind = "accept"
       /\ LogEvent(n, e, d.sigers, d.wigers, d.wits, local, TRUE)
       /\ PinState(n, Ev[e].pre, SeenState(e, d))
       /\ escrow' = rows
    \/ /\ d.kind = "duplicate" /\ NewAttachments(d)
       /\ LogEvent(n, e, d.sigers, d.wigers, d.wits, local, FALSE)
       /\ escrow' = rows
       /\ UNCHANGED states
    \/ /\ d.kind = "reject" \/ (d.kind = "duplicate" /\ ~NewAttachments(d))
       /\ escrow' = rows
       /\ UNCHANGED <<evts, sigs, wigs, wits, esrs, kels, fels, fons, states>>
    \/ /\ d.kind \in EscrowKind
       /\ PersistEscrow(n, d.kind, e, d.sigers, d.wigers, d.wits, local, rows)
       /\ UNCHANGED <<kels, fels, fons, states>>

(* The live cache after a decision was applied to the end.                 *)
LiveAfter(e, d) ==
    IF d.kind = "accept" THEN [kevers EXCEPT ![Ev[e].pre] = SeenState(e, d)] ELSE kevers

------------------------------------------------------------------------------
(* Events *)

Left(box, m) == IF m \in Resent THEN box ELSE box \ {m}

DeliverEvent(m) ==
    /\ m \in net
    /\ net' = Left(net, m)
    /\ \E d \in {DecideEvent(m.ev, m)} :
          /\ Apply(AllWrites, m.ev, d, m.local, escrow)
          /\ kevers' = LiveAfter(m.ev, d)
    /\ UNCHANGED <<receiptStores, post, crashes>>

\* Mistake: a replay forgets the witness signatures that came meanwhile.
RehydrateControllers(e) == [sigers |-> sigs[e], wigers |-> {}, local |-> esrs[e] = "local"]

\* Mistake: what this node stored itself replays as its own.
RehydrateLocal(e) == [sigers |-> sigs[e], wigers |-> wigs[e], local |-> TRUE]

(* What an escrow row is replayed with: the accumulated attachments.       *)
Rehydrate(e) == [sigers |-> sigs[e], wigers |-> wigs[e], local |-> esrs[e] = "local"]

(***************************************************************************)
(* Replay one row.  A row whose event still belongs in the same escrow     *)
(* stays as it is; any other decision removes the row before it applies.   *)
(***************************************************************************)
ReplayEscrow(kind, e) ==
    /\ e \in escrow[kind]
    /\ \E d \in {DecideEvent(e, Rehydrate(e))} :
          /\ d.kind # kind
          /\ Apply(AllWrites, e, d, esrs[e] = "local", WithoutRow(kind, e))
          /\ kevers' = LiveAfter(e, d)
    /\ UNCHANGED <<receiptStores, net, post, crashes>>

------------------------------------------------------------------------------
(* Receipts *)

OwnReceiptConflict(p, receiptor, local) ==
    ~Lax /\ receiptor \in Habs /\ (p \in Habs \/ ~local)

WitnessIndex(ws, w) == CHOOSE i \in DOMAIN ws : ws[i] = w
AsWiger(c, ws) == [index |-> WitnessIndex(ws, c.verfer), key |-> c.key]

(***************************************************************************)
(* The witness list receipts of an accepted event are checked against: the *)
(* one stored with it, the one in its own inception body, or the current   *)
(* one, which may first have to be read back from disk.                    *)
(***************************************************************************)
UsesLiveWits(e) == wits[e] = <<>> /\ Ev[e].ilk # "icp"

\* Mistake: the current witness list, whatever the event.
LiveWits(e) == GetKever(Ev[e].pre).wits

AcceptedWits(e) ==
    IF wits[e] # <<>> THEN wits[e]
    ELSE IF Ev[e].ilk = "icp" THEN Ev[e].backs
    ELSE GetKever(Ev[e].pre).wits

ReceiptTarget(e) ==
    LET p == Ev[e].pre
        last == LastAt(p, Ev[e].sn)
    IN
    IF last = NoEvent THEN "missing"
    ELSE IF last # e \/ e \notin evts THEN "stale"
    ELSE IF UsesLiveWits(e) /\ GetKever(p) = NoState THEN "missing"
    ELSE "accepted"

TargetCache(e) ==
    IF ReceiptTarget(e) = "accepted" /\ UsesLiveWits(e)
    THEN Rehydrated(Ev[e].pre) ELSE kevers

Valid(c) == c.verfer = c.key

(***************************************************************************)
(* What the seal of a transferable receipt leads to: an event of the       *)
(* receiptor that is the last at its number, whose key at the index of the *)
(* signature made it.                                                      *)
(***************************************************************************)
\* Mistake: a sealed event is believed as soon as its body is stored.
SealBelieved(q) ==
    IF q.seal.d \notin evts THEN "escrow"
    ELSE IF q.siger.index \notin DOMAIN Ev[q.seal.d].keys THEN "drop"
    ELSE IF Ev[q.seal.d].keys[q.siger.index] # q.siger.key THEN "unsigned"
    ELSE "accept"

SealVerdict(q) ==
    LET est == LastAt(q.seal.pre, q.seal.sn) IN
    IF est = NoEvent THEN "escrow"
    ELSE IF \/ est # q.seal.d \/ est \notin evts
            \/ q.siger.index \notin DOMAIN Ev[est].keys
    THEN "drop"
    ELSE IF Ev[est].keys[q.siger.index] # q.siger.key THEN "unsigned"
    ELSE "accept"

QuadrupleVerdict(p, q, local) ==
    IF OwnReceiptConflict(p, q.seal.pre, local) THEN "drop" ELSE SealVerdict(q)

(***************************************************************************)
(* The groups of a receipt are read in order, one seal to a group, until a *)
(* quadruple is to be dropped or its group to be escrowed; what comes      *)
(* after that quadruple, or after that group, is lost.                     *)
(***************************************************************************)
ReadUpTo(quads, p, local) ==
    LET Stopping == {i \in DOMAIN quads :
                        QuadrupleVerdict(p, quads[i], local) \in {"drop", "escrow"}}
    IN  {i \in DOMAIN quads : \A j \in Stopping : i <= j}

VerifiedQuads(quads, p, local) ==
    {quads[i] : i \in {j \in ReadUpTo(quads, p, local) :
                         QuadrupleVerdict(p, quads[j], local) = "accept"}}

UnreadGroup(quads, p, local) ==
    {q \in Range(quads) : \E i \in ReadUpTo(quads, p, local) :
        q.seal = quads[i].seal /\ QuadrupleVerdict(p, quads[i], local) = "escrow"}

DeliverReceipt(r) ==
    LET e == r.ev
        p == Ev[e].pre
        ws == AcceptedWits(e)
        good == {c \in r.couples : Valid(c) /\ ~OwnReceiptConflict(p, c.verfer, r.local)}
        byWit == {c \in good : c.verfer \in Range(ws)}
        signed == {w \in VerifiedSigers(r.wigers, ws) : ~OwnReceiptConflict(p, w.key, r.local)}
    IN
    /\ r \in post
    /\ post' = Left(post, r)
    /\ kevers' = TargetCache(e)
    /\ \/ /\ ReceiptTarget(e) = "stale"
          /\ UNCHANGED <<wigs, rcts, vrcs, uwes, ures, vres>>
       \/ /\ ReceiptTarget(e) = "missing"
          /\ ures' = ures \cup {[ev |-> e, couple |-> c] : c \in r.couples}
          /\ uwes' = uwes \cup {[ev |-> e, wiger |-> w] : w \in r.wigers}
          /\ vres' = vres \cup {[ev |-> e, quad |-> q] : q \in Range(r.quads)}
          /\ UNCHANGED <<wigs, rcts, vrcs>>
       \/ /\ ReceiptTarget(e) = "accepted"
          /\ wigs' = [wigs EXCEPT ![e] = @ \cup {AsWiger(c, ws) : c \in byWit} \cup signed]
          /\ rcts' = [rcts EXCEPT ![e] = @ \cup (good \ byWit)]
          /\ vrcs' = [vrcs EXCEPT ![e] = @ \cup VerifiedQuads(r.quads, p, r.local)]
          /\ vres' = vres \cup {[ev |-> e, quad |-> q] : q \in UnreadGroup(r.quads, p, r.local)}
          /\ UNCHANGED <<uwes, ures>>
    /\ UNCHANGED <<eventStores, net, crashes>>

(***************************************************************************)
(* The witness list of an event waiting for witnesses, recomputed from the *)
(* event and the current key state: a list, or why there is none.          *)
(***************************************************************************)
PartialWits(e) ==
    LET b == Ev[e]
        ks == GetKever(b.pre)
        Found(ws) == [kind |-> "found", wits |-> ws]
        None(why) == [kind |-> why, wits |-> <<>>]
    IN
    CASE b.ilk = "icp" -> IF IsInjective(b.backs) THEN Found(b.backs) ELSE None("drop")
      [] b.ilk = "rot" -> IF ks = NoState THEN None("keep")
                          ELSE IF ValidCutsAdds(ks.wits, b.cuts, b.adds)
                          THEN Found(RotatedWitnesses(ks.wits, b.cuts, b.adds))
                          ELSE None("drop")
      [] OTHER -> IF ks = NoState THEN None("drop") ELSE Found(ks.wits)

Awaited(e) == e \in escrow["partialWigs"]

PartialCache(e) ==
    IF Awaited(e) /\ Ev[e].ilk # "icp" THEN Rehydrated(Ev[e].pre) ELSE kevers

(* Replay a witness receipt: only an event waiting for witnesses takes it. *)
ReplayWitnessReceipt(row) ==
    LET e == row.ev
        pw == PartialWits(e)
        ok == pw.kind = "found" /\ VerifiedSigers({row.wiger}, pw.wits) # {}
    IN
    /\ row \in uwes
    /\ Awaited(e) /\ pw.kind # "keep"
    /\ wigs' = IF ok THEN [wigs EXCEPT ![e] = @ \cup {row.wiger}] ELSE wigs
    /\ uwes' = uwes \ {row}
    /\ kevers' = PartialCache(e)
    /\ UNCHANGED <<eventStores, rcts, vrcs, ures, vres, net, post, crashes>>

(***************************************************************************)
(* Replay a non-transferable receipt: an event waiting for witnesses takes *)
(* it when the receiptor is one of them, otherwise the accepted event      *)
(* does, as a witness signature or as a receipt couple.                    *)
(***************************************************************************)
FromAwaitedWitness(e, c) ==
    /\ Awaited(e)
    /\ \/ PartialWits(e).kind = "drop"
       \/ PartialWits(e).kind = "found" /\ c.verfer \in Range(PartialWits(e).wits)

ReplayNonTransReceipt(row) ==
    LET e == row.ev
        c == row.couple
        pw == PartialWits(e)
        Store(ws) == IF ~Valid(c) THEN UNCHANGED <<wigs, rcts>>
                     ELSE IF c.verfer \in Range(ws)
                     THEN /\ wigs' = [wigs EXCEPT ![e] = @ \cup {AsWiger(c, ws)}]
                          /\ UNCHANGED rcts
                     ELSE /\ rcts' = [rcts EXCEPT ![e] = @ \cup {c}]
                          /\ UNCHANGED wigs
    IN
    /\ row \in ures
    /\ \/ /\ FromAwaitedWitness(e, c)
          /\ ures' = ures \ {row}
          /\ kevers' = PartialCache(e)
          /\ IF pw.kind = "drop" THEN UNCHANGED <<wigs, rcts>> ELSE Store(pw.wits)
       \/ /\ ~FromAwaitedWitness(e, c)
          /\ ReceiptTarget(e) = "missing"
          /\ kevers' = PartialCache(e)
          /\ UNCHANGED <<ures, wigs, rcts>>
       \/ /\ ~FromAwaitedWitness(e, c)
          /\ ReceiptTarget(e) = "stale"
          /\ ures' = ures \ {row}
          /\ kevers' = PartialCache(e)
          /\ UNCHANGED <<wigs, rcts>>
       \/ /\ ~FromAwaitedWitness(e, c)
          /\ ReceiptTarget(e) = "accepted"
          /\ ures' = ures \ {row}
          /\ kevers' = IF UsesLiveWits(e) THEN TargetCache(e) ELSE PartialCache(e)
          /\ Store(AcceptedWits(e))
    /\ UNCHANGED <<eventStores, vrcs, uwes, vres, net, post, crashes>>

(***************************************************************************)
(* Replay a transferable receipt: it waits for its event and for the event *)
(* its seal names.                                                         *)
(***************************************************************************)
ReplayTransReceipt(row) ==
    LET e == row.ev
        verdict == SealVerdict(row.quad)
        target == ReceiptTarget(e)
        waits == target = "missing" \/ (target = "accepted" /\ verdict = "escrow")
    IN
    /\ row \in vres
    /\ vres' = IF waits THEN vres ELSE vres \ {row}
    /\ vrcs' = IF target = "accepted" /\ verdict = "accept"
                 THEN [vrcs EXCEPT ![e] = @ \cup {row.quad}] ELSE vrcs
    /\ kevers' = TargetCache(e)
    /\ UNCHANGED <<eventStores, wigs, rcts, uwes, ures, net, post, crashes>>

(* A replay that finds the row older than its timeout drops it.            *)
ExpireReceipt ==
    /\ MayExpire
    /\ \E row \in uwes \cup ures \cup vres :
          uwes' = uwes \ {row} /\ ures' = ures \ {row} /\ vres' = vres \ {row}
    /\ UNCHANGED <<eventStores, wigs, rcts, vrcs, kevers, net, post, crashes>>

------------------------------------------------------------------------------
(* Stopping and starting again *)

(* Between two handlers.                                                   *)
Restart ==
    /\ crashes < MaxCrashes
    /\ crashes' = crashes + 1
    /\ kevers' = Reloaded(states)
    /\ UNCHANGED <<eventStores, receiptStores, wigs, net, post>>

(* Inside a delivery, after some of its writes.                            *)
CrashInDelivery(m) ==
    /\ crashes < MaxCrashes
    /\ crashes' = crashes + 1
    /\ m \in net
    /\ net' = Left(net, m)
    /\ \E d \in {DecideEvent(m.ev, m)} : \E n \in 0..(AllWrites - 1) :
          Apply(n, m.ev, d, m.local, escrow)
    /\ kevers' = Reloaded(states')
    /\ UNCHANGED <<receiptStores, post>>

(* Inside a replay, the row already removed.                               *)
CrashInReplay(kind, e) ==
    /\ crashes < MaxCrashes
    /\ crashes' = crashes + 1
    /\ e \in escrow[kind]
    /\ \E d \in {DecideEvent(e, Rehydrate(e))} : \E n \in 0..(AllWrites - 1) :
          /\ d.kind # kind
          /\ Apply(n, e, d, esrs[e] = "local", WithoutRow(kind, e))
    /\ kevers' = Reloaded(states')
    /\ UNCHANGED <<receiptStores, net, post>>

Crash ==
    \/ \E m \in net : CrashInDelivery(m)
    \/ \E k \in EscrowKind : \E e \in escrow[k] : CrashInReplay(k, e)

------------------------------------------------------------------------------
Init ==
    /\ InitStores
    /\ net = Messages
    /\ post = Receipts
    /\ crashes = 0

Next ==
    \/ \E m \in Messages : DeliverEvent(m)
    \/ \E k \in EscrowKind, e \in Event : ReplayEscrow(k, e)
    \/ \E r \in Receipts : DeliverReceipt(r)
    \/ \E row \in uwes : ReplayWitnessReceipt(row)
    \/ \E row \in ures : ReplayNonTransReceipt(row)
    \/ \E row \in vres : ReplayTransReceipt(row)
    \/ ExpireReceipt

Spec == Init /\ [][Next]_vars

(* The node may also stop between handlers, or between two store writes.   *)
RestartSpec == Init /\ [][Next \/ Restart]_vars
CrashSpec == Init /\ [][Next \/ Restart \/ Crash]_vars

(***************************************************************************)
(* Fairness.  The runtime's message loop takes what has arrived, its       *)
(* escrow loop sweeps for ever: as long as some row can be replayed one is *)
(* replayed, which row is not promised.  The network delivers each message *)
(* it goes on carrying again and again, and each of the others once.       *)
(***************************************************************************)
SweepEvents == \E k \in EscrowKind, e \in Event : ReplayEscrow(k, e)

SweepReceipts ==
    \/ \E row \in uwes : ReplayWitnessReceipt(row)
    \/ \E row \in ures : ReplayNonTransReceipt(row)
    \/ \E row \in vres : ReplayTransReceipt(row)

Fairness ==
    /\ \A m \in Messages \cap Resent : WF_vars(DeliverEvent(m))
    /\ \A r \in Receipts \cap Resent : WF_vars(DeliverReceipt(r))
    /\ WF_vars(\E m \in Messages : DeliverEvent(m))
    /\ WF_vars(\E r \in Receipts : DeliverReceipt(r))
    /\ WF_vars(SweepEvents)
    /\ WF_vars(SweepReceipts)

FairSpec == Spec /\ Fairness
FairCrashSpec == CrashSpec /\ Fairness
==============================================================================
