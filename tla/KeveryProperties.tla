--------------------------- MODULE KeveryProperties ---------------------------
(***************************************************************************)
(* What a reader of the key event log may rely on, whatever the order,     *)
(* repetition, splitting and loss of the messages the log was built from.  *)
(***************************************************************************)
EXTENDS Kevery

TypeOK ==
    /\ StoresTypeOK
    /\ net \in SUBSET Messages
    /\ post \in SUBSET Receipts
    /\ crashes \in 0..MaxCrashes

Accepted(p) == Range(fels[p])

(* An event is on the chain below the head.                                *)
OnChain(e) ==
    LET p == Ev[e].pre IN
    states[p] # NoState /\ Ev[e].sn <= states[p].s /\ LastAt(p, Ev[e].sn) = e

------------------------------------------------------------------------------
(***************************************************************************)
(* processEvent / applyDecision: below the head, the event last recorded   *)
(* at each sequence number names as prior the one recorded before it, and  *)
(* the key state stands at the last of them.  Recovery moves the head back *)
(* without erasing what it supersedes, so this is not how kels. is built   *)
(* but what is left of it after any number of recoveries.                  *)
(***************************************************************************)
KelChain ==
    \A p \in Pre : states[p] # NoState =>
        /\ LastAt(p, states[p].s) = states[p].d
        /\ \A n \in 1..states[p].s :
              LastAt(p, n) # NoEvent /\ Ev[LastAt(p, n)].prior = LastAt(p, n - 1)
        /\ Ev[LastAt(p, 0)].ilk = "icp"

(***************************************************************************)
(* logEvent / appendFel: an event is first seen once, its ordinal is its   *)
(* place in the log, and the log and the key event log hold the same       *)
(* events, however often and through whichever escrow an event came.       *)
(***************************************************************************)
FirstSeenOnce ==
    \A p \in Pre :
        /\ IsInjective(fels[p])
        /\ \A i \in DOMAIN fels[p] : fons[fels[p][i]] = i
        /\ Accepted(p) = UNION {Range(kels[p][n]) : n \in Sn}

(***************************************************************************)
(* evaluateRotation: recovery supersedes interactions only, so an accepted *)
(* establishment event stays on the chain below the head for good.         *)
(***************************************************************************)
EstNeverSuperseded ==
    \A p \in Pre : \A e \in Accepted(p) :
        Establishment(e) => OnChain(e)

(***************************************************************************)
(* validateAttachments: an accepted event carries stored signatures that   *)
(* reach the threshold of the establishment event governing it on its own  *)
(* chain, and a rotation's signatures expose enough of the keys the        *)
(* previous establishment event committed to, even when they came in       *)
(* several messages and the event waited in several escrows.               *)
(***************************************************************************)
AcceptedAuthorized ==
    \A p \in Pre : \A e \in Accepted(p) :
        LET est == Ev[GovEst[e]]
            good == VerifiedSigers(sigs[e], est.keys)
        IN
        /\ SatisfiesTholder(est.kt, Indices(good))
        /\ Ev[e].ilk = "rot" =>
              LET before == Ev[GovEst[Ev[e].prior]] IN
              SatisfiesTholder(before.nt, Exposed(good, before.nkeys))

(***************************************************************************)
(* validateAttachments, storeVerifiedDetachedReceiptMaterial,              *)
(* processEscrowFindUnver: an event of a remote identifier none of whose   *)
(* witnesses is local is accepted only with the signatures of its          *)
(* threshold of the witnesses its own chain puts in force.                 *)
(***************************************************************************)
AcceptedWitnessed ==
    \A p \in Pre \ Habs : \A e \in Accepted(p) :
        LocallyWitnessed(GovWits[e])
        \/ Cardinality(VerifiedSigers(wigs[e], GovWits[e])) >= Ev[GovEst[e]].toad

(***************************************************************************)
(* applyTransition: the key state is what replaying the chain below the    *)
(* head from its inception gives, in keys, thresholds and witnesses.       *)
(***************************************************************************)
StateFromChain ==
    \A p \in Pre : states[p] # NoState =>
        LET ks == states[p]
            est == Ev[GovEst[ks.d]]
        IN
        /\ ks.est.d = GovEst[ks.d]
        /\ ks.wits = GovWits[ks.d]
        /\ <<ks.keys, ks.kt, ks.nkeys, ks.nt, ks.toad>>
             = <<est.keys, est.kt, est.nkeys, est.nt, est.toad>>

(***************************************************************************)
(* resolveAcceptedEventWitnesses, resolvePartialWitnessEscrowWitnesses:    *)
(* the receipt of a witness of an accepted establishment event is counted  *)
(* as a witness signature and never filed with the receipts of strangers,  *)
(* whether it came before or after the event and however often the         *)
(* witnesses changed since.                                                *)
(***************************************************************************)
EstReceiptsFiled ==
    \A p \in Pre : \A e \in Accepted(p) :
        Establishment(e) => \A c \in rcts[e] : c.verfer \notin Range(GovWits[e])

(***************************************************************************)
(* processVerifiedTransferableReceiptQuadruple,                            *)
(* reprocessEscrowedTransferableReceipt: a stored receipt of another       *)
(* identifier is of an accepted event and signed by a key of an            *)
(* establishment event that stands, and goes on standing, on the chain of  *)
(* the receiptor, at the number its seal names, in whatever order receipt, *)
(* receipted event and the receiptor's events came.                        *)
(***************************************************************************)
TransReceiptsSealed ==
    \A e \in Event : \A q \in vrcs[e] :
        LET est == q.seal.d IN
        /\ e \in Accepted(Ev[e].pre)
        /\ OnChain(est) /\ Ev[est].pre = q.seal.pre /\ Ev[est].sn = q.seal.sn
        /\ VerifiedSigers({q.siger}, Ev[est].keys) # {}

(***************************************************************************)
(* validateAttachments misfit rule: an event of an identifier this node    *)
(* owns, or one of whose witnesses is local, is accepted only if it came   *)
(* from a local source, whatever escrow it waited in.                      *)
(***************************************************************************)
ProtectedOnlyLocal ==
    \A p \in Pre : \A e \in Accepted(p) :
        LocallyOwned(p) \/ LocallyWitnessed(GovWits[e]) => esrs[e] = "local"

(***************************************************************************)
(* The order of the writes of logEvent and pinState: at every instant of   *)
(* any handler a crash may expose, an event in the key event log has its   *)
(* body, its attachments' source and its first-seen ordinal stored, and    *)
(* the durable key state stands at an event of the key event log.          *)
(***************************************************************************)
WriteOrder ==
    \A p \in Pre :
        /\ \A n \in Sn : \A e \in Range(kels[p][n]) :
              e \in evts /\ esrs[e] # "none" /\ fons[e] # 0 /\ e \in Accepted(p)
        /\ states[p] # NoState => states[p].d \in Range(kels[p][states[p].s])

(***************************************************************************)
(* applyDecision: the durable key state is never taken back behind its     *)
(* last establishment event, so no retired key governs again, and every    *)
(* change of it is first seen after the one before.                        *)
(***************************************************************************)
StateNeverRollsBack ==
    [][\A p \in Pre : states[p] # NoState /\ states'[p] # states[p] =>
          states'[p].est.s >= states[p].est.s /\ states'[p].fn > states[p].fn]_vars

------------------------------------------------------------------------------
(***************************************************************************)
(* The inductive invariant of the log.  The live cache agrees with the     *)
(* durable states; the state stands at the last event of the first-seen    *)
(* log; the key event log holds the first-seen events, each at its number; *)
(* the prior of an event was first seen before it; and no establishment    *)
(* event is above the last one the state knows.                            *)
(***************************************************************************)
IsHead(ks) ==
    /\ {"d", "s", "ilk", "est", "fn"} \subseteq DOMAIN ks
    /\ ks.d \in Event /\ ks.s \in Sn /\ ks.est.s \in Sn /\ ks.fn \in Nat

LogTypeOK ==
    /\ evts \in SUBSET Event
    /\ kels \in [Pre -> [Sn -> Seq(Event)]]
    /\ fels \in [Pre -> Seq(Event)]
    /\ fons \in [Event -> Nat]
    /\ escrow \in [EscrowKind -> SUBSET Event]
    /\ states = [p \in Pre |-> states[p]] /\ kevers = [p \in Pre |-> kevers[p]]
    /\ \A p \in Pre : states[p] # NoState => IsHead(states[p])

CacheIsDurable == \A p \in Pre : kevers[p] = states[p]

HeadIsLast ==
    \A p \in Pre :
        IF states[p] = NoState THEN fels[p] = <<>>
        ELSE /\ fels[p] # <<>>
             /\ states[p].d = fels[p][Len(fels[p])]
             /\ states[p].s = Ev[states[p].d].sn
             /\ states[p].fn = Len(fels[p])
             /\ states[p].est.s <= states[p].s

KelHoldsFel ==
    \A p \in Pre :
        /\ \A n \in Sn : \A i \in DOMAIN kels[p][n] :
              Ev[kels[p][n][i]].sn = n /\ \E j \in DOMAIN fels[p] : fels[p][j] = kels[p][n][i]
        /\ \A j \in DOMAIN fels[p] :
              \E i \in DOMAIN kels[p][Ev[fels[p][j]].sn] :
                 kels[p][Ev[fels[p][j]].sn][i] = fels[p][j]

PriorBefore ==
    \A p \in Pre : \A j \in DOMAIN fels[p] :
        Ev[fels[p][j]].ilk # "icp" =>
            \E i \in 1..(j - 1) : fels[p][i] = Ev[fels[p][j]].prior

EstBelow ==
    \A p \in Pre : \A j \in DOMAIN fels[p] :
        Establishment(fels[p][j]) => Ev[fels[p][j]].sn <= states[p].est.s

FelNumbered ==
    \A p \in Pre : \A j \in DOMAIN fels[p] :
        Ev[fels[p][j]].pre = p /\ fons[fels[p][j]] = j

LogInv ==
    /\ LogTypeOK
    /\ CacheIsDurable
    /\ HeadIsLast
    /\ KelHoldsFel
    /\ PriorBefore
    /\ EstBelow
    /\ FelNumbered

------------------------------------------------------------------------------
(***************************************************************************)
(* processEscrows: an event that stands on the chain, accepted by another  *)
(* way, does not stay in an escrow it waits in.  decideEvent: an event     *)
(* logged before a stop and not yet pinned is not taken for a duplicate    *)
(* when it comes again; replay repairs the state, so every event of the    *)
(* key event log is one the durable key state reaches.  Again and again    *)
(* the sweeps come to a moment when both hold.                             *)
(***************************************************************************)
Reached(e) ==
    LET p == Ev[e].pre IN states[p] # NoState /\ states[p].s >= Ev[e].sn

NoneLeftBehind ==
    /\ \A k \in EscrowKind \ {"duplicitous"} : \A e \in escrow[k] : ~OnChain(e)
    /\ \A e \in Event : e \in Range(kels[Ev[e].pre][Ev[e].sn]) => Reached(e)

SweepsCatchUp == []<>NoneLeftBehind

------------------------------------------------------------------------------
(***************************************************************************)
(* kels. and fels. together implement the log and chain of KeyEventLog.    *)
(***************************************************************************)
Chain(p) ==
    IF states[p] = NoState THEN <<>>
    ELSE [i \in 1..(states[p].s + 1) |-> LastAt(p, i - 1)]

KEL == INSTANCE KeyEventLog WITH log <- fels, chain <- [p \in Pre |-> Chain(p)]

ImplementsKeyEventLog == KEL!Spec
==============================================================================
