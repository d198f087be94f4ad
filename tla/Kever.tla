-------------------------------- MODULE Kever --------------------------------
(***************************************************************************)
(* The decision of one live key state about one event: accept it, escrow   *)
(* it, or reject it.  Nothing here writes; Kevery applies the decision.    *)
(*                                                                         *)
(* Delegated identifiers (dip, drt) are outside this module.               *)
(***************************************************************************)
EXTENDS Baser

Decision(kind, state, sg, wg, wt) ==
    [kind |-> kind, state |-> state, sigers |-> sg, wigers |-> wg, wits |-> wt]

Reject == Decision("reject", NoState, {}, {}, <<>>)
Accept(ks, sg, wg, wt) == Decision("accept", ks, sg, wg, wt)

(* An escrow decision keeps the attachments as they came, unverified.      *)
Escrow(kind, in, wt) == Decision(kind, NoState, in.sigers, in.wigers, wt)

------------------------------------------------------------------------------
(* Who this node is to the event *)

LocallyOwned(p) == p \in Habs \ Groups
LocallyMembered(p) == p \in Groups
LocallyWitnessed(ws) == Range(ws) \cap Habs # {}

(* Keys of the live key states of local habitats, groups among them.       *)
LocalKeys ==
    UNION {Range(kevers[q].keys) : q \in {r \in Habs \cap Pre : kevers[r] # NoState}}

(***************************************************************************)
(* The signatures that may count: from a remote source about a group this  *)
(* node is a member of, not those at an index some local key holds.        *)
(***************************************************************************)
Counted(p, keys, in) ==
    IF ~in.local /\ LocallyMembered(p)
    THEN {s \in in.sigers : ~(s.index \in DOMAIN keys /\ keys[s.index] \in LocalKeys)}
    ELSE in.sigers

------------------------------------------------------------------------------
(***************************************************************************)
(* What a rotation must show beside its own threshold: enough of the keys  *)
(* the key state before it committed to.                                   *)
(***************************************************************************)
\* Mistake: any exposed key will do.
ExposesSome(e, verified, nextKeys, nextTholder) ==
    Ev[e].ilk = "rot" => Exposed(verified, nextKeys) # {}

ExposesNext(e, verified, nextKeys, nextTholder) ==
    Ev[e].ilk = "rot" => SatisfiesTholder(nextTholder, Exposed(verified, nextKeys))

\* Mistake: the witness signatures are counted as they came.
CountedUnverified(wigers, ws) == Cardinality(wigers)

WitnessesCounted(wigers, ws) == Cardinality(VerifiedSigers(wigers, ws))

(***************************************************************************)
(* Attachments: gov is what must be satisfied, the keys, their threshold,  *)
(* the witnesses and theirs; nextKeys and nextTholder are what the key     *)
(* state before the event committed to.  The checks are in this order.     *)
(***************************************************************************)
Governing(keys, kt, ws, toad) == [keys |-> keys, kt |-> kt, wits |-> ws, toad |-> toad]

AttachmentVerdict(e, gov, nextKeys, nextTholder, in) ==
    LET p == Ev[e].pre
        verified == VerifiedSigers(Counted(p, gov.keys, in), gov.keys)
        protected == LocallyOwned(p) \/ LocallyMembered(p) \/ LocallyWitnessed(gov.wits)
    IN
    IF ~ValidThresholdMaterial(gov.kt, gov.keys) \/ verified = {} THEN "reject"
    ELSE IF ~in.local /\ (LocallyOwned(p) \/ LocallyWitnessed(gov.wits)) THEN "misfit"
    ELSE IF ~SatisfiesTholder(gov.kt, Indices(verified)) THEN "partialSigs"
    ELSE IF ~ExposesNext(e, verified, nextKeys, nextTholder) THEN "partialSigs"
    ELSE IF gov.wits = <<>> THEN IF gov.toad = 0 THEN "accept" ELSE "reject"
    ELSE IF protected THEN "accept"
    ELSE IF ~ValidToad(gov.wits, gov.toad) THEN "reject"
    ELSE IF WitnessesCounted(in.wigers, gov.wits) < gov.toad THEN "partialWigs"
    ELSE "accept"

(***************************************************************************)
(* The decision the verdict makes: acceptance stores the verified          *)
(* attachments, and the witness list if logged is that list.               *)
(***************************************************************************)
AttachmentDecision(e, gov, nextKeys, nextTholder, in, ks, logged) ==
    LET verdict == AttachmentVerdict(e, gov, nextKeys, nextTholder, in)
        verified == VerifiedSigers(Counted(Ev[e].pre, gov.keys, in), gov.keys)
    IN
    CASE verdict = "reject" -> Reject
      [] verdict = "accept" ->
            Accept(ks, verified, VerifiedSigers(in.wigers, gov.wits), logged)
      [] OTHER -> Escrow(verdict, in, gov.wits)

------------------------------------------------------------------------------
(* Inception *)

\* Mistake: the last establishment event is taken to be the prior one.
InitialFromPrior(e) ==
    LET b == Ev[e] IN
    [d |-> e, s |-> 0, ilk |-> b.ilk, keys |-> b.keys, kt |-> b.kt,
     nkeys |-> b.nkeys, nt |-> b.nt, wits |-> b.backs, toad |-> b.toad,
     traits |-> b.traits, est |-> [s |-> 0, d |-> b.prior], fn |-> 0]

InitialKeyState(e) ==
    LET b == Ev[e] IN
    [d |-> e, s |-> 0, ilk |-> b.ilk, keys |-> b.keys, kt |-> b.kt,
     nkeys |-> b.nkeys, nt |-> b.nt, wits |-> b.backs, toad |-> b.toad,
     traits |-> b.traits, est |-> [s |-> 0, d |-> e], fn |-> 0]

EvaluateInception(e, in) ==
    LET b == Ev[e] IN
    IF ~ValidInception(e) THEN Reject
    ELSE AttachmentDecision(e, Governing(b.keys, b.kt, b.backs, b.toad),
                            b.nkeys, b.nt, in, InitialKeyState(e), b.backs)

------------------------------------------------------------------------------
(* Rotation *)

(***************************************************************************)
(* A rotation follows the head, or supersedes the interactions after some  *)
(* accepted event later than the last establishment event.                 *)
(***************************************************************************)
\* Mistake: whatever follows the prior may be superseded.
RecoversBelowEst(ks, e) ==
    /\ Ev[e].sn <= ks.s
    /\ Ev[e].prior = LastAt(Ev[e].pre, Ev[e].sn - 1)
    /\ Ev[e].prior \in evts

Recovers(ks, e) ==
    LET b == Ev[e]
        prior == LastAt(b.pre, b.sn - 1)
    IN
    /\ b.sn <= ks.s
    /\ b.sn > ks.est.s
    /\ ks.ilk = "ixn"
    /\ prior \in evts
    /\ b.prior = prior

Follows(ks, e) == Ev[e].sn = ks.s + 1 /\ Ev[e].prior = ks.d

\* Mistake: the state moves on from the head, not to the rotation.
RotatedAboveHead(ks, e) ==
    [InitialKeyState(e) EXCEPT !.s = ks.s + 1, !.ilk = "rot", !.fn = ks.fn,
        !.wits = RotatedWitnesses(ks.wits, Ev[e].cuts, Ev[e].adds),
        !.est = [s |-> Ev[e].sn, d |-> e]]

\* Mistake: the next keys stay those of the event before.
RotatedStaleNext(ks, e) ==
    [ks EXCEPT !.d = e, !.s = Ev[e].sn, !.ilk = "rot", !.keys = Ev[e].keys,
               !.kt = Ev[e].kt, !.est = [s |-> Ev[e].sn, d |-> e]]

RotatedKeyState(ks, e) ==
    LET b == Ev[e] IN
    [d |-> e, s |-> b.sn, ilk |-> "rot", keys |-> b.keys, kt |-> b.kt,
     nkeys |-> b.nkeys, nt |-> b.nt,
     wits |-> RotatedWitnesses(ks.wits, b.cuts, b.adds), toad |-> b.toad,
     traits |-> b.traits, est |-> [s |-> b.sn, d |-> e], fn |-> ks.fn]

EvaluateRotation(ks, e, in) ==
    LET b == Ev[e]
        next == RotatedKeyState(ks, e)
    IN
    IF b.sn > ks.s + 1 THEN Escrow("ooo", in, <<>>)
    ELSE IF /\ Recovers(ks, e) \/ Follows(ks, e)
            /\ ValidThresholdMaterial(b.kt, b.keys)
            /\ ValidCutsAdds(ks.wits, b.cuts, b.adds)
            /\ ValidToad(next.wits, b.toad)
    THEN AttachmentDecision(e, Governing(b.keys, b.kt, next.wits, b.toad),
                            ks.nkeys, ks.nt, in, next, next.wits)
    ELSE Reject

------------------------------------------------------------------------------
(* Interaction *)

InteractedKeyState(ks, e) == [ks EXCEPT !.d = e, !.s = Ev[e].sn, !.ilk = "ixn"]

\* Mistake: an interaction may recover as a rotation does.
InteractionRecovers(ks, e, in) ==
    IF Ev[e].sn > ks.s + 1 THEN Escrow("ooo", in, <<>>)
    ELSE IF ~Follows(ks, e) /\ ~Recovers(ks, e) THEN Reject
    ELSE AttachmentDecision(e, Governing(ks.keys, ks.kt, ks.wits, ks.toad),
                            ks.nkeys, ks.nt, in, InteractedKeyState(ks, e), <<>>)

EvaluateInteraction(ks, e, in) ==
    IF "EO" \in ks.traits THEN Reject
    ELSE IF Ev[e].sn > ks.s + 1 THEN Escrow("ooo", in, <<>>)
    ELSE IF ~Follows(ks, e) THEN Reject
    ELSE AttachmentDecision(e, Governing(ks.keys, ks.kt, ks.wits, ks.toad),
                            ks.nkeys, ks.nt, in, InteractedKeyState(ks, e), <<>>)

EvaluateUpdate(ks, e, in) ==
    CASE Ev[e].pre \notin Transferable -> Reject
      [] Ev[e].pre \in Transferable /\ Ev[e].ilk = "rot" -> EvaluateRotation(ks, e, in)
      [] Ev[e].pre \in Transferable /\ Ev[e].ilk = "ixn" -> EvaluateInteraction(ks, e, in)
      [] OTHER -> Reject
==============================================================================
