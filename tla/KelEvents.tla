------------------------------ MODULE KelEvents ------------------------------
(***************************************************************************)
(* The data a key event log is made of, and the pure functions of the      *)
(* validator over that data: thresholds, indexed signatures, prior-next    *)
(* exposure and witness-list arithmetic.                                   *)
(*                                                                         *)
(* An event is a value: its SAID is a digest of its whole body, so two     *)
(* events with the same SAID are the same event and the model uses the     *)
(* event itself wherever the code stores or compares a SAID.  Ev gives     *)
(* the body.  Sequences are indexed from 1 where the code indexes from 0.  *)
(***************************************************************************)
EXTENDS Integers, Sequences, FiniteSets, Functions

CONSTANTS
    Pre,            \* identifier prefixes whose KELs this node may see
    Transferable,   \* those of Pre whose prefix code is transferable
    Key,            \* controller signing keys
    Wit,            \* non-transferable prefixes (a prefix is its own key)
    Habs,           \* prefixes, of Pre or Wit, this node has a habitat for
    Groups,         \* those of Habs that are multisig groups it is a member of
    Event,          \* the key events that exist in the run
    Ev,             \* the body of each event
    NoEvent,        \* no SAID
    MaxSn           \* bound: the largest sequence number of an event

Sn == 0..MaxSn
Ilk == {"icp", "rot", "ixn"}
Trait == {"EO", "DND"}

(***************************************************************************)
(* A Tholder is the number of keys it speaks about and the index sets that *)
(* satisfy it; a numeric threshold m is the sets of m indices, a weighted  *)
(* one the sets whose weights reach one in every clause.                   *)
(***************************************************************************)
Tholder == [size : Nat, quorums : SUBSET (SUBSET Nat)]

Body == [pre : Pre, ilk : Ilk, sn : Sn, prior : Event \cup {NoEvent},
         keys : Seq(Key), kt : Tholder, nkeys : Seq(Key), nt : Tholder,
         backs : Seq(Wit), cuts : Seq(Wit), adds : Seq(Wit), toad : Nat,
         traits : SUBSET Trait, seals : BOOLEAN]

ASSUME EventAssumption ==
    /\ MaxSn \in Nat
    /\ Transferable \subseteq Pre
    /\ Habs \subseteq Pre \cup Wit
    /\ Groups \subseteq Habs \cap Pre
    /\ NoEvent \notin Event
    /\ Ev \in [Event -> Body]

(***************************************************************************)
(* A SAID digests the SAID of the event before: no chain of priors comes   *)
(* back to an event, so every set of events has one whose prior is not in  *)
(* it.                                                                     *)
(***************************************************************************)
ASSUME AcyclicAssumption ==
    \A S \in SUBSET Event : S # {} => \E e \in S : Ev[e].prior \notin S

(***************************************************************************)
(* Keys of one list are distinct, so no index of a threshold is met twice  *)
(* by one key, and an interaction lists none.                              *)
(***************************************************************************)
ASSUME KeyAssumption ==
    \A e \in Event :
        /\ IsInjective(Ev[e].keys) /\ IsInjective(Ev[e].nkeys)
        /\ Ev[e].ilk = "ixn" => Ev[e].keys = <<>>

(***************************************************************************)
(* An indexed signature over a given event: index is the signer's place in *)
(* the event's own key list, ondex its place in the prior next-digest list *)
(* (NoIndex when the code is "current list only"), key the key it was made *)
(* with.  A witness signature names its place in the witness list, and a   *)
(* non-transferable receipt couple its receiptor.                          *)
(***************************************************************************)
NoIndex == 0
Siger == [index : Nat, ondex : Nat, key : Key]
Wiger == [index : Nat, key : Wit]
Couple == [verfer : Wit, key : Wit]

(***************************************************************************)
(* A transferable receiptor signs with a key of one of its establishment   *)
(* events, which a seal names.                                             *)
(***************************************************************************)
Seal == [pre : Pre, sn : Sn, d : Event]
Quadruple == [seal : Seal, siger : Siger]

SatisfiesTholder(th, indices) == \E q \in th.quorums : q \subseteq indices

ValidThresholdMaterial(th, keys) == Len(keys) >= th.size

VerifiedSigers(sigers, keys) ==
    {s \in sigers : s.index \in DOMAIN keys /\ keys[s.index] = s.key}

Indices(sigers) == {s.index : s \in sigers}

(***************************************************************************)
(* The places of the prior next-digest list whose key a signature exposes. *)
(* The digest of a key is the key: the list commits to it, no more.        *)
(***************************************************************************)
Exposed(sigers, nkeys) ==
    {s.ondex : s \in {x \in sigers : x.ondex \in DOMAIN nkeys
                                        /\ nkeys[x.ondex] = x.key}}

ValidToad(wits, toad) ==
    IF wits = <<>> THEN toad = 0 ELSE toad \in 1..Len(wits)

ValidCutsAdds(wits, cuts, adds) ==
    /\ IsInjective(cuts) /\ IsInjective(adds)
    /\ Range(cuts) \subseteq Range(wits)
    /\ Range(cuts) \cap Range(adds) = {}
    /\ Range(wits) \cap Range(adds) = {}

(* What is left of a list, in its order.  A recursive function, which the  *)
(* provers can unfold where they cannot unfold SelectSeq.                  *)
Without(list, gone) ==
    LET left[i \in 0..Len(list)] ==
            IF i = 0 THEN <<>>
            ELSE IF list[i] \in gone THEN left[i - 1] ELSE Append(left[i - 1], list[i])
    IN  left[Len(list)]

RotatedWitnesses(wits, cuts, adds) == Without(wits, Range(cuts)) \o adds

(***************************************************************************)
(* The structural checks of an inception body.                             *)
(***************************************************************************)
ValidInception(e) ==
    LET b == Ev[e] IN
    /\ b.sn = 0
    /\ ValidThresholdMaterial(b.kt, b.keys)
    /\ b.pre \in Transferable \/ (b.nkeys = <<>> /\ b.backs = <<>> /\ ~b.seals)
    /\ IsInjective(b.backs)
    /\ ValidToad(b.backs, b.toad)

(***************************************************************************)
(* Reference definitions, read off the event chain alone and used by the   *)
(* properties: the establishment event that governs an event, and the      *)
(* witness list in force at it.                                            *)
(***************************************************************************)
Establishment(e) == Ev[e].ilk # "ixn"

GovEst[e \in Event] ==
    IF Establishment(e) \/ Ev[e].prior = NoEvent THEN e ELSE GovEst[Ev[e].prior]

GovWits[e \in Event] ==
    IF Ev[e].ilk = "icp" THEN Ev[e].backs
    ELSE IF Ev[e].prior = NoEvent THEN <<>>
    ELSE IF Ev[e].ilk = "ixn" THEN GovWits[Ev[e].prior]
    ELSE RotatedWitnesses(GovWits[Ev[e].prior], Ev[e].cuts, Ev[e].adds)
==============================================================================
