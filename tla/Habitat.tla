------------------------------- MODULE Habitat -------------------------------
(***************************************************************************)
(* The identifiers a node controls: habitats, whose key event logs the     *)
(* local Kevery accepts, and the keeper that holds their private keys.     *)
(* Keys come in lots: the keeper knows of each identifier the lot before,  *)
(* the lot in use and the lot promised next.  The two databases are not    *)
(* written together: the keeper moves first, and is put back when the      *)
(* event is not accepted.  A node may stop between any two writes.         *)
(*                                                                         *)
(* A lot is named by its identifier's name, its place in the sequence and  *)
(* a nonce: salty keys are derived again from the name and the place,      *)
(* random ones are new each time.  An identifier is the name of its first  *)
(* lot, whether or not its records were moved to its final prefix.         *)
(***************************************************************************)
EXTENDS Integers, Sequences, FiniteSets, Functions

CONSTANTS
    Salty,      \* names whose keys are derived from a salt
    Randy,      \* names whose keys are random
    Group,      \* multisig groups the node has a member of
    None,       \* no lot
    MaxRidx,    \* bound: the last place of a lot in its sequence
    MaxMade,    \* bound: how many times random keys are made
    MaxCrashes  \* bound: how many times the node may stop

Name == Salty \cup Randy
Lot == [name : Name, ridx : 0..MaxRidx, nonce : 0..MaxMade]
Pre == {l \in Lot : l.ridx = 0}

ASSUME HabitatAssumption ==
    /\ Salty \cap Randy = {} /\ Group \cap Lot = {} /\ None \notin Group \cup Lot
    /\ MaxRidx \in Nat \ {0} /\ MaxMade \in Nat /\ MaxCrashes \in Nat

VARIABLES
    pres,      \* identifiers the keeper has an entry for
    sits,      \* the lots of each before, in use and next
    pubs,      \* the public keys kept of each, as the places that have a lot
    pris,      \* lots whose private keys are stored
    habs,      \* identifiers and groups with a habitat record
    names,     \* what each name was given to
    log,       \* the lots in use and next by each accepted log
    waiting,   \* groups whose event waits in an escrow
    prefixes,  \* the node's own accepted identifiers, in memory
    groups,    \* the groups among them, in memory
    made,      \* how many times random keys were made
    open,      \* the node runs
    crashes    \* times the node stopped

vars == <<pres, sits, pubs, pris, habs, names, log, waiting, prefixes, groups,
          made, open, crashes>>
keeper == <<pres, sits, pubs, pris>>

NoSit == [old |-> None, new |-> None, nxt |-> None]
NoLog == [cur |-> None, next |-> None]

Accepted(p) == log[p] # NoLog

------------------------------------------------------------------------------
(* Making keys *)

(* Salty keys come out the same again, random ones do not.                 *)
NewLot(name, ridx) ==
    [name |-> name, ridx |-> ridx, nonce |-> IF name \in Randy THEN made ELSE 0]
MadeAfter(name) == IF name \in Randy THEN made + 1 ELSE made

------------------------------------------------------------------------------
(* Making an identifier *)

(* Six writes of Manager.incept, the move, the record, the name, the log.  *)
(* With an entry kept already incept throws before the first of them.      *)
MakeWrites == 10

(***************************************************************************)
(* The first n writes of Manager.incept: the entry of the identifier, its  *)
(* parameters and lots, the private keys of two lots, their public keys,   *)
(* and the index of the next identifier.                                   *)
(***************************************************************************)
Incept(n, p, next) ==
    /\ pres' = IF n >= 1 THEN pres \cup {p} ELSE pres
    /\ sits' = IF n >= 3 THEN [sits EXCEPT ![p] = [old |-> None, new |-> p, nxt |-> next]] ELSE sits
    /\ pris' = IF n >= 4 THEN pris \cup {p, next} ELSE pris
    /\ pubs' = IF n >= 5 THEN [pubs EXCEPT ![p] = [@ EXCEPT ![0] = p, ![1] = next]] ELSE pubs

(***************************************************************************)
(* Hab.make: keys, the move of the keeper's records to the final prefix,   *)
(* the habitat record and the name, then local acceptance.  The event may  *)
(* be malformed, and nothing of it recorded, or be refused by the Kevery,  *)
(* which takes the identifier out of memory and leaves its records.        *)
(***************************************************************************)
Fate == {"accepted", "malformed", "refused"}

Record(n, name, p, next, fate) ==
    /\ habs' = IF n >= 8 /\ fate # "malformed" THEN habs \cup {p} ELSE habs
    /\ names' = IF n >= 9 /\ fate # "malformed" THEN [names EXCEPT ![name] = p] ELSE names
    /\ log' = IF n >= 10 /\ fate = "accepted"
              THEN [log EXCEPT ![p] = [cur |-> p, next |-> next]] ELSE log

Make(n, name, fate) ==
    \E p \in {NewLot(name, 0)}, next \in {NewLot(name, 1)} :
        /\ open /\ p \notin pres /\ MadeAfter(name) <= MaxMade
        /\ Incept(n, p, next)
        /\ Record(n, name, p, next, fate)
        /\ made' = MadeAfter(name)
        /\ UNCHANGED waiting

\* Mistake: an identifier refused locally stays the node's own.
OwnAfterAll(p, fate) == IF fate # "malformed" THEN prefixes \cup {p} ELSE prefixes

OwnAfter(p, fate) == IF fate = "accepted" THEN prefixes \cup {p} ELSE prefixes

MakeHab(name, fate) ==
    /\ Make(MakeWrites, name, fate)
    /\ prefixes' = OwnAfter(NewLot(name, 0), fate)
    /\ UNCHANGED <<groups, open, crashes>>

------------------------------------------------------------------------------
(* Rotating an identifier *)

(***************************************************************************)
(* Manager.replay steps to the lot promised next if a later one is kept    *)
(* already, made for a rotation that was not accepted; otherwise           *)
(* Manager.rotate makes one.                                               *)
(***************************************************************************)
Kept(p) == LET k == sits[p].nxt.ridx + 1 IN
    IF k <= MaxRidx THEN pubs[p][k] ELSE None

Later(p) == IF Kept(p) # None THEN Kept(p) ELSE NewLot(p.name, sits[p].nxt.ridx + 1)

Advanced(p) == [old |-> sits[p].new, new |-> sits[p].nxt, nxt |-> Later(p)]

CanRotate(p) ==
    /\ open /\ Accepted(p) /\ p \in habs
    /\ sits[p].nxt # None /\ sits[p].nxt.ridx < MaxRidx
    /\ Kept(p) # None \/ MadeAfter(p.name) <= MaxMade
    /\ sits[p].nxt \in pris

(* Accepted if sound and signed with the keys the log was promised.        *)
RotationAccepted(p, sound) == sound /\ sits[p].nxt = log[p].next

RotateWrites == 5

\* Mistake: the keys made for a rotation that was not accepted are erased.
ErasedOnFailure(p, sound) ==
    IF RotationAccepted(p, sound) THEN {sits[p].old} ELSE {Later(p)}

Erased(p, sound) == IF RotationAccepted(p, sound) THEN {sits[p].old} ELSE {}

\* Mistake: the keeper is left where the rotation took it.
SitAfterAnyway(p, sound) == Advanced(p)

SitAfter(p, sound) == IF RotationAccepted(p, sound) THEN Advanced(p) ELSE sits[p]

(***************************************************************************)
(* The first n writes of Hab.rotate: the lots, the private and the public  *)
(* keys of the later lot, the log; then the old private keys are erased,   *)
(* or the lots are put back if the event was not accepted.                 *)
(***************************************************************************)
Rotate(n, p, sound) ==
    /\ CanRotate(p)
    /\ sits' = [sits EXCEPT ![p] =
                   IF n < 1 THEN @ ELSE IF n < 5 THEN Advanced(p) ELSE SitAfter(p, sound)]
    /\ pris' = (IF n >= 2 /\ Kept(p) = None THEN pris \cup {Later(p)} ELSE pris)
                 \ (IF n >= 5 THEN Erased(p, sound) ELSE {})
    /\ pubs' = IF n >= 3 THEN [pubs EXCEPT ![p] = [@ EXCEPT ![Later(p).ridx] = Later(p)]] ELSE pubs
    /\ log' = IF n >= 4 /\ RotationAccepted(p, sound)
              THEN [log EXCEPT ![p] = [cur |-> sits[p].nxt, next |-> Later(p)]] ELSE log
    /\ made' = IF Kept(p) = None THEN MadeAfter(p.name) ELSE made
    /\ UNCHANGED <<pres, habs, names, waiting>>

RotateHab(p, sound) ==
    /\ Rotate(RotateWrites, p, sound)
    /\ UNCHANGED <<prefixes, groups, open, crashes>>

------------------------------------------------------------------------------
(* Groups *)

(***************************************************************************)
(* makeGroupHab, rotateGroupHab: members' keys, no lots of its own.  Only  *)
(* a refused inception takes the record away again; one that waits for     *)
(* other members, or for a delegator, is accepted by a later sweep.        *)
(***************************************************************************)
GroupLog(g) == [cur |-> g, next |-> g]

MakeGroupHab(g, fate) ==
    /\ open /\ g \notin habs /\ ~Accepted(g)
    /\ habs' = IF fate = "refused" THEN habs ELSE habs \cup {g}
    /\ log' = IF fate = "accepted" THEN [log EXCEPT ![g] = GroupLog(g)] ELSE log
    /\ waiting' = IF fate = "waits" THEN waiting \cup {g} ELSE waiting
    /\ prefixes' = IF fate = "accepted" THEN prefixes \cup {g} ELSE prefixes
    /\ groups' = IF fate = "accepted" THEN groups \cup {g} ELSE groups
    /\ UNCHANGED <<keeper, names, made, open, crashes>>

(* A group whose inception somebody else proposed, accepted or not.        *)
JoinGroupHab(g) ==
    /\ open /\ g \notin habs
    /\ habs' = habs \cup {g}
    /\ groups' = groups \cup {g}
    /\ prefixes' = IF Accepted(g) THEN prefixes \cup {g} ELSE prefixes
    /\ UNCHANGED <<keeper, names, log, waiting, made, open, crashes>>

(* The other member proposes an event the node has no record of yet.       *)
GroupEventArrives(g) ==
    /\ open /\ ~Accepted(g) /\ g \notin waiting
    /\ waiting' = waiting \cup {g}
    /\ UNCHANGED <<keeper, habs, names, log, prefixes, groups, made, open, crashes>>

(* emitAcceptanceCues: an accepted group with a record becomes its own.    *)
Cues(g) ==
    /\ prefixes' = IF g \in habs THEN prefixes \cup {g} ELSE prefixes
    /\ groups' = IF g \in habs THEN groups \cup {g} ELSE groups

AcceptWaiting(g) ==
    /\ open /\ g \in waiting
    /\ waiting' = waiting \ {g}
    /\ log' = [log EXCEPT ![g] = GroupLog(g)]
    /\ Cues(g)
    /\ UNCHANGED <<keeper, habs, names, made, open, crashes>>

------------------------------------------------------------------------------
(* Stopping and opening again *)

Stop ==
    /\ open /\ crashes < MaxCrashes
    /\ crashes' = crashes + 1
    /\ open' = FALSE /\ prefixes' = {} /\ groups' = {}

CrashInMake(n, name, fate) == Stop /\ Make(n, name, fate)
CrashInRotate(n, p, sound) == Stop /\ Rotate(n, p, sound)

(***************************************************************************)
(* reloadKevers, loadHabs: the own identifiers are those with a record and *)
(* an accepted state; the record of any other than a group is removed.     *)
(***************************************************************************)
Reopen ==
    /\ ~open /\ open' = TRUE
    /\ habs' = {h \in habs : Accepted(h) \/ h \in Group}
    /\ prefixes' = {h \in habs : Accepted(h)}
    /\ groups' = {h \in habs \cap Group : Accepted(h)}
    /\ UNCHANGED <<keeper, names, log, waiting, made, crashes>>

Init ==
    /\ pres = {} /\ pris = {} /\ habs = {} /\ waiting = {} /\ prefixes = {} /\ groups = {}
    /\ sits = [p \in Pre |-> NoSit]
    /\ pubs = [p \in Pre |-> [k \in 0..MaxRidx |-> None]]
    /\ names = [x \in Name |-> None]
    /\ log = [p \in Pre \cup Group |-> NoLog]
    /\ made = 0 /\ open = TRUE /\ crashes = 0

Next ==
    \/ \E x \in Name, fate \in Fate : MakeHab(x, fate)
    \/ \E p \in pres, sound \in BOOLEAN : RotateHab(p, sound)
    \/ \E g \in Group, fate \in {"accepted", "waits", "refused"} : MakeGroupHab(g, fate)
    \/ \E g \in Group : JoinGroupHab(g) \/ GroupEventArrives(g) \/ AcceptWaiting(g)
    \/ \E n \in 0..(MakeWrites - 1), x \in Name, fate \in Fate : CrashInMake(n, x, fate)
    \/ \E n \in 0..(RotateWrites - 1), p \in pres, sound \in BOOLEAN : CrashInRotate(n, p, sound)
    \/ Reopen

Spec == Init /\ [][Next]_vars

------------------------------------------------------------------------------
(* What must hold *)

(***************************************************************************)
(* Manager.rotate, Hab.rotate: the private keys an accepted log is signed  *)
(* with, and those it promised, are never lost, wherever the node stops    *)
(* and whatever rotations were not accepted.                               *)
(***************************************************************************)
KeysKept ==
    \A p \in Pre : Accepted(p) => {log[p].cur, log[p].next} \subseteq pris

(***************************************************************************)
(* Hab.rotate: a rotation not accepted puts the keeper back where it was,  *)
(* so that the keeper and the log agree on the lots in use and next, and   *)
(* only the lot before those in use is still stored of the earlier ones.   *)
(***************************************************************************)
FollowsLog(p) == sits[p].new = log[p].cur /\ sits[p].nxt = log[p].next

KeeperFollowsLog ==
    crashes = 0 => \A p \in Pre : Accepted(p) =>
        /\ FollowsLog(p)
        /\ \A k \in 0..MaxRidx : k + 1 < log[p].cur.ridx => pubs[p][k] \notin pris

(***************************************************************************)
(* Hab.make, makeGroupHab, joinGroupHab, emitAcceptanceCues, reloadKevers: *)
(* the node owns, in memory, exactly the accepted identifiers it has a     *)
(* record of, whichever way they were accepted and recorded.               *)
(***************************************************************************)
OwnsItsHabitats ==
    open => /\ prefixes = {h \in habs : Accepted(h)}
            /\ habs \cap Group \cap prefixes \subseteq groups
==============================================================================
