-------------------------------- MODULE Revery --------------------------------
(***************************************************************************)
(* Replies: signed statements an identifier makes outside its log, such as *)
(* where an endpoint is, who may serve in which role, or the key state a   *)
(* node has of somebody.  Replies about one thing compete for one slot;    *)
(* Best Available Data Acceptance (BADA) keeps the one signed under the    *)
(* later establishment event, or the later dated one under the same event. *)
(* A reply not signed enough yet waits in an escrow the reactor sweeps.    *)
(*                                                                         *)
(* The key event log of the signers grows beside it, along the given       *)
(* order of acceptance; the Kevery module says how it does.                *)
(***************************************************************************)
EXTENDS Integers, Sequences, FiniteSets, Functions, SequencesExt

CONSTANTS
    Pre,         \* transferable prefixes that sign replies
    Key,         \* what their signatures verify by
    Event, Ev,   \* their key events: [pre, sn, est, keys, kt]
    Accepting,   \* for each prefix, its events in the order they are accepted
    Reply, Rep,  \* replies: [route, slot, aid, dt, says]
    Slot,        \* what a reply may be about
    Source,      \* what may be trusted to notice a key state: [aid, pre]
    Lax,         \* TRUE: a key state notice may come from anybody
    Messages,    \* reply messages the network may carry: [rp, cigars, tsgs]
    Held,        \* events whose body is stored before they are accepted
    Late,        \* replies dated more than an hour ago
    None,        \* no reply, no event, nothing said
    MaxCrashes   \* bound: how many times the node may stop

Siger == [index : Nat, key : Key]
Seal == [pre : Pre, sn : Nat, d : Event]
Groups(m) == Range(m.tsgs)

ASSUME ReplyAssumption ==
    /\ \A e \in Event : /\ Ev[e].pre \in Pre /\ Ev[e].sn \in Nat
                        /\ Ev[e].keys \in Seq(Key) /\ Ev[e].kt \in Nat
    /\ \A p \in Pre : Accepting[p] \in Seq({e \in Event : Ev[e].pre = p})
    /\ \A r \in Reply : /\ Rep[r].slot \in Slot /\ Rep[r].dt \in Nat
                        /\ Rep[r].route = "ksn" => Rep[r].says \in Seal
    /\ \A r, o \in Reply : Rep[r].slot = Rep[o].slot =>
                              (Rep[r].route = "ksn" <=> Rep[o].route = "ksn")
    /\ \A m \in Messages : /\ m.rp \in Reply
                           /\ m.tsgs \in Seq([seal : Seal, sigers : SUBSET Siger])
                           /\ IsInjective([i \in DOMAIN m.tsgs |-> m.tsgs[i].seal])
    /\ Late \subseteq Reply
    /\ Reply \cap Event = {} /\ None \notin Reply \cup Event /\ MaxCrashes \in Nat

VARIABLES
    known,    \* how many events of each prefix were accepted
    sdts,     \* replies whose datetime is stored
    rpys,     \* replies whose body is stored
    scgs,     \* replies stored with the signature of a non-transferable prefix
    ssgs,     \* for each reply, signatures under the seal of their group
    rpes,     \* replies in escrow
    latest,   \* for each slot, what was accepted last (eans, lans, wwas, knas)
    shown,    \* for each slot, what that says (ends, locs, obvs, ksns)
    sent,     \* the messages the senders send, again and again
    net,      \* those of them in flight
    crashes   \* times the node stopped

vars == <<known, sdts, rpys, scgs, ssgs, rpes, latest, shown, sent, net, crashes>>
stores == <<sdts, rpys, scgs, ssgs, rpes, latest, shown>>

------------------------------------------------------------------------------
(* What the key event logs say *)

Accepted(p) == {Accepting[p][i] : i \in 1..known[p]}
Latest(p) == IF known[p] = 0 THEN None ELSE Accepting[p][known[p]]

(* The last event accepted at a number: a recovery replaces an interaction. *)
LastAt(p, sn) ==
    LET At == {i \in 1..known[p] : Ev[Accepting[p][i]].sn = sn} IN
    IF At = {} THEN None
    ELSE Accepting[p][CHOOSE i \in At : \A j \in At : j <= i]

AcceptEvent(p) ==
    /\ known[p] < Len(Accepting[p])
    /\ known' = [known EXCEPT ![p] = @ + 1]
    /\ UNCHANGED <<stores, sent, net, crashes>>

------------------------------------------------------------------------------
(* Accepting a reply *)

(***************************************************************************)
(* The reply this one competes with.  The notice of a key state is kept    *)
(* under the event it names and not under its own SAID, so the slot of a   *)
(* notice never leads to a stored reply.                                   *)
(***************************************************************************)
Mark(r) == IF Rep[r].route = "ksn" THEN Rep[r].says.d ELSE r
Rival(r) ==
    LET o == latest[Rep[r].slot] IN IF o \in Reply /\ o # r THEN o ELSE None

\* Mistake: a reply of the same date is taken as a newer one.
SameOrNewer(r, o) == o \notin sdts \/ Rep[r].dt >= Rep[o].dt

(* sameOrNewerReply, which is strict: of two of one date the first stays.  *)
Newer(r, o) == o \notin sdts \/ Rep[r].dt > Rep[o].dt

(***************************************************************************)
(* Stored groups whose event is stored too, those of later events first.   *)
(* A group is read back under the number its event has, whatever number    *)
(* the message gave; groups of the same number come in either order.       *)
(***************************************************************************)
StoredSeals(r) ==
    {s \in {x.seal : x \in ssgs[r]} : Ev[s.d].pre = s.pre /\ s.d \in Accepted(s.pre) \cup Held}
StoredGroup(r, seal) == {x.siger : x \in {y \in ssgs[r] : y.seal = seal}}
StoredOrders(r) ==
    {f \in [1..Cardinality(StoredSeals(r)) -> StoredSeals(r)] :
        IsInjective(f) /\ \A i, j \in DOMAIN f : i < j => Ev[f[i].d].sn >= Ev[f[j].d].sn}
ReadBack(r, seal) ==
    [seal |-> [seal EXCEPT !.sn = Ev[seal.d].sn], sigers |-> StoredGroup(r, seal)]
StoredTsgs(r) == {[i \in DOMAIN order |-> ReadBack(r, order[i])] : order \in StoredOrders(r)}

(* A group too old to replace the accepted reply: its lead is the first.   *)
Outdated(r, g) ==
    LET o == Rival(r)
        lead == {Ev[s.d].sn : s \in StoredSeals(o)}
        top == CHOOSE n \in lead : \A k \in lead : k <= n
    IN
    /\ o # None /\ lead # {}
    /\ g.seal.sn < top \/ (g.seal.sn = top /\ ~Newer(r, o))

(* Signatures by the keys of an event, of a group and of what was stored   *)
(* under its seal before.                                                  *)
VerifiedBy(e, sigers) ==
    {s \in sigers : s.index \in DOMAIN Ev[e].keys /\ Ev[e].keys[s.index] = s.key}

\* Mistake: what was stored before is taken as verified.
VerifiedOrStored(r, g) == VerifiedBy(g.seal.d, g.sigers) \cup StoredGroup(r, g.seal)

Verified(r, g) == VerifiedBy(g.seal.d, g.sigers \cup StoredGroup(r, g.seal))

(* A threshold of zero is never satisfied.                                 *)
Satisfied(e, verified) == Ev[e].kt > 0 /\ Cardinality(verified) >= Ev[e].kt

(* The seal must be the last event at its number.                          *)
\* Mistake: it is enough that the body of the event is stored.
ResolvedByBody(g) == g.seal.d \in Accepted(g.seal.pre) \cup Held

Resolved(g) == LastAt(g.seal.pre, g.seal.sn) = g.seal.d

GroupVerdict(r, g) ==
    IF g.seal.pre # Rep[r].aid \/ Outdated(r, g) THEN "skip"
    ELSE IF ~Resolved(g) THEN "unresolved"
    ELSE IF ~Ev[g.seal.d].est THEN "throw"
    ELSE IF Satisfied(g.seal.d, Verified(r, g)) THEN "accept"
    ELSE "partial"

(* An unresolved group is kept as it came, a partial one as far as it verifies. *)
Kept(r, g) == IF Resolved(g) THEN Verified(r, g) ELSE g.sigers

ByCigar(r, cigars) ==
    \E c \in cigars : c.verfer = Rep[r].aid /\ c.key = c.verfer
                      /\ (Rival(r) = None \/ Newer(r, Rival(r)))

(***************************************************************************)
(* A notice must come from who may notice that key state and be no older   *)
(* than the key state held; the event it names is only looked up after the *)
(* notice was stored as accepted.                                          *)
(***************************************************************************)
Trusted(r) ==
    LET p == Rep[r].says.pre IN
    Lax \/ Rep[r].aid = p \/ [aid |-> Rep[r].aid, pre |-> p] \in Source

Refused(r) ==
    /\ Rep[r].route = "ksn"
    /\ LET p == Rep[r].says.pre IN
       \/ ~Trusted(r)
       \/ Latest(p) # None /\ Rep[r].says.sn < Ev[Latest(p)].sn

Mismatched(r) ==
    /\ Rep[r].route = "ksn"
    /\ LastAt(Rep[r].says.pre, Rep[r].says.sn) \notin {None, Rep[r].says.d}

(* A group is pinned: it takes the place of what was stored under its seal. *)
PinGroups(r, tsgs, I) ==
    {x \in ssgs[r] : \A i \in I : x.seal # tsgs[i].seal}
      \cup UNION {{[seal |-> tsgs[i].seal, siger |-> s] : s \in Kept(r, tsgs[i])} : i \in I}

(***************************************************************************)
(* How a message about a reply is decided: refused, unverified, accepted,  *)
(* or a throw; which of its groups wait and which are stored.  The groups  *)
(* are read in order up to one that accepts the reply or throws.           *)
(***************************************************************************)
Verdicts(r, tsgs) == [i \in DOMAIN tsgs |-> GroupVerdict(r, tsgs[i])]

Decide(r, cigars, tsgs, verdict) ==
    LET last == {i \in DOMAIN tsgs : verdict[i] \in {"accept", "throw"}}
        read == {i \in DOMAIN tsgs : \A j \in last : i <= j}
        deciding == {verdict[i] : i \in read} \cap {"accept", "throw"}
        wait == {i \in read : verdict[i] \in {"unresolved", "partial"}
                              /\ Kept(r, tsgs[i]) # {}}
        Decision(kind, waits, used) ==
            [kind |-> kind, waits |-> waits, stores |-> used # {},
             groups |-> PinGroups(r, tsgs, used)]
    IN
    IF Refused(r) THEN Decision("throw", FALSE, {})
    ELSE IF ByCigar(r, cigars) THEN [Decision("cigar", FALSE, {}) EXCEPT !.stores = TRUE]
    ELSE IF deciding = {} THEN Decision("unverified", wait # {}, wait)
    ELSE IF deciding = {"throw"} THEN Decision("throw", wait # {}, wait)
    ELSE Decision("group", wait # {}, wait \cup {i \in read : verdict[i] = "accept"})

Wins(d) == d.kind \in {"cigar", "group"}

AllWrites == 10

(***************************************************************************)
(* The first n writes of processing a reply: its date, its body, its       *)
(* signatures and escrow row; when it is accepted, the removal of the one  *)
(* it replaces, then the slot and what it shows.  Groups of one message    *)
(* are written together.                                                   *)
(***************************************************************************)
Process(n, r, d, rows) ==
    LET o == Rival(r)
        ksn == Rep[r].route = "ksn"
        done == Wins(d) /\ ~Mismatched(r)
        Added(k, S) == IF n >= k /\ d.stores THEN S \cup {r} ELSE S
        Without(k, S) == IF n >= k /\ Wins(d) THEN S \ {o} ELSE S
        Signed == [ssgs EXCEPT ![r] = IF n >= 3 THEN d.groups ELSE @]
    IN
    /\ sdts' = Without(8, Added(1, sdts))
    /\ rpys' = Without(7, Added(2, rpys))
    /\ scgs' = Without(6, IF d.kind = "cigar" THEN Added(3, scgs) ELSE scgs)
    /\ ssgs' = IF n >= 5 /\ Wins(d) /\ o # None THEN [Signed EXCEPT ![o] = {}] ELSE Signed
    /\ rpes' = IF n >= 4 /\ d.waits THEN rows \cup {r} ELSE rows
    /\ latest' = IF done /\ n >= (IF ksn THEN 10 ELSE 9)
                 THEN [latest EXCEPT ![Rep[r].slot] = Mark(r)] ELSE latest
    /\ shown' = IF done /\ n >= (IF ksn THEN 9 ELSE 10)
                THEN [shown EXCEPT ![Rep[r].slot] = Rep[r].says] ELSE shown

------------------------------------------------------------------------------
(* Replies arriving and waiting *)

Deliver(m) ==
    /\ m \in net
    /\ net' = net \ {m}
    /\ \E v \in {Verdicts(m.rp, m.tsgs)} : \E d \in {Decide(m.rp, m.cigars, m.tsgs, v)} :
          Process(AllWrites, m.rp, d, rpes)
    /\ UNCHANGED <<known, sent, crashes>>

(* What was sent once is sent again.                                       *)
Resend ==
    /\ net = {} /\ net' = sent
    /\ UNCHANGED <<known, stores, sent, crashes>>

(* Dropping a row also removes everything stored about the reply.          *)
DropRow(r) ==
    /\ rpes' = rpes \ {r}
    /\ sdts' = sdts \ {r} /\ rpys' = rpys \ {r} /\ scgs' = scgs \ {r}
    /\ ssgs' = [ssgs EXCEPT ![r] = {}]
    /\ UNCHANGED <<latest, shown>>

(***************************************************************************)
(* Sweep one row.  A row with none of its groups left, or dated more than  *)
(* an hour ago, is dropped, and so is one that throws: whatever throws has *)
(* been stored as accepted before, and is removed again.                   *)
(***************************************************************************)
Lost(r) == r \notin sdts \/ r \notin rpys \/ StoredSeals(r) = {} \/ r \in Late

Throws(r, d) == d.kind = "throw" \/ (Wins(d) /\ Mismatched(r))

Sweep(r) ==
    /\ r \in rpes
    /\ \/ Lost(r) /\ DropRow(r)
       \/ /\ ~Lost(r)
          /\ \E tsgs \in StoredTsgs(r) : \E v \in {Verdicts(r, tsgs)} :
             \E d \in {Decide(r, {}, tsgs, v)} :
                \/ Throws(r, d) /\ DropRow(r)
                \/ /\ ~Throws(r, d)
                   /\ Process(AllWrites, r, [d EXCEPT !.waits = d.waits /\ ~Wins(d)],
                              IF Wins(d) THEN rpes \ {r} ELSE rpes)
    /\ UNCHANGED <<known, sent, net, crashes>>

------------------------------------------------------------------------------
(* The node stops inside a delivery, after n of its writes. *)

Crash(m, n) ==
    /\ crashes < MaxCrashes
    /\ crashes' = crashes + 1
    /\ m \in net
    /\ net' = net \ {m}
    /\ \E v \in {Verdicts(m.rp, m.tsgs)} : \E d \in {Decide(m.rp, m.cigars, m.tsgs, v)} :
          /\ Wins(d) \/ (d.waits /\ n < 4)
          /\ Process(n, m.rp, d, rpes)
    /\ UNCHANGED <<known, sent>>

InitStores ==
    /\ known = [p \in Pre |-> 0]
    /\ sdts = {} /\ rpys = {} /\ scgs = {} /\ rpes = {}
    /\ ssgs = [r \in Reply |-> {}]
    /\ latest = [s \in Slot |-> None] /\ shown = [s \in Slot |-> None]

Init == InitStores /\ sent = Messages /\ net = sent /\ crashes = 0

Next ==
    \/ \E p \in Pre : AcceptEvent(p)
    \/ \E m \in net : Deliver(m)
    \/ Resend
    \/ \E r \in rpes : Sweep(r)
    \/ \E m \in net, n \in 0..(AllWrites - 1) : Crash(m, n)

(***************************************************************************)
(* What is in flight arrives and is sent again; the logs are accepted; the *)
(* reactor sweeps the escrow in every turn.                                *)
(***************************************************************************)
Fairness ==
    /\ WF_net(\E m \in net : net' = net \ {m})
    /\ WF_vars(Resend)
    /\ WF_vars(\E p \in Pre : AcceptEvent(p))
    /\ WF_vars(\E r \in rpes : Sweep(r))

Spec == Init /\ [][Next]_vars /\ Fairness

------------------------------------------------------------------------------
(* What must hold *)

(* Enough signatures by the keys of an establishment event.                *)
Enough(e, sigers) == Ev[e].est /\ Satisfied(e, VerifiedBy(e, sigers))

OnRecord(r) ==
    /\ r \in rpys
    /\ \/ r \in scgs
       \/ \E x \in ssgs[r] : /\ x.seal.pre = Rep[r].aid /\ x.seal.d \in Accepted(x.seal.pre)
                             /\ x.seal.sn = Ev[x.seal.d].sn
                             /\ Enough(x.seal.d, StoredGroup(r, x.seal))

(***************************************************************************)
(* acceptReply, updateReply, removeReply: what a slot shows rests on a     *)
(* stored reply its identifier authorized; after a stop in the middle of   *)
(* replacing it, the reply that was to replace it is on record instead.    *)
(***************************************************************************)
ShownOnRecord ==
    \A s \in Slot : latest[s] \in Reply =>
        \E r \in Reply : /\ Rep[r].slot = s /\ OnRecord(r)
                         /\ (r = latest[s] \/ crashes > 0)

(***************************************************************************)
(* The events of its identifier a reply was signed under, counting all the *)
(* signatures the messages carry; or the signature of a non-transferable   *)
(* identifier.                                                             *)
(***************************************************************************)
OwnGroups(r) ==
    {g \in UNION {Groups(m) : m \in {x \in Messages : x.rp = r}} : g.seal.pre = Rep[r].aid}
Signers(r, e) == UNION {g.sigers : g \in {h \in OwnGroups(r) : h.seal.d = e}}
Authorities ==
    [r \in Reply |-> {e \in {g.seal.d : g \in OwnGroups(r)} : Enough(e, Signers(r, e))}]
CigarSent(r) ==
    \E m \in Messages : m.rp = r /\ \E c \in m.cigars : c.verfer = Rep[r].aid /\ c.key = c.verfer

(***************************************************************************)
(* Replies none of which expires; logs no establishment event of which is  *)
(* superseded, as of an identifier that is not delegated; signers that     *)
(* sign under establishment events, and either with the keys of a log or,  *)
(* if they are not transferable, with their own.                           *)
(***************************************************************************)
EstStays ==
    \A p \in Pre : \A i, j \in DOMAIN Accepting[p] :
        i < j /\ Ev[Accepting[p][i]].est => Ev[Accepting[p][i]].sn # Ev[Accepting[p][j]].sn
SignedByEst ==
    \A r \in Reply : Rep[r].route # "ksn" => \A g \in OwnGroups(r) : Ev[g.seal.d].est
SignedOneWay == \A r \in Reply : CigarSent(r) => OwnGroups(r) = {}
Orderly == Late = {} /\ EstStays /\ SignedByEst /\ SignedOneWay

(***************************************************************************)
(* acceptReply, processReplyKeyStateNotice, updateEnd, updateLoc: a slot   *)
(* holds what its identifier said: in a notice, one trusted to give it,    *)
(* and under enough of the signatures that were sent, by the keys of an    *)
(* establishment event that is in its log.  A stop may leave a slot and    *)
(* what it shows to two replies, of which each was authorized.             *)
(***************************************************************************)
Backed(s) ==
    {r \in Reply : /\ Rep[r].slot = s
                   /\ Rep[r].route = "ksn" => Trusted(r)
                   /\ CigarSent(r) \/ \E e \in Authorities[r] : e \in Accepted(Rep[r].aid)}
ShownAuthorized ==
    \A s \in Slot :
        /\ latest[s] # None => \E r \in Backed(s) : Mark(r) = latest[s]
        /\ shown[s] # None => \E r \in Backed(s) : Rep[r].says = shown[s]
        /\ (crashes = 0 /\ latest[s] # None) =>
                \E r \in Backed(s) : Mark(r) = latest[s] /\ Rep[r].says = shown[s]

(***************************************************************************)
(* BADA over all the messages of a run, whatever their order: a reply      *)
(* ranks by the latest event it is authorized under, then by its date.     *)
(***************************************************************************)
Authorized(r) == CigarSent(r) \/ Authorities[r] # {}
Outranks(r, o) ==
    \/ \E e \in Authorities[r] : \A f \in Authorities[o] : Ev[e].sn > Ev[f].sn
    \/ /\ Rep[r].dt > Rep[o].dt
       /\ \A f \in Authorities[o] : \E e \in Authorities[r] : Ev[e].sn >= Ev[f].sn

(* A notice counts if its source is trusted and it names the last event.   *)
Current(r) ==
    Rep[r].route = "ksn" =>
        LET order == Accepting[Rep[r].says.pre] IN
        Trusted(r) /\ Rep[r].says.d = order[Len(order)]

(***************************************************************************)
(* acceptReply, processEscrowReply, processReplyKeyStateNotice: in the end *)
(* every slot shows a best reply, whatever the order the replies and the   *)
(* events of their signers came in and wherever the node stopped, as long  *)
(* as replies are resent, and stays with that one of them it took first; a *)
(* slot no reply is good for shows nothing.                                *)
(***************************************************************************)
BestIn(s) ==
    LET In == {r \in Reply : Rep[r].slot = s /\ Authorized(r) /\ Current(r)} IN
    IF In = {} THEN latest[s] = None
    ELSE \E r \in In : /\ \A o \in In : ~Outranks(o, r)
                       /\ latest[s] = Mark(r) /\ shown[s] = Rep[r].says
BestShown == \A s \in {Rep[m.rp].slot : m \in sent} : BestIn(s)
BestPrevails == <>[]BestShown /\ <>[][latest' = latest]_vars
==============================================================================
