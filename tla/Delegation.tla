----------------------------- MODULE Delegation -----------------------------
(***************************************************************************)
(* How a node that validates key event logs treats delegated identifiers:  *)
(* their inceptions and rotations count only once an accepted event of the *)
(* delegator carries a seal of them, and of two rotations with one number  *)
(* the one approved later wins.  A delegate's event can come before its    *)
(* approval, with or without the source seal that points at it, and waits  *)
(* in an escrow; the source seals of accepted events are kept, dropped and *)
(* repaired as the delegator's log moves, under recoveries too.            *)
(*                                                                         *)
(* Every event here has the signatures and receipts it needs: Kever and    *)
(* Kevery are about those.  A source seal is written as the event it names.*)
(***************************************************************************)
EXTENDS Integers, Sequences, FiniteSets, SequencesExt

CONSTANTS
    Event,      \* the events of all logs
    Pre,        \* the identifiers
    None,       \* no event, no delegator
    MaxSn,      \* bound: the greatest sequence number of an event
    Ev,         \* each event's pre, ilk, sn, prior and the events it seals, in order
    Delegator,  \* the delegator each identifier's inception names, or None
    Dnd         \* identifiers whose inception forbids delegating

ASSUME DelegationAssumption ==
    /\ None \notin Event \cup Pre /\ Dnd \subseteq Pre /\ MaxSn \in Nat
    /\ Ev \in [Event -> [pre : Pre, ilk : {"icp", "dip", "rot", "drt", "ixn"},
                         sn : 0..MaxSn, prior : Event \cup {None}, seals : Seq(Event)]]
    /\ Delegator \in [Pre -> Pre \cup {None}] /\ IsFiniteSet(Pre)

(* An identifier's inception is delegated exactly when it names a          *)
(* delegator: a dip's prefix is the digest of its body, which names one.   *)
ASSUME InceptionAssumption ==
    \A e \in Event : Ev[e].ilk \in {"icp", "dip"} =>
        (Ev[e].ilk = "dip" <=> Delegator[Ev[e].pre] # None)

VARIABLES
    evts,       \* events whose body is stored
    kels,       \* of each identifier and number, the events accepted there, in order
    fels,       \* of each identifier, its accepted events in the order first seen
    state,      \* the last event of each identifier and its last establishment
    aess,       \* the source seal kept of each accepted event, a hint only
    udes,       \* the source seal that came with an event in escrow
    esrs,       \* events that came from this node itself
    escrow,     \* escrow rows: which escrow, which event
    own,        \* identifiers this node has habitats of
    net,        \* events on their way, with or without a source seal
    turn, due   \* the escrow a sweep is at, and its rows still to try

log == <<evts, kels, fels, state, aess, udes, esrs>>
vars == <<log, escrow, own, net, turn, due>>

NoState == [said |-> None, est |-> None]
Seal == Event \cup {None}
EscrowKind == {"ooo", "pdes", "delegables", "misfit", "ldes"}

LastAt(p, n) == IF kels[p][n] = <<>> THEN None ELSE Last(kels[p][n])
Accepted(e) == e \in ToSet(fels[Ev[e].pre])
Establishes(e) == Ev[e].ilk \in {"icp", "dip", "rot", "drt"}
Delegated(p) == Delegator[p] # None

------------------------------------------------------------------------------
(* Which event of the delegator approves an event *)

Anchors(b, e) == e \in ToSet(Ev[b].seals)
SealIndex(b, e) ==
    CHOOSE i \in DOMAIN Ev[b].seals :
        Ev[b].seals[i] = e /\ \A j \in DOMAIN Ev[b].seals : Ev[b].seals[j] = e => i <= j

(* A source seal names an accepted event of the delegator that anchors e.  *)
AcceptedBoss(dp, seal, e) ==
    IF seal # None /\ Ev[seal].pre = dp /\ Accepted(seal) /\ Anchors(seal, e)
    THEN seal ELSE None

(* A source seal is a hint at a number: the last event there decides.      *)
\* Mistake: the event the seal names is believed as it came.
BossNamed(dp, seal, e) == seal

LastBoss(dp, seal, e) ==
    LET b == IF seal = None THEN None ELSE LastAt(dp, Ev[seal].sn)
    IN IF b # None /\ Anchors(b, e) THEN b ELSE None

Branch(dp, e) == {n \in 0..MaxSn : LastAt(dp, n) # None /\ Anchors(LastAt(dp, n), e)}

(* The search for the approval of a new event: the last of the log's       *)
(* events, one per number, that anchors it.                                *)
SearchBranch(dp, e) ==
    IF Branch(dp, e) = {} THEN None ELSE LastAt(dp, Max(Branch(dp, e)))

(* The search for the approval of an event that was accepted: the latest   *)
(* first seen of all the accepted events that anchor it.                   *)
SearchAll(dp, e) ==
    LET fns == {i \in DOMAIN fels[dp] : Anchors(fels[dp][i], e)}
    IN IF fns = {} THEN None ELSE fels[dp][Max(fns)]

(* fetchLastSealingEventByEventSeal: the first along the log.              *)
FirstAlong(dp, e) ==
    IF dp = None \/ Branch(dp, e) = {} THEN None ELSE LastAt(dp, Min(Branch(dp, e)))

Found(b, hints) == [boss |-> b, aess |-> hints]
Repaired(e, b, hints) == IF Accepted(e) THEN [hints EXCEPT ![e] = b] ELSE hints

(***************************************************************************)
(* The event that approves a new event e: by the seal attached, by the one *)
(* kept, or, where the call is eager, by a search.  The kept seals may be  *)
(* repaired on the way.                                                    *)
(***************************************************************************)
BossOfNew(dp, e, seal, eager, hints) ==
    LET hinted == LastBoss(dp, seal, e)
        kept == LastBoss(dp, hints[e], e)
        found == IF eager THEN SearchBranch(dp, e) ELSE None
    IN IF hinted # None THEN Found(hinted, hints)
       ELSE IF kept # None THEN Found(kept, Repaired(e, kept, hints))
       ELSE IF found # None THEN Found(found, Repaired(e, found, hints))
       ELSE Found(None, hints)

(* The event that approved e when it was accepted; a kept seal that no     *)
(* longer says so is dropped.                                              *)
BossOfOld(dp, e, eager, hints) ==
    LET kept == AcceptedBoss(dp, hints[e], e)
        found == IF eager THEN SearchAll(dp, e) ELSE None
        dropped == [hints EXCEPT ![e] = None]
    IN IF kept # None THEN Found(kept, hints)
       ELSE IF found # None THEN Found(found, Repaired(e, found, dropped))
       ELSE Found(None, dropped)

------------------------------------------------------------------------------
(* Two rotations with one number: which approval counts *)

Rotates(e) == Ev[e].ilk \in {"rot", "drt"}

(* The approval cb of c outranks the approval ob of o: it is later in the  *)
(* log, a rotation in the place of an interaction, or a later seal.        *)
\* Mistake: an approval with the same number outranks as well.
OutranksAny(c, cb, o, ob) == Ev[cb].sn >= Ev[ob].sn

Outranks(c, cb, o, ob) ==
    \/ Ev[cb].sn > Ev[ob].sn
    \/ Ev[cb].sn = Ev[ob].sn /\ Rotates(cb) /\ Ev[ob].ilk = "ixn"
    \/ cb = ob /\ SealIndex(cb, c) > SealIndex(ob, o)

Claim(kind, dp, c, cb, o, ob, hints) ==
    [kind |-> kind, dp |-> dp, c |-> c, cb |-> cb, o |-> o, ob |-> ob, aess |-> hints]

(* One level: a claim that is not settled goes on with the approvals.      *)
Climb(x, eager) ==
    LET up == Delegator[x.dp]
        new == BossOfNew(up, x.cb, None, eager, x.aess)
        old == BossOfOld(up, x.ob, eager, new.aess)
    IN IF x.kind # "open" THEN x
       ELSE IF Outranks(x.c, x.cb, x.o, x.ob) THEN [x EXCEPT !.kind = "accept"]
       ELSE IF x.cb = x.ob \/ up = None THEN [x EXCEPT !.kind = "reject"]
       ELSE IF new.boss = None THEN [x EXCEPT !.kind = "pdes", !.aess = new.aess]
       ELSE IF old.boss = None THEN [x EXCEPT !.kind = "pdes", !.aess = old.aess]
       ELSE Claim("open", up, x.cb, new.boss, x.ob, old.boss, old.aess)

(***************************************************************************)
(* Whether candidate c, approved by cb, supersedes the accepted o, approved*)
(* by ob.  Approvals that differ at one number are compared by their own   *)
(* approvals, one delegator up, and so on to an identifier not delegated.  *)
(***************************************************************************)
Supersedes(claim, eager) ==
    LET after[i \in 0..Cardinality(Pre)] ==
            IF i = 0 THEN claim ELSE Climb(after[i - 1], eager)
    IN after[Cardinality(Pre)]

------------------------------------------------------------------------------
(* The decision about one event: a set that holds the one decision *)

(* A decision's seal is the one to keep, its aess the kept seals after it. *)
Decision(kind, seal, hints) == {[kind |-> kind, seal |-> seal, aess |-> hints]}

(* An inception, an event in turn, or a rotation over an interaction needs *)
(* only its approval; a rotation over a rotation must outrank it.          *)
InTurn(e) ==
    LET head == state[Ev[e].pre].said
    IN \/ Ev[e].ilk = "dip"
       \/ Ev[e].sn = Ev[head].sn + 1
       \/ Ev[e].sn = Ev[head].sn /\ Ev[head].ilk = "ixn"

(* The event in the log that e would take the place of is found approved   *)
(* by old, and the claims of the two are settled.                          *)
Recovered(p, e, seal, new, old, eager) ==
    IF old.boss = None THEN Decision("pdes", seal, old.aess)
    ELSE UNION {Decision(claim.kind, IF claim.kind = "accept" THEN new.boss ELSE seal, claim.aess) :
                claim \in {Supersedes(Claim("open", Delegator[p], e, new.boss,
                                            state[p].est, old.boss, old.aess), eager)}}

(* fetchDelegatingEvent finds e approved by new.                           *)
ApprovedBy(p, e, seal, new, eager) ==
    IF new.boss = None THEN Decision("pdes", seal, new.aess)
    ELSE IF InTurn(e) THEN Decision("accept", new.boss, new.aess)
    ELSE IF Ev[state[p].est].sn # Ev[e].sn THEN Decision("reject", None, new.aess)
    ELSE UNION {Recovered(p, e, seal, new, old, eager) :
                old \in {BossOfOld(Delegator[p], state[p].est, eager, new.aess)}}

(***************************************************************************)
(* validateDelegation: events of this node's own come from itself, those   *)
(* its identifiers delegate wait for their approval here, and those of     *)
(* others for a seal in the delegator's log.                               *)
(***************************************************************************)
Attached(p, e, seal, local, eager, hints) ==
    IF p \in own /\ ~local THEN Decision("misfit", seal, hints)
    ELSE IF Ev[e].ilk \notin {"dip", "drt"} THEN Decision("accept", seal, hints)
    ELSE IF Delegator[p] \in own /\ p \notin own /\ AcceptedBoss(Delegator[p], seal, e) = None
    THEN Decision("delegables", seal, hints)
    ELSE IF p \in own THEN Decision("accept", seal, hints)
    ELSE IF state[Delegator[p]] = NoState THEN Decision("pdes", seal, hints)
    ELSE IF Delegator[p] \in Dnd THEN Decision("reject", None, hints)
    ELSE UNION {ApprovedBy(p, e, seal, new, eager) :
                new \in {BossOfNew(Delegator[p], e, seal, eager, hints)}}

(* A second arrival may bring the source seal an accepted event lacked.    *)
Duplicate(p, e, seal, hints) ==
    Decision("duplicate",
             IF /\ seal # None /\ hints[e] = None /\ Delegated(p) /\ Ev[e].ilk # "ixn"
                /\ FirstAlong(Delegator[p], e) = seal
             THEN seal ELSE None, hints)

Incepts(e) == Ev[e].ilk \in {"icp", "dip"}
Again(p, e, head) == IF Incepts(e) THEN head = e ELSE LastAt(p, Ev[e].sn) = e /\ Ev[e].sn <= Ev[head].sn

(* An event that does not follow the last one, or takes back one it may    *)
(* not: an interaction, what is older than the last establishment, or what *)
(* does not follow the event before it.                                    *)
\* Mistake: a rotation may take back any event, as long as it follows the one before.
TakesAnyBack(p, e, head, n) ==
    /\ n <= Ev[head].sn
    /\ Ev[e].ilk = "ixn" \/ n = 0 \/ LastAt(p, n - 1) \notin {Ev[e].prior} \ {None}

TakesBack(p, e, head, n) ==
    /\ n <= Ev[head].sn
    /\ \/ Ev[e].ilk = "ixn"
       \/ Ev[e].ilk = "rot" /\ (n <= Ev[state[p].est].sn \/ Ev[head].ilk # "ixn")
       \/ Ev[e].ilk = "drt" /\ n < Ev[state[p].est].sn
       \/ n = 0 \/ LastAt(p, n - 1) \notin {Ev[e].prior} \ {None}

\* Mistake: the next number is enough to follow the last event.
UnfitUnlessNext(p, e, head, n) ==
    (Rotates(e) /\ (Ev[e].ilk = "drt") # Delegated(p)) \/ TakesBack(p, e, head, n)

Unfit(p, e, head, n) ==
    \/ Rotates(e) /\ (Ev[e].ilk = "drt") # Delegated(p)
    \/ n = Ev[head].sn + 1 /\ Ev[e].prior # head
    \/ TakesBack(p, e, head, n)

(* decideEvent and the checks of the Kever before the attachments.         *)
Decide(e, seal, local, eager, hints) ==
    LET p == Ev[e].pre
        head == state[p].said
    IN IF state[p] = NoState
       THEN IF ~Incepts(e) THEN Decision("ooo", seal, hints)
            ELSE IF Ev[e].sn # 0 THEN Decision("reject", None, hints)
            ELSE Attached(p, e, seal, local, eager, hints)
       ELSE IF Again(p, e, head) THEN Duplicate(p, e, seal, hints)
       ELSE IF Incepts(e) THEN Decision("ldes", seal, hints)
       ELSE IF Ev[e].sn > Ev[head].sn + 1 THEN Decision("ooo", seal, hints)
       ELSE IF Unfit(p, e, head, Ev[e].sn) THEN Decision("reject", None, hints)
       ELSE Attached(p, e, seal, local, eager, hints)

------------------------------------------------------------------------------
(* What a decision writes *)

(* repairAnchoredDelegationSourceSeals: an accepted event gives its name   *)
(* as source seal to the stored events it anchors, of its own delegates.   *)
\* Mistake: whoever anchors the event gives its name.
NewlyAnchoredByAny(e, known, hints) ==
    [x \in Event |->
        IF Anchors(e, x) /\ x \in evts /\ hints[x] = None THEN e ELSE hints[x]]

NewlyAnchored(e, known, hints) ==
    [x \in Event |->
        IF /\ Anchors(e, x) /\ x \in evts /\ hints[x] = None
           /\ known[Ev[x].pre] # NoState /\ Delegator[Ev[x].pre] = Ev[e].pre
        THEN e ELSE hints[x]]

Kept(e, seal, hints) ==
    IF seal # None /\ Delegated(Ev[e].pre) /\ Ev[e].ilk # "ixn"
    THEN [hints EXCEPT ![e] = seal] ELSE hints

(* A value is put in an insertion-ordered set only once.                   *)
AddOnce(list, x) == IF x \in ToSet(list) THEN list ELSE Append(list, x)

(***************************************************************************)
(* applyDecision, case accept, with Kever.logEvent.  A rotation that gave  *)
(* way to a rival can be accepted again: it is first seen once more, but   *)
(* keeps its place in the log, where the rival stays the last at its       *)
(* number.                                                                 *)
(***************************************************************************)
Accept(e, local, d) ==
    LET p == Ev[e].pre
        now == [state EXCEPT ![p] = [said |-> e, est |-> IF Establishes(e) THEN e ELSE @.est]]
    IN /\ evts' = evts \cup {e}
       /\ kels' = [kels EXCEPT ![p][Ev[e].sn] = AddOnce(@, e)]
       /\ fels' = [fels EXCEPT ![p] = Append(@, e)]
       /\ state' = now
       /\ aess' = NewlyAnchored(e, now, Kept(e, d.seal, d.aess))
       /\ udes' = [udes EXCEPT ![e] = None]
       /\ esrs' = IF local THEN esrs \cup {e} ELSE esrs

(* Case duplicate: only what is new is logged.                             *)
Learn(e, local, d) ==
    /\ aess' = Kept(e, d.seal, d.aess)
    /\ esrs' = IF local /\ d.seal # None THEN esrs \cup {e} ELSE esrs
    /\ UNCHANGED <<evts, kels, fels, state, udes>>

(* Case escrow: persistEscrowInstruction.                                  *)
Hold(e, local, d) ==
    /\ evts' = evts \cup {e}
    /\ udes' = IF d.seal # None THEN [udes EXCEPT ![e] = d.seal] ELSE udes
    /\ esrs' = IF local THEN esrs \cup {e} ELSE esrs
    /\ aess' = d.aess
    /\ UNCHANGED <<kels, fels, state>>

Leave(d) == aess' = d.aess /\ UNCHANGED <<evts, kels, fels, state, udes, esrs>>

------------------------------------------------------------------------------
(* The actions *)

(* Kevery.processEvent: one event arrives, never searched for eagerly.  It *)
(* may arrive within a sweep too, which gives more orders than one thread. *)
Receive ==
    \E m \in net : \E d \in Decide(m.event, m.seal, m.local, FALSE, aess) :
        /\ net' = net \ {m}
        /\ UNCHANGED <<own, turn, due>>
        /\ \/ d.kind = "accept" /\ Accept(m.event, m.local, d) /\ UNCHANGED escrow
           \/ d.kind = "duplicate" /\ Learn(m.event, m.local, d) /\ UNCHANGED escrow
           \/ d.kind = "reject" /\ Leave(d) /\ UNCHANGED escrow
           \/ /\ d.kind \in EscrowKind
              /\ Hold(m.event, m.local, d)
              /\ escrow' = escrow \cup {<<d.kind, m.event>>}

(* repairEscrowDelegationSourceSeal, before an event is tried again.       *)
RepairedFor(kind, e) ==
    IF kind \in {"pdes", "delegables"} /\ Ev[e].ilk \in {"dip", "drt"} /\ aess[e] = None
    THEN FirstAlong(Delegator[Ev[e].pre], e) ELSE aess[e]

(* replayEscrowEntry: an event is decided again with the seal it came with *)
(* or the one kept; only the pass over partial delegations searches.       *)
\* Mistake: no pass searches.
RetriedAsNew(row) == Decide(row[2], udes[row[2]], row[2] \in esrs, FALSE, aess)

Retried(row) ==
    UNION {Decide(row[2], IF udes[row[2]] # None THEN udes[row[2]] ELSE hints[row[2]],
                  row[2] \in esrs, row[1] = "pdes", hints) :
           hints \in {[aess EXCEPT ![row[2]] = RepairedFor(row[1], row[2])]}}

Moved(row, kind) ==
    (escrow \ {row}) \cup (IF kind \in EscrowKind THEN {<<kind, row[2]>>} ELSE {})

Replay(row) ==
    \E e \in {row[2]}, d \in Retried(row) :
        /\ due' = due \ {row}
        /\ UNCHANGED <<own, net, turn>>
        /\ escrow' = Moved(row, d.kind)
        /\ \/ d.kind = "accept" /\ Accept(e, e \in esrs, d)
           \/ d.kind = "duplicate" /\ Learn(e, e \in esrs, d)
           \/ d.kind \in {"reject", row[1]} /\ Leave(d)
           \/ d.kind \in EscrowKind \ {row[1]} /\ Hold(e, e \in esrs, d)

Rows(kind) == {row \in escrow : row[1] = kind}

(* processEscrows goes through the escrows in this order and tries the     *)
(* rows each has when it gets there; what waits for approval here is left. *)
Sweeps == <<"ooo", "pdes", "ldes", "misfit">>

NextEscrow ==
    /\ due = {}
    /\ turn' = IF turn < Len(Sweeps) THEN turn + 1 ELSE 0
    /\ due' = IF turn' = 0 THEN {} ELSE Rows(Sweeps[turn'])
    /\ UNCHANGED <<log, escrow, own, net>>

Try == \E row \in due : Replay(row)

(* performDelegationApproval: the delegator's event is its last, its name  *)
(* is pinned as the source seal, and all rows that wait here are tried.    *)
Approve ==
    /\ turn = 0
    /\ \E row \in Rows("delegables") :
        \E b \in {state[Delegator[Ev[row[2]].pre]].said} :
            /\ b # None /\ Anchors(b, row[2]) /\ aess' = [aess EXCEPT ![row[2]] = b]
    /\ turn' = Len(Sweeps) + 1 /\ due' = Rows("delegables")
    /\ UNCHANGED <<evts, kels, fels, state, udes, esrs, escrow, own, net>>

Next == Receive \/ NextEscrow \/ Try \/ Approve

Blank ==
    /\ evts = {} /\ kels = [p \in Pre |-> [n \in 0..MaxSn |-> <<>>]]
    /\ fels = [p \in Pre |-> <<>>] /\ state = [p \in Pre |-> NoState]
    /\ aess = [e \in Event |-> None] /\ udes = [e \in Event |-> None]
    /\ esrs = {} /\ escrow = {} /\ turn = 0 /\ due = {}

Message == [event : Event, seal : Seal, local : BOOLEAN]

(* Nothing is known; what was sent comes from this node when it has the    *)
(* identifier's habitat, which attaches no source seal, and may come back  *)
(* to it from the network.                                                 *)
Init ==
    /\ Blank
    /\ own \in SUBSET Pre
    /\ net \in SUBSET {m \in Message : /\ m.local => Ev[m.event].pre \in own
                                       /\ Ev[m.event].pre \in own => m.seal = None}

Spec == Init /\ [][Next]_vars

(* Reactor and runtime loops: what arrives is read, and sweeps go on.      *)
Fairness ==
    /\ WF_net(\E m \in net : net' = net \ {m})
    /\ WF_due(\E row \in due : due' = due \ {row})
    /\ WF_turn(due = {} /\ turn' = IF turn < Len(Sweeps) THEN turn + 1 ELSE 0)

------------------------------------------------------------------------------
(* What must hold *)

Bosses ==
    [e \in Event |-> {b \in Event : Ev[b].pre = Delegator[Ev[e].pre] /\ Anchors(b, e)}]

(***************************************************************************)
(* validateDelegation: an inception or rotation of a delegated identifier  *)
(* that is not this node's is in its log only when an accepted event of    *)
(* its delegator anchors it, whatever seal came with it.                   *)
(***************************************************************************)
DelegatedAnchored ==
    \A p \in Pre \ own : \A e \in ToSet(fels[p]) :
        Delegated(p) /\ Establishes(e) => \E b \in Bosses[e] : Accepted(b)

(***************************************************************************)
(* repairAnchoredDelegationSourceSeals, repairEscrowDelegationSourceSeal,  *)
(* logEvent: every source seal kept names an accepted event of the         *)
(* delegator that anchors the event, never one of someone else.            *)
(***************************************************************************)
SealsNameAnchors ==
    \A e \in Event : aess[e] # None => aess[e] \in Bosses[e] /\ Accepted(aess[e])

(* The last events at the numbers up to head are a chain, whose last       *)
(* establishment event is est.                                             *)
LastEvents(p) == [n \in 0..MaxSn |-> LastAt(p, n)]
IsChain(at, head, est) ==
    /\ at[Ev[head].sn] = head
    /\ \A n \in 1..Ev[head].sn : at[n - 1] # None /\ at[n - 1] = Ev[at[n]].prior
    /\ at[Ev[est].sn] = est /\ Ev[est].sn <= Ev[head].sn
    /\ \A n \in (Ev[est].sn + 1)..Ev[head].sn : Ev[at[n]].ilk = "ixn"

(* What is accepted follows what was accepted at the number before.        *)
Linked(p) ==
    \A e \in ToSet(fels[p]) : Ev[e].sn > 0 =>
        Ev[e].prior \in ToSet(fels[p]) /\ Ev[Ev[e].prior].sn = Ev[e].sn - 1

(***************************************************************************)
(* evaluateRotation, evaluateInteraction, logEvent: however the logs of an *)
(* identifier and its delegators recover, all that is accepted follows     *)
(* something accepted, and the last events at the numbers up to the head   *)
(* of the key state are one chain, whose last establishment event is the   *)
(* one the state goes by; save for a delegated identifier of which an event*)
(* was accepted twice: the rival in between stays the last one stored.     *)
(***************************************************************************)
ChainStands ==
    \A p \in {q \in Pre : state[q] # NoState} :
        /\ Linked(p)
        /\ (Delegated(p) => IsInjective(fels[p])) =>
               IsChain(LastEvents(p), state[p].said, state[p].est)

(***************************************************************************)
(* evaluateRotation: no recovery reaches below the last establishment event*)
(* of an identifier, and none of an identifier that is not delegated takes *)
(* that event back either.                                                 *)
(***************************************************************************)
BelowEstStays ==
    \A p \in {q \in Pre : state[q] # NoState} : \A n \in 0..Ev[state[p].est].sn :
        ~Delegated(p) \/ n < Ev[state[p].est].sn => LastEvents(p)'[n] = LastEvents(p)[n]
EstablishedStays == [][BelowEstStays]_vars

(* How late an approval is: by its number, a rotation after the            *)
(* interaction it replaces.                                                *)
Lateness(b) == 2 * Ev[b].sn + (IF Ev[b].ilk = "ixn" THEN 0 ELSE 1)

(* One event beats another: approved later, by a later seal of one event,  *)
(* or by an event that itself beats the other's approval.                  *)
Beating(x, above) ==
    \E cb \in Bosses[x[1]], ob \in Bosses[x[2]] :
        \/ Lateness(cb) > Lateness(ob)
        \/ cb = ob /\ \E i, j \in DOMAIN Ev[cb].seals :
                          i > j /\ x = <<Ev[cb].seals[i], Ev[cb].seals[j]>>
        \/ cb # ob /\ Delegated(Ev[cb].pre) /\ above[<<cb, ob>>]

(* Within so many delegators up, of which there are no more than           *)
(* identifiers.                                                            *)
BeatsWithin[n \in 0..Cardinality(Pre)] ==
    [x \in Event \X Event |-> IF n = 0 THEN FALSE ELSE Beating(x, BeatsWithin[n - 1])]

Beats == BeatsWithin[Cardinality(Pre)]

Rivals(c, o) == Ev[c].pre = Ev[o].pre /\ Ev[c].sn = Ev[o].sn /\ Ev[c].prior = Ev[o].prior
Stronger == [o \in Event |-> {c \in Event : Rivals(c, o) /\ Beats[<<c, o>>]}]

(***************************************************************************)
(* validateDelegatedRecovery: a rotation of another node's delegate gives  *)
(* way only to one whose approval beats that of the first.                 *)
(***************************************************************************)
GivesWayToStronger ==
    [][\A p \in Pre \ own : Delegated(p) /\ state[p] # NoState /\ state'[p] # NoState
        /\ state'[p].est # state[p].est /\ Rivals(state'[p].est, state[p].est)
        => state'[p].est \in Stronger[state[p].est]]_vars

(***************************************************************************)
(* Whatever order the rotations of another node's delegate, their          *)
(* approvals and the events these recover from come in, the strongest is   *)
(* the one that stands.                                                    *)
(***************************************************************************)
StrongestStands ==
    <>[](\A p \in Pre \ own : \A e \in evts :
            Ev[e].pre = p /\ Ev[e].ilk = "drt" /\ Delegator[p] \notin own =>
                state[p] # NoState /\ e \notin Stronger[state[p].est])
==============================================================================
