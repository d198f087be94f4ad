----------------------------- MODULE Registries -----------------------------
(***************************************************************************)
(* The transaction event logs of credential registries and the credentials *)
(* themselves, at one node: each event of a registry, an issuance or a     *)
(* revocation counts once the log of the registry's owner anchors it, and  *)
(* a credential once its registry issued it, its schema is known and the   *)
(* credentials it chains to are good.  Everything can come in any order    *)
(* and waits in escrows; sweeps try the rows again.  The node may be the   *)
(* owner of a registry too, and then anchors the events itself.            *)
(*                                                                         *)
(* Key event logs are here only what anchors: Kever is about the rest.  A  *)
(* registry is named by its inception, whose digest its prefix is.         *)
(***************************************************************************)
EXTENDS Integers, Sequences, FiniteSets, SequencesExt

CONSTANTS
    TelEvent,   \* the transaction events
    Registry,   \* the inceptions among them
    Tel,        \* what each transaction event says
    KelEvent,   \* the key events that anchor, of all owners
    Kel,        \* each one's pre, sn, prior, whether it rotates, the events it seals
    Cred,       \* credentials
    Card,       \* what each credential says
    Aid, Backer, Schema, None,
    MaxSn,      \* bound: the greatest sequence number of any event
    Old         \* transaction events too old to vouch for a credential

Ilk == {"vcp", "vrt", "iss", "bis", "rev", "brv"}

ASSUME RegistriesAssumption ==
    /\ Registry \subseteq TelEvent /\ Old \subseteq TelEvent /\ MaxSn \in Nat \ {0}
    /\ None \notin TelEvent \cup KelEvent \cup Cred \cup Aid
    /\ Registry \cap Cred = {}
    /\ Tel \in [TelEvent -> [ilk : Ilk, pre : Registry \cup Cred, sn : 0..MaxSn,
                             reg : Registry, owner : Aid \cup {None}, plain : BOOLEAN,
                             prior : TelEvent \cup {None}, ra : TelEvent \cup {None},
                             cuts : SUBSET Backer, adds : SUBSET Backer, toad : Nat]]
    /\ Kel \in [KelEvent -> [pre : Aid, sn : 0..MaxSn, prior : KelEvent \cup {None},
                             rot : BOOLEAN, seals : SUBSET TelEvent]]
    /\ Card \in [Cred -> [reg : Registry, issuer : Aid, issuee : Aid \cup {None}, schema : Schema,
                          edges : Seq([node : Cred, op : {"I2I", "DI2I", "NI2I", "none"}])]]

(* Messages are well formed: the event of a registry is of its log, that   *)
(* of a credential of the credential's, whose issuances have number 0.     *)
ASSUME FormAssumption ==
    /\ \A r \in Registry : Tel[r].ilk = "vcp" /\ Tel[r].owner \in Aid
    /\ \A e \in TelEvent : IF Tel[e].ilk \in {"vcp", "vrt"} THEN Tel[e].pre = Tel[e].reg
                           ELSE Tel[e].pre \in Cred
    /\ \A e \in TelEvent : Tel[e].ilk \in {"iss", "bis"} => Tel[e].sn = 0

VARIABLES
    kels,       \* of each owner and number, the key events accepted there, in order
    tels,       \* the accepted transaction event of each log and number
    tvts,       \* transaction events whose body is stored
    ancs,       \* the key event each was said to be anchored by
    tibs,       \* the backer signatures kept of each
    baks,       \* the backers kept of each
    states,     \* each registry's last event and backers, stored and held in memory
    rows,       \* the escrows of transaction events: table and event
    creds,      \* credentials whose body is stored
    saved,      \* credentials accepted
    waits,      \* the escrows of credentials: table and credential
    late,       \* rows of waits past their hour
    schemas,    \* schemas resolved
    own,        \* owners this node has habitats of
    ctel,       \* own transaction events marked complete
    cmse, ccrd, \* own credentials issued and not yet complete, and complete
    net,        \* what is on its way
    hours       \* bound: how many hours pass yet

telVars == <<tels, tvts, ancs, tibs, baks, states, rows>>
credVars == <<creds, saved, waits, late>>
ownVars == <<own, ctel, cmse, ccrd>>
vars == <<kels, telVars, credVars, schemas, ownVars, net, hours>>

NoState == [said |-> None, baks |-> {}]
LastAt(K, p, n) == IF K[p][n] = <<>> THEN None ELSE Last(K[p][n])
Count(pre) == Cardinality({n \in 0..MaxSn : tels[pre][n] # None})
Known(r) == states[r] # NoState

------------------------------------------------------------------------------
(* Whether a transaction event is anchored and receipted *)

Owner(e) == Tel[Tel[e].reg].owner

(* The event said to anchor e is the last accepted at its number in the    *)
(* owner's log, and anchors nothing else.                                  *)
\* Mistake: an event another one took the place of still anchors.
AnchoredOnce(K, e, k) ==
    /\ k # None /\ Kel[k].pre = Owner(e) /\ k \in ToSet(K[Owner(e)][Kel[k].sn])
    /\ Kel[k].seals = {e}

Anchored(K, e, k) ==
    /\ k # None
    /\ LastAt(K, Owner(e), Kel[k].sn) = k
    /\ Kel[k].seals = {e}

ToadFits(n, bs) == IF bs = {} THEN n = 0 ELSE n \in 1..Cardinality(bs)

Manages(e) == Tel[e].ilk \in {"vcp", "vrt"}
Backed(e) == Tel[e].ilk \in {"bis", "brv"}

(* The backers that must receipt e, and how many of them: those the event  *)
(* itself leaves for a registry's own event, and for a credential's those  *)
(* kept of the registry event it names, accepted or not.                   *)
BackersFor(e) ==
    CASE Manages(e) -> (states[Tel[e].reg].baks \ Tel[e].cuts) \cup Tel[e].adds
      [] Backed(e) -> IF Tel[e].ra = None THEN {} ELSE baks[Tel[e].ra]
      [] OTHER -> {}

ToadFor(e) == IF Manages(e) THEN Tel[e].toad
              ELSE IF Backed(e) /\ Tel[e].ra # None THEN Tel[Tel[e].ra].toad ELSE 0

(* What is wrong with an event whose turn it is, before its anchor is      *)
(* looked at.                                                              *)
\* Mistake: a revocation need not name the issuance that was accepted.
MisfitButPrior(e) ==
    LET t == Tel[e]
        plain == Tel[t.reg].plain
    IN \/ t.ilk \in {"iss", "rev"} /\ ~plain
       \/ Backed(e) /\ (plain \/ t.ra \notin tvts \/ Tel[t.ra].pre # t.reg)

Misfit(e) ==
    LET t == Tel[e]
        plain == Tel[t.reg].plain
        held == states[t.reg]
    IN \/ t.ilk \in {"iss", "rev"} /\ ~plain
       \/ Backed(e) /\ (plain \/ t.ra \notin tvts \/ Tel[t.ra].pre # t.reg)
       \/ t.ilk \in {"rev", "brv"} /\ (t.sn = 0 \/ t.prior = None \/ t.prior # tels[t.pre][t.sn - 1])
       \/ t.ilk = "vrt" /\ (plain \/ t.prior # held.said)
       \/ Manages(e) /\ (\/ ~(t.cuts \subseteq held.baks)
                         \/ t.adds \cap (t.cuts \cup held.baks) # {}
                         \/ ~ToadFits(t.toad, BackersFor(e))
                         \/ plain /\ t.adds # {})

------------------------------------------------------------------------------
(* What becomes of a transaction event *)

Expected(e) == IF Tel[e].ilk = "vrt" THEN Tel[states[Tel[e].reg].said].sn + 1
               ELSE Count(Tel[e].pre)

Judged(K, e, k, sigs) ==
    IF Misfit(e) THEN "reject"
    ELSE IF ~Anchored(K, e, k) THEN "anchorless"
    ELSE IF BackersFor(e) = {} THEN "accept"
    ELSE IF ~ToadFits(ToadFor(e), BackersFor(e)) THEN "reject"
    ELSE IF Cardinality(sigs \cap BackersFor(e)) < ToadFor(e) THEN "partialWitness"
    ELSE "accept"

Verdict(K, e, k, sigs) ==
    IF ~Known(Tel[e].reg) /\ Tel[e].ilk # "vcp" THEN "outOfOrder"
    ELSE IF ~Known(Tel[e].reg) THEN Judged(K, e, k, sigs)
    ELSE IF Tel[e].ilk = "vcp" \/ Tel[e].sn < Expected(e) THEN "duplicate"
    ELSE IF Tel[e].sn > Expected(e) THEN "outOfOrder"
    ELSE Judged(K, e, k, sigs)

TableOf(v) == CASE v = "outOfOrder" -> "oots" [] v = "anchorless" -> "taes"
                [] v = "partialWitness" -> "twes" [] OTHER -> "none"

(* An inception that may not count yet is put in its escrow, and then the  *)
(* constructor throws, so that its decision reads as a rejection.          *)
Decided(e, v) == IF Tel[e].ilk = "vcp" /\ TableOf(v) # "none" THEN "reject" ELSE v

(* The writes of one verdict, up to the log; the couple first kept stays,  *)
(* and out-of-order events leave their backers' signatures behind.         *)
Record(e, k, sigs, v) ==
    LET good == sigs \cap BackersFor(e)
        kept == v \in {"accept", "anchorless", "partialWitness"}
    IN /\ tvts' = IF v \in {"duplicate", "reject"} THEN tvts ELSE tvts \cup {e}
       /\ ancs' = IF v \notin {"duplicate", "reject"} /\ ancs[e] = None
                  THEN [ancs EXCEPT ![e] = k] ELSE ancs
       /\ tibs' = IF kept /\ good # {} THEN [tibs EXCEPT ![e] = good] ELSE tibs
       /\ baks' = IF BackersFor(e) # {} /\ (v = "anchorless" \/ (v = "accept" /\ Manages(e)))
                  THEN [baks EXCEPT ![e] = BackersFor(e)] ELSE baks
       /\ tels' = IF v = "accept" /\ tels[Tel[e].pre][Tel[e].sn] = None
                  THEN [tels EXCEPT ![Tel[e].pre][Tel[e].sn] = e] ELSE tels

(* The registry's state follows, in memory and stored.                     *)
Cache(e, v) ==
    states' = IF v = "accept" /\ Manages(e)
              THEN [states EXCEPT ![Tel[e].reg] = [said |-> e, baks |-> BackersFor(e)]] ELSE states

Escrowed(e, v) == IF TableOf(v) = "none" THEN {} ELSE {<<TableOf(v), e>>}

(* An event received, with the key event it says anchors it, or none.      *)
Receive(m) ==
    \E v \in {Verdict(kels, m.event, m.couple, m.sigs)} :
        /\ Record(m.event, m.couple, m.sigs, v)
        /\ Cache(m.event, v)
        /\ rows' = rows \cup Escrowed(m.event, v)
        /\ UNCHANGED <<kels, credVars, schemas, ownVars, hours>>

(* The process stops after the log is written and before the state is: the *)
(* memory it starts again with is what was stored, and the sender, who had *)
(* no answer, sends again.                                                 *)
StopBeforeCache(m) ==
    /\ Manages(m.event)
    /\ \E v \in {Verdict(kels, m.event, m.couple, m.sigs)} :
        /\ v = "accept"
        /\ Record(m.event, m.couple, m.sigs, v)
        /\ UNCHANGED <<kels, states, rows, credVars, schemas, ownVars, net, hours>>

(* A row is tried with the couple and the signatures kept; it stays where  *)
(* the decision is again the one of its table.                             *)
\* Mistake: a row tried is removed whatever the decision.
KeptUntried(t, e, v) == (rows \cup Escrowed(e, v)) \ {<<t, e>>}

Kept(t, e, v) ==
    (rows \cup Escrowed(e, v)) \ (IF TableOf(Decided(e, v)) = t THEN {} ELSE {<<t, e>>})

(* processEscrows goes through the anchorless and the out-of-order events; *)
(* those that wait for signatures of backers are never tried again.        *)
Replayable == {row \in rows : row[1] \in {"taes", "oots"}}

Replay(t, e) ==
    /\ <<t, e>> \in rows /\ ancs[e] # None
    /\ \E v \in {Verdict(kels, e, ancs[e], tibs[e])} :
        /\ Record(e, ancs[e], tibs[e], v)
        /\ Cache(e, v)
        /\ rows' = Kept(t, e, v)
    /\ UNCHANGED <<kels, credVars, schemas, ownVars, net, hours>>

(* An out-of-order event that came without a couple is dropped at once.    *)
DropUnanchored(e) ==
    /\ <<"oots", e>> \in rows /\ ancs[e] = None
    /\ rows' = rows \ {<<"oots", e>>}
    /\ UNCHANGED <<kels, tels, tvts, ancs, tibs, baks, states, credVars, schemas, ownVars, net, hours>>

------------------------------------------------------------------------------
(* What becomes of a credential *)

Issued(c) == states[Card[c].reg] # NoState /\ Count(c) > 0
Stale(c) == tels[c][Count(c) - 1] \in Old
Revoked(c) == Count(c) > 1

OpOf(edge) ==
    IF edge.op # "none" THEN edge.op
    ELSE IF Card[edge.node].issuee # None THEN "I2I" ELSE "NI2I"

Misnamed(c, edge) ==
    \/ OpOf(edge) # "NI2I" /\ Card[edge.node].issuee = None
    \/ OpOf(edge) = "I2I" /\ Card[edge.node].issuee # Card[c].issuer

(* A credential chained to that is not good yet holds c up; one that is    *)
(* revoked, or chained in a way not provided for, refuses it.              *)
\* Mistake: a credential chained to need only have come.
EdgeOfStored(c, edge) ==
    IF edge.node \notin creds \/ Misnamed(c, edge) THEN "mce"
    ELSE IF OpOf(edge) = "DI2I" THEN "refused"
    ELSE IF ~Issued(edge.node) \/ Stale(edge.node) THEN "mce"
    ELSE IF Revoked(edge.node) THEN "refused" ELSE "good"

Edge(c, edge) ==
    IF edge.node \notin saved \/ Misnamed(c, edge) THEN "mce"
    ELSE IF OpOf(edge) = "DI2I" THEN "refused"
    ELSE IF ~Issued(edge.node) \/ Stale(edge.node) THEN "mce"
    ELSE IF Revoked(edge.node) THEN "refused" ELSE "good"

Flawed(c) == {i \in DOMAIN Card[c].edges : Edge(c, Card[c].edges[i]) # "good"}

(* Saved, refused, or the table it waits in.                               *)
Fate(c) ==
    IF ~Issued(c) \/ Stale(c) THEN "mre"
    ELSE IF Card[c].schema \notin schemas THEN "mse"
    ELSE IF Flawed(c) = {} THEN "saved"
    ELSE Edge(c, Card[c].edges[Min(Flawed(c))])

Table == {"mre", "mse", "mce"}
Waiting(c, f) == IF f \in Table THEN {<<f, c>>} ELSE {}

Judge(c, f) ==
    /\ creds' = IF f = "refused" THEN creds ELSE creds \cup {c}
    /\ saved' = IF f = "saved" THEN saved \cup {c} ELSE saved

Show(m) ==
    \E f \in {Fate(m.cred)} :
        /\ Judge(m.cred, f)
        /\ waits' = waits \cup Waiting(m.cred, f)
        /\ UNCHANGED <<kels, telVars, late, schemas, ownVars, hours>>

(* A row whose credential waits for something else by now is in the other  *)
(* table already when it is removed.                                       *)
\* Mistake: the row is removed and the credential forgotten.
LeftUnmoved(t, c, f) == IF f = t THEN waits ELSE waits \ {<<t, c>>}

Left(t, c, f) == (waits \cup Waiting(c, f)) \ (IF f = t THEN {} ELSE {<<t, c>>})

\* Mistake: credentials that wait for a schema are not tried again.
SweptAllButSchemas == {"mce", "mre"}

Swept == {"mce", "mse", "mre"}

Retry(t, c) ==
    /\ t \in Swept /\ <<t, c>> \in waits \ late
    /\ \E f \in {Fate(c)} :
        /\ Judge(c, f)
        /\ waits' = Left(t, c, f)
        /\ late' = late \cap Left(t, c, f)
    /\ UNCHANGED <<kels, telVars, schemas, ownVars, net, hours>>

GiveUp(t, c) ==
    /\ <<t, c>> \in late
    /\ waits' = waits \ {<<t, c>>} /\ late' = late \ {<<t, c>>}
    /\ UNCHANGED <<kels, telVars, creds, saved, schemas, ownVars, net, hours>>

HourPasses ==
    /\ hours > 0 /\ hours' = hours - 1
    /\ late' = waits
    /\ UNCHANGED <<kels, telVars, creds, saved, waits, schemas, ownVars, net>>

------------------------------------------------------------------------------
(* An owner's own events *)

(* The key event k extends its log, as the last of the branch or by a      *)
(* rotation that recovers.                                                 *)
Extends(k) ==
    LET p == Kel[k].pre
        n == Kel[k].sn
    IN /\ n > 0 /\ LastAt(kels, p, n - 1) = Kel[k].prior
       /\ \/ kels[p][n] = <<>>
          \/ Kel[k].rot /\ k \notin ToSet(kels[p][n])

Extended(k) == [kels EXCEPT ![Kel[k].pre][Kel[k].sn] = Append(@, k)]

AcceptKel(k) ==
    /\ Extends(k)
    /\ kels' = Extended(k)
    /\ UNCHANGED <<telVars, credVars, schemas, ownVars, hours>>

(* The event the registry would make next.                                 *)
Makes(e) ==
    LET t == Tel[e]
        held == states[t.reg]
    IN \/ t.ilk = "vcp" /\ held = NoState
       \/ /\ held # NoState
          /\ \/ t.ilk = "vrt" /\ t.prior = held.said /\ t.sn = Tel[held.said].sn + 1
             \/ t.ilk = IF Tel[t.reg].plain THEN "iss" ELSE "bis"
             \/ /\ t.ilk = IF Tel[t.reg].plain THEN "rev" ELSE "brv"
                /\ Count(t.pre) > 0 /\ t.prior = tels[t.pre][Count(t.pre) - 1]
          /\ Backed(e) => t.ra = held.said

Makeable == {e \in TelEvent : Owner(e) \in own /\ Makes(e)}

(* The owner anchors the event in its own log first, then judges it; an    *)
(* issuance brings its credential along.                                   *)
Make(e, k) ==
    /\ Kel[k].pre = Owner(e) /\ Extends(k) /\ Kel[k].seals = {e}
    /\ kels' = Extended(k)
    /\ \E v \in {Verdict(Extended(k), e, k, {})} :
        /\ Record(e, k, {}, v)
        /\ Cache(e, v)
        /\ rows' = rows \cup Escrowed(e, v)
        /\ ctel' = IF v = "accept" THEN ctel \cup {e} ELSE ctel
    /\ cmse' = IF Tel[e].ilk \in {"iss", "bis"} THEN cmse \cup {Tel[e].pre} ELSE cmse
    /\ UNCHANGED <<credVars, schemas, own, ccrd, net, hours>>

(* The process stops once the event is anchored; a retry makes another.    *)
StopAfterAnchor(e, k) ==
    /\ Kel[k].pre = Owner(e) /\ Extends(k) /\ Kel[k].seals = {e}
    /\ kels' = Extended(k)
    /\ UNCHANGED <<telVars, credVars, schemas, ownVars, net, hours>>

(* The issued credential is judged like any other.                         *)
Finish(c) ==
    /\ c \in cmse
    /\ \E f \in {Fate(c)} :
        /\ Judge(c, f)
        /\ waits' = waits \cup Waiting(c, f)
        /\ cmse' = IF f = "saved" THEN cmse \ {c} ELSE cmse
        /\ ccrd' = IF f = "saved" THEN ccrd \cup {c} ELSE ccrd
    /\ UNCHANGED <<kels, telVars, late, schemas, own, ctel, net, hours>>

Resolve(x) ==
    /\ schemas' = schemas \cup {x}
    /\ UNCHANGED <<kels, telVars, credVars, ownVars, net, hours>>
------------------------------------------------------------------------------
(* What comes, in any order *)

Of(kind) == {m \in net : kind \in DOMAIN m}
Bring(m) == net' = net \ {m}

Next ==
    \/ \E m \in Of("event") : Receive(m) /\ Bring(m)
    \/ \E m \in Of("event") : StopBeforeCache(m)
    \/ \E m \in Of("cred") : Show(m) /\ Bring(m)
    \/ \E row \in Replayable : Replay(row[1], row[2])
    \/ \E e \in TelEvent : DropUnanchored(e)
    \/ \E row \in waits : Retry(row[1], row[2])
    \/ \E row \in late : GiveUp(row[1], row[2])
    \/ HourPasses
    \/ \E m \in Of("kel") : AcceptKel(m.kel) /\ Bring(m)
    \/ \E e \in Makeable : \E k \in KelEvent : Make(e, k) \/ StopAfterAnchor(e, k)
    \/ \E c \in cmse : Finish(c)
    \/ \E x \in Schema : Resolve(x)

Message ==
    [event : TelEvent, couple : KelEvent \cup {None}, sigs : SUBSET Backer]
      \cup [cred : Cred] \cup [kel : KelEvent]

(* Nothing is known but how the owners' key event logs begin.              *)
Init ==
    /\ \E first \in {f \in [Aid -> KelEvent] : \A p \in Aid : Kel[f[p]].pre = p /\ Kel[f[p]].sn = 0} :
        kels = [p \in Aid |-> [n \in 0..MaxSn |-> IF n = 0 THEN <<first[p]>> ELSE <<>>]]
    /\ tels = [p \in Registry \cup Cred |-> [n \in 0..MaxSn |-> None]]
    /\ tvts = {} /\ ancs = [e \in TelEvent |-> None]
    /\ tibs = [e \in TelEvent |-> {}] /\ baks = [e \in TelEvent |-> {}]
    /\ states = [r \in Registry |-> NoState] /\ rows = {}
    /\ creds = {} /\ saved = {} /\ waits = {} /\ late = {} /\ schemas \subseteq Schema
    /\ own \subseteq Aid /\ ctel = {} /\ cmse = {} /\ ccrd = {}
    /\ net \subseteq Message /\ hours \in Nat

Spec == Init /\ [][Next]_vars

(* Sweeps of both kinds of escrows go on for ever.                         *)
Sweep ==
    \/ \E row \in Replayable : Replay(row[1], row[2])
    \/ \E row \in waits : Retry(row[1], row[2]) \/ GiveUp(row[1], row[2])

Fairness == WF_vars(Sweep)

------------------------------------------------------------------------------
Logged(e) == tels[Tel[e].pre][Tel[e].sn] = e
SealedIn(K, e) ==
    \E k \in KelEvent : /\ Kel[k].pre = Owner(e) /\ Kel[k].seals = {e}
                        /\ LastAt(K, Owner(e), Kel[k].sn) = k

(* A transaction event enters its log only when an event that is, then,    *)
(* the last at its number in the owner's key event log seals it and        *)
(* nothing else, whatever couple came with it, was kept or was replaced by *)
(* a recovery meanwhile (verifyAnchor under update and the sweeps).        *)
LoggedAnchored ==
    [][\A e \in TelEvent : ~Logged(e) /\ Logged(e)' => SealedIn(kels', e)]_vars

(* The log of a credential is an issuance and then events that each name   *)
(* the one before, of the registry it was issued in first; rival issuances *)
(* and revocations of the one that lost come in any order (issue, revoke   *)
(* and the sequence check of processEvent).                                *)
LogChained ==
    \A c \in Cred, n \in 0..MaxSn : tels[c][n] # None =>
        IF n = 0 THEN Tel[tels[c][n]].ilk \in {"iss", "bis"}
        ELSE tels[c][n - 1] # None /\ Tel[tels[c][n]].prior = tels[c][n - 1]

(* A credential is saved only with an issuance in the log and every one it *)
(* chains to saved before, issued, not revoked then, and issued to this    *)
(* one's issuer where the edge asks for that (processCredential,           *)
(* verifyChain and the three escrows it goes through).                     *)
Vouched(c) ==
    /\ tels[c][0] # None
    /\ \A i \in DOMAIN Card[c].edges :
        LET edge == Card[c].edges[i]
        IN /\ edge.node \in saved /\ tels[edge.node][0] # None /\ tels[edge.node][1] = None
           /\ edge.op # "NI2I" => Card[edge.node].issuee \in {Card[c].issuer, None}

SavedVouched == [][\A c \in saved' \ saved : Vouched(c)]_vars

(* A credential that waits is not forgotten while it changes tables: it    *)
(* leaves the escrows saved, late, or chained to what refuses it           *)
(* (processEscrow, which removes the row after the verdict wrote another). *)
Hopeless(c) ==
    \E i \in DOMAIN Card[c].edges :
        Card[c].edges[i].op = "DI2I" \/ tels[Card[c].edges[i].node][1] # None

InEscrow(c) == \E t \in Table : <<t, c>> \in waits

NothingForgotten ==
    [][\A c \in Cred : InEscrow(c) /\ ~InEscrow(c)' =>
           c \in saved' \/ Hopeless(c) \/ \E t \in Table : <<t, c>> \in late]_vars

(* Once its registry, the event before it and its anchor are there, an     *)
(* issuance or revocation of a backerless registry that came too early and *)
(* waits enters the log: the place it waits for is taken, unless a         *)
(* recovery takes the anchor away (escrowOOEvent, escrowALEvent and the    *)
(* two sweeps, one of which can hand it to the other).                     *)
Ripe(e) ==
    /\ e \in tvts /\ Tel[e].ilk \in {"iss", "rev"} /\ Tel[Tel[e].reg].plain
    /\ states[Tel[e].reg] # NoState
    /\ ancs[e] # None /\ LastAt(kels, Owner(e), Kel[ancs[e]].sn) = ancs[e] /\ Kel[ancs[e]].seals = {e}
    /\ Tel[e].sn > 0 => tels[Tel[e].pre][Tel[e].sn - 1] = Tel[e].prior

LoggedAtLast ==
    \A e \in TelEvent : Ripe(e) ~> (~Ripe(e) \/ tels[Tel[e].pre][Tel[e].sn] # None)

(* An inception that waits for its anchor is replayed once the anchor is   *)
(* there, as the other events are: "Tevery owns ... replay of anchorless   *)
(* ... TEL escrows" (Tevery).                                              *)
Anchorless(r) == r \in tvts /\ ancs[r] # None /\ LastAt(kels, Owner(r), Kel[ancs[r]].sn) = ancs[r]

InceptionReplayed == \A r \in Registry : Anchorless(r) ~> (~Anchorless(r) \/ states[r] # NoState)

(* A credential that waits and lacks nothing any more is saved, or its     *)
(* hour passed, or what it needs was revoked (the three escrows of the     *)
(* verifier, in whatever order issuance, schema and chain came).           *)
Sound(c) ==
    /\ InEscrow(c) /\ states[Card[c].reg] # NoState /\ Card[c].schema \in schemas
    /\ Vouched(c)
    /\ \A i \in DOMAIN Card[c].edges : states[Card[Card[c].edges[i].node].reg] # NoState

SavedAtLast == \A c \in Cred : Sound(c) ~> (c \in saved \/ ~Sound(c))
==============================================================================
