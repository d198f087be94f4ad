-------------------------------- MODULE Baser --------------------------------
(***************************************************************************)
(* The durable stores a key event validator reads and writes, the cache of *)
(* live key states kept beside them in memory, and the reads and compound  *)
(* writes the code does on them.                                           *)
(*                                                                         *)
(* Every store write is a transaction of its own, so a crash can land      *)
(* between two writes of one handler.  A compound write therefore takes    *)
(* the number n of its writes that reach the disk; the complete write has  *)
(* n = AllWrites.                                                          *)
(***************************************************************************)
EXTENDS KelEvents

VARIABLES
    evts,     \* evts.: events whose body is stored
    sigs,     \* sigs.: controller indexed signatures by event
    wigs,     \* wigs.: witness indexed signatures by event
    wits,     \* wits.: witness list stored with an event, <<>> when absent
    rcts,     \* rcts.: non-witness receipt couples by event
    vrcs,     \* vrcs.: transferable receipt quadruples by event
    esrs,     \* esrs.: provenance of an event
    kels,     \* kels.: by prefix and sn, the accepted events in their order
    fels,     \* fels.: by prefix, the first-seen log
    fons,     \* fons.: first-seen ordinal of an event
    states,   \* states.: durable key state by prefix
    escrow,   \* ooes., pses., pwes., ldes., mfes.: escrowed events by family
    uwes,     \* uwes.: witness receipts of events not yet seen
    ures,     \* ures.: non-transferable receipts of events not yet seen
    vres,     \* vres.: transferable receipts whose event or seal is not yet seen
    kevers    \* in memory: live key state by prefix

EscrowKind == {"ooo", "partialSigs", "partialWigs", "duplicitous", "misfit"}
Source == {"none", "remote", "local"}

(***************************************************************************)
(* A key state record: the accepted event it stands at and what governs    *)
(* the next one.  fn is the first-seen ordinal of d, counted from 1.       *)
(***************************************************************************)
KeyState == [d : Event, s : Sn, ilk : Ilk, keys : Seq(Key), kt : Tholder,
             nkeys : Seq(Key), nt : Tholder, wits : Seq(Wit), toad : Nat,
             traits : SUBSET Trait, est : [s : Sn, d : Event], fn : Nat]

(* No key state: a record that stands at no event.                         *)
NoState ==
    LET none == [size |-> 0, quorums |-> {}] IN
    [d |-> NoEvent, s |-> 0, ilk |-> "icp", keys |-> <<>>, kt |-> none,
     nkeys |-> <<>>, nt |-> none, wits |-> <<>>, toad |-> 0, traits |-> {},
     est |-> [s |-> 0, d |-> NoEvent], fn |-> 0]

------------------------------------------------------------------------------
(* Reads *)

(* The last event recorded at a sequence number: the accepted one, unless  *)
(* a recovery left the head below sn.                                      *)
LastAt(p, sn) ==
    IF sn \notin Sn \/ kels[p][sn] = <<>> THEN NoEvent
    ELSE kels[p][sn][Len(kels[p][sn])]

(* The read-through accessor: the live key state, or the durable one.      *)
GetKever(p) == IF kevers[p] # NoState THEN kevers[p] ELSE states[p]

(* Its side effect: what it read from disk becomes live.                   *)
Rehydrated(p) == [kevers EXCEPT ![p] = GetKever(p)]

\* Mistake: a start reads nothing back.
NotReloaded(durable) == [p \in Pre |-> NoState]

(* What a start reads back: the key states of local habitats, no others.   *)
Reloaded(durable) == [p \in Pre |-> IF p \in Habs THEN durable[p] ELSE NoState]

------------------------------------------------------------------------------
(* Writes *)

AllWrites == 9

(* put on an insertion-ordered set keeps what is there, appends the rest.  *)
PutAll(old, new) == old \o Without(new, Range(old))

AddOnce(list, x) == IF x \in Range(list) THEN list ELSE Append(list, x)

Promote(source, local) ==
    IF local THEN "local" ELSE IF source = "none" THEN "remote" ELSE source

(***************************************************************************)
(* The writes both an accepted and an escrowed event begin with: their     *)
(* attachments, the body and the provenance.                               *)
(***************************************************************************)
StoreMaterial(n, e, sg, wg, wt, local) ==
    /\ sigs' = IF n >= 1 THEN [sigs EXCEPT ![e] = @ \cup sg] ELSE sigs
    /\ wigs' = IF n >= 2 THEN [wigs EXCEPT ![e] = @ \cup wg] ELSE wigs
    /\ wits' = IF n >= 3 THEN [wits EXCEPT ![e] = PutAll(@, wt)] ELSE wits
    /\ evts' = IF n >= 4 THEN evts \cup {e} ELSE evts
    /\ esrs' = IF n >= 5 THEN [esrs EXCEPT ![e] = Promote(@, local)] ELSE esrs

(***************************************************************************)
(* Log an event: its material, then, the first time it is seen, its place  *)
(* in the first-seen log and that place's ordinal, and last its entry in   *)
(* the key event log.                                                      *)
(***************************************************************************)
LogEvent(n, e, sg, wg, wt, local, first) ==
    LET p == Ev[e].pre
        fn == Len(fels[p]) + 1
    IN
    /\ StoreMaterial(n, e, sg, wg, wt, local)
    /\ fels' = IF first /\ n >= 6 THEN [fels EXCEPT ![p] = Append(@, e)] ELSE fels
    /\ fons' = IF first /\ n >= 7 THEN [fons EXCEPT ![e] = fn] ELSE fons
    /\ kels' = IF n >= 8
                 THEN [kels EXCEPT ![p][Ev[e].sn] = AddOnce(@, e)]
                 ELSE kels

\* Mistake: the state is pinned before the event is in the key event log.
PinStateFirst(n, p, ks) ==
    states' = IF n >= 6 THEN [states EXCEPT ![p] = ks] ELSE states

PinState(n, p, ks) ==
    states' = IF n >= 9 THEN [states EXCEPT ![p] = ks] ELSE states

(***************************************************************************)
(* Escrow an event: its material, then its row in the escrow of its kind.  *)
(* rows is the escrow the row is added to.                                 *)
(***************************************************************************)
PersistEscrow(n, kind, e, sg, wg, wt, local, rows) ==
    /\ StoreMaterial(n, e, sg, wg, wt, local)
    /\ escrow' = IF n >= 6 THEN [rows EXCEPT ![kind] = @ \cup {e}] ELSE rows

WithoutRow(kind, e) == [escrow EXCEPT ![kind] = @ \ {e}]

------------------------------------------------------------------------------
InitStores ==
    /\ evts = {}
    /\ sigs = [e \in Event |-> {}]
    /\ wigs = [e \in Event |-> {}]
    /\ wits = [e \in Event |-> <<>>]
    /\ rcts = [e \in Event |-> {}]
    /\ vrcs = [e \in Event |-> {}]
    /\ esrs = [e \in Event |-> "none"]
    /\ kels = [p \in Pre |-> [n \in Sn |-> <<>>]]
    /\ fels = [p \in Pre |-> <<>>]
    /\ fons = [e \in Event |-> 0]
    /\ states = [p \in Pre |-> NoState]
    /\ escrow = [k \in EscrowKind |-> {}]
    /\ uwes = {}
    /\ ures = {}
    /\ vres = {}
    /\ kevers = [p \in Pre |-> NoState]

(* The stores and the cache hold what their types say.                     *)
StoresTypeOK ==
    /\ evts \in SUBSET Event
    /\ sigs \in [Event -> SUBSET Siger]
    /\ wigs \in [Event -> SUBSET Wiger]
    /\ wits \in [Event -> Seq(Wit)]
    /\ rcts \in [Event -> SUBSET Couple]
    /\ vrcs \in [Event -> SUBSET Quadruple]
    /\ esrs \in [Event -> Source]
    /\ kels \in [Pre -> [Sn -> Seq(Event)]]
    /\ fels \in [Pre -> Seq(Event)]
    /\ fons \in [Event -> Nat]
    /\ states \in [Pre -> KeyState \cup {NoState}]
    /\ escrow \in [EscrowKind -> SUBSET Event]
    /\ uwes \in SUBSET [ev : Event, wiger : Wiger]
    /\ ures \in SUBSET [ev : Event, couple : Couple]
    /\ vres \in SUBSET [ev : Event, quad : Quadruple]
    /\ kevers \in [Pre -> KeyState \cup {NoState}]
==============================================================================
