----------------------------- MODULE KeyEventLog -----------------------------
(***************************************************************************)
(* What a validator promises its readers about each identifier: a log of   *)
(* events in the order it first saw them, to which it only ever appends,   *)
(* and the authoritative chain, one event for each sequence number, each   *)
(* naming the one before.  The chain grows at its end, or a rotation       *)
(* replaces a tail of interactions; what is replaced stays in the log.     *)
(***************************************************************************)
EXTENDS Integers, Sequences

CONSTANTS Pre, Event, Ev

VARIABLES
    log,     \* by prefix, the events in first-seen order
    chain    \* by prefix, the authoritative events, that of sn at sn + 1

vars == <<log, chain>>

Last(s) == s[Len(s)]

Fresh(p, e) == \A i \in DOMAIN log[p] : log[p][i] # e

Begin(p, e) ==
    /\ chain[p] = <<>>
    /\ Ev[e].ilk = "icp" /\ Ev[e].sn = 0
    /\ chain' = [chain EXCEPT ![p] = <<e>>]

Extend(p, e) ==
    /\ chain[p] # <<>>
    /\ Ev[e].ilk # "icp" /\ Ev[e].sn = Len(chain[p]) /\ Ev[e].prior = Last(chain[p])
    /\ chain' = [chain EXCEPT ![p] = Append(@, e)]

Supersede(p, e) ==
    LET kept == SubSeq(chain[p], 1, Ev[e].sn) IN
    /\ Ev[e].ilk = "rot" /\ Ev[e].sn \in 1..(Len(chain[p]) - 1)
    /\ Ev[e].prior = Last(kept)
    /\ \A i \in (Ev[e].sn + 1)..Len(chain[p]) : Ev[chain[p][i]].ilk = "ixn"
    /\ chain' = [chain EXCEPT ![p] = Append(kept, e)]

Init == log = [p \in Pre |-> <<>>] /\ chain = [p \in Pre |-> <<>>]

Next ==
    \E p \in Pre : \E e \in {x \in Event : Ev[x].pre = p} :
        /\ Fresh(p, e)
        /\ log' = [log EXCEPT ![p] = Append(@, e)]
        /\ Begin(p, e) \/ Extend(p, e) \/ Supersede(p, e)

Spec == Init /\ [][Next]_vars
==============================================================================
