------------------------------ MODULE MCMailbox ------------------------------
(***************************************************************************)
(* Two posters over one outbox, deliveries that fail or whose answers are  *)
(* lost, and mailboxes given up at any time: a second message for two      *)
(* mailboxes whose first one was read, or for the only mailbox left, whose *)
(* first one was not.                                                      *)
(***************************************************************************)
EXTENDS Mailbox

CONSTANTS early, b1

EarlyInit ==
    \E boxes \in {Box, {b1}} :
        /\ allowed = boxes /\ serves = boxes
        /\ todo = [m \in Message |-> {}] /\ failed = [m \in Message |-> {}]
        /\ sent = {early}
        /\ body = {} /\ tgts = [t \in Message \X Box |-> None]
        /\ seen = [p \in Poster |-> {}] /\ job = [p \in Poster |-> None] /\ dead = {}
        /\ topic = [b \in Box |-> <<early>>] /\ bodies = [b \in Box |-> {early}]
        /\ cursor = [b \in Box |-> IF boxes = Box THEN 2 ELSE 1]
        /\ batch = <<>> /\ ingested = IF boxes = Box THEN {early} ELSE {}
        /\ faults = 0 /\ losses = 0

EarlySpec == EarlyInit /\ [][Next]_vars /\ Fairness
==============================================================================
