------------------------------- MODULE Mailbox -------------------------------
(***************************************************************************)
(* Store-and-forward delivery, from the sender's outbox through the        *)
(* recipient's mailbox providers to the recipient's pollers.               *)
(*                                                                         *)
(* Sending tries every mailbox once and queues the ones that failed; the   *)
(* posters of the sender, possibly two processes over one outbox, retry    *)
(* what a pass found pending, and wait for each answer between reading a   *)
(* row and marking it.  A provider keeps an ordinal index of digests and   *)
(* the bodies by digest.  A reader moves its durable cursor when the       *)
(* answer is in, and processes the batch afterwards.                       *)
(*                                                                         *)
(* The sender is configured with an outbox.  Without one it forgets the    *)
(* mailboxes that failed once one took the message, and throws otherwise.  *)
(***************************************************************************)
EXTENDS Integers, Sequences, FiniteSets, SequencesExt

CONSTANTS
    Message,    \* signed messages for one recipient and topic
    Box,        \* the recipient's mailbox providers
    Poster,     \* processes that retry from the sender's outbox
    None,       \* no row, no job, and a message whose end was cut off
    MaxFaults,  \* bound: deliveries that fail or whose answer is lost
    MaxLosses   \* bound: stops of the reader, and answers cut inside a message

ASSUME MailboxAssumption ==
    /\ None \notin Message \cup Box \cup {"pending", "delivered", "cancelled"}
    /\ Poster # {}
    /\ MaxFaults \in Nat /\ MaxLosses \in Nat

VARIABLES
    allowed,   \* mailboxes the sender believes authorized
    serves,    \* mailboxes authorized at their provider
    todo,      \* endpoints a send in progress has still to try
    failed,    \* endpoints it tried in vain
    sent,      \* messages whose send returned
    body,      \* messages and their records kept in the outbox
    tgts,      \* the state of each target row of the outbox
    seen,      \* rows a poster's pass has still to look at
    job,       \* the row a poster waits for, and what came of it
    dead,      \* posters whose loop ended with an error
    topic,     \* the ordinal index of each provider
    bodies,    \* messages whose body the provider keeps
    cursor,    \* next index wanted by the recipient of each provider
    batch,     \* messages its reader has retrieved and not processed
    ingested,  \* messages the recipient has processed
    faults, losses

outbox == <<body, tgts>>
posters == <<seen, job, dead>>
provider == <<topic, bodies>>
recipient == <<cursor, batch, ingested, losses>>
vars == <<allowed, serves, todo, failed, sent, outbox, posters, provider,
          recipient, faults>>

Pending == {t \in Message \X Box : tgts[t] = "pending"}
Rows(m) == {t \in {m} \X Box : tgts[t] # None}

------------------------------------------------------------------------------
(* Delivery to a provider *)

(* Mailboxer.storeMsg: the digest is appended, then the body is kept.      *)
Indexed(m, b) == topic' = [topic EXCEPT ![b] = Append(@, m)]
Stored(m, b) == Indexed(m, b) /\ bodies' = [bodies EXCEPT ![b] = @ \cup {m}]

(* ForwardHandler.handle: a host that no longer serves the recipient drops *)
(* the message and answers as usual.                                       *)
Handled(m, b) == IF b \in serves THEN Stored(m, b) ELSE UNCHANGED provider

(* postCesrMessage: the request or its answer may be lost, and the         *)
(* provider may stop between the two writes.                               *)
Deliver(m, b, ok) ==
    \/ ok /\ Handled(m, b) /\ UNCHANGED faults
    \/ /\ ~ok /\ faults < MaxFaults /\ faults' = faults + 1
       /\ \/ UNCHANGED provider
          \/ b \in serves /\ Indexed(m, b) /\ UNCHANGED bodies
          \/ b \in serves /\ Stored(m, b)

------------------------------------------------------------------------------
(* Sending: Poster.sendExchange, Poster.sendBytes *)

BeginSend(m) ==
    /\ m \notin sent /\ todo[m] = {} /\ failed[m] = {} /\ allowed # {}
    /\ todo' = [todo EXCEPT ![m] = allowed]
    /\ UNCHANGED <<allowed, serves, failed, sent, outbox, posters, provider, recipient, faults>>

(* queueMessage, markFailed: rows for the endpoints that failed only.      *)
Queue(m, eids) ==
    /\ body' = IF eids = {} THEN body ELSE body \cup {m}
    /\ tgts' = [t \in DOMAIN tgts |-> IF t \in {m} \X eids THEN "pending" ELSE tgts[t]]

SendTo(m, b, ok) ==
    LET missed == IF ok THEN failed[m] ELSE failed[m] \cup {b}
        last == todo[m] = {b} IN
    /\ b \in todo[m]
    /\ Deliver(m, b, ok)
    /\ todo' = [todo EXCEPT ![m] = @ \ {b}]
    /\ failed' = [failed EXCEPT ![m] = missed]
    /\ sent' = IF last THEN sent \cup {m} ELSE sent
    /\ IF last THEN Queue(m, missed) ELSE UNCHANGED outbox
    /\ UNCHANGED <<allowed, serves, posters, recipient>>

------------------------------------------------------------------------------
(* Retrying: Poster.processPending *)

(* A pass iterates over the rows as they were when it began.               *)
BeginPass(p) ==
    /\ p \notin dead /\ seen[p] = {} /\ job[p] = None /\ Pending # {}
    /\ seen' = [seen EXCEPT ![p] = Pending]
    /\ UNCHANGED <<allowed, serves, todo, failed, sent, outbox, job, dead, provider, recipient, faults>>

\* Mistake: the message is removed as soon as one target is settled.
CompleteAtOnce(m, t) == TRUE

(* pruneIfComplete: no other row of the message is pending.                *)
Complete(m, t) == \A r \in Rows(m) \ {t} : tgts[r] # "pending"

(* pinTarget with a terminal status, and the pruning that follows it.      *)
Settled(t, status) ==
    IF Complete(t[1], t)
    THEN /\ body' = body \ {t[1]}
         /\ tgts' = [r \in DOMAIN tgts |-> IF r[1] = t[1] THEN None ELSE tgts[r]]
    ELSE /\ tgts' = [tgts EXCEPT ![t] = status]
         /\ UNCHANGED body

(* requireTarget: marking a row that is gone ends the loop with an error.  *)
Fails(p) == dead' = dead \cup {p} /\ UNCHANGED outbox

\* Mistake: a pass looks its messages up when it begins.
PresentAtFirst(t) == TRUE

(* iterPending looks each message up when it comes to its row.             *)
Present(t) == t[1] \in body

(* A row whose message is gone is passed over; a removed mailbox cancels.  *)
PassOver(p, t) ==
    /\ t \in seen[p] /\ job[p] = None /\ p \notin dead
    /\ ~Present(t) \/ t[2] \notin allowed
    /\ seen' = [seen EXCEPT ![p] = @ \ {t}]
    /\ IF ~Present(t) THEN UNCHANGED <<outbox, dead>>
       ELSE IF tgts[t] = None THEN Fails(p)
       ELSE Settled(t, "cancelled") /\ UNCHANGED dead
    /\ UNCHANGED <<allowed, serves, todo, failed, sent, job, provider, recipient, faults>>

Retry(p, t, ok) ==
    /\ t \in seen[p] /\ job[p] = None /\ p \notin dead
    /\ Present(t) /\ t[2] \in allowed
    /\ Deliver(t[1], t[2], ok)
    /\ seen' = [seen EXCEPT ![p] = @ \ {t}]
    /\ job' = [job EXCEPT ![p] = [row |-> t, ok |-> ok]]
    /\ UNCHANGED <<allowed, serves, todo, failed, sent, outbox, dead, recipient>>

(* markDelivered or markFailed once the answer is in, or is not.           *)
Mark(p) ==
    /\ job[p] # None
    /\ job' = [job EXCEPT ![p] = None]
    /\ LET t == job[p].row IN
       IF tgts[t] = None THEN Fails(p)
       ELSE /\ UNCHANGED dead
            /\ IF job[p].ok THEN Settled(t, "delivered")
               ELSE tgts' = [tgts EXCEPT ![t] = "pending"] /\ UNCHANGED body
    /\ UNCHANGED <<allowed, serves, todo, failed, sent, seen, provider, recipient, faults>>

------------------------------------------------------------------------------
(* The recipient gives a mailbox up; the sender learns of it later.        *)
RemoveMailbox(b) ==
    /\ b \in serves /\ serves' = serves \ {b}
    /\ UNCHANGED <<allowed, todo, failed, sent, outbox, posters, provider, recipient, faults>>

LearnRemoval(b) ==
    /\ b \in allowed \ serves /\ allowed' = allowed \ {b}
    /\ UNCHANGED <<serves, todo, failed, sent, outbox, posters, provider, recipient, faults>>

------------------------------------------------------------------------------
(* Polling: MailboxPoller, MailboxDirector *)

\* Mistake: the cursor is taken for the last index seen.
AskedAfter(b) == cursor[b] + 1

(* mailboxQueryTopics: the query asks from the next index wanted.          *)
Asked(b) == cursor[b]

(* topicIter: the indices from the one asked for whose body is kept.       *)
Readable(b, to) ==
    LET upTo[i \in (Asked(b) - 1)..to] ==
            IF i < Asked(b) THEN <<>>
            ELSE IF topic[b][i] \in bodies[b] THEN Append(upTo[i - 1], i) ELSE upTo[i - 1]
    IN upTo[to]

\* Mistake: the cursor is set to the length of the topic.
NextToEnd(b, is) == Len(topic[b]) + 1

(* updateRemoteCursor of each message: one past the last retrieved.        *)
NextWanted(b, is) == is[Len(is)] + 1

(* readMailboxSseBody, parseMailboxSse: what comes in before the idle or   *)
(* read limit counts, a message it ends within included, as any block with *)
(* an index, a topic and the beginning of its data is taken.               *)
Retrieved(b, is, cut) ==
    [k \in 1..Len(is) |-> IF cut /\ k = Len(is) THEN None ELSE topic[b][is[k]]]

(* pollRemoteEndpointOnce: the query asks from the cursor, and the cursor  *)
(* moves with the answer.                                                  *)
Poll(b, to, cut) ==
    \E is \in {Readable(b, to)} :
        /\ b \in serves /\ is # <<>> /\ (cut => losses < MaxLosses)
        /\ cursor' = [cursor EXCEPT ![b] = NextWanted(b, is)]
        /\ batch' = batch \o Retrieved(b, is, cut)
        /\ losses' = IF cut THEN losses + 1 ELSE losses
        /\ UNCHANGED <<allowed, serves, todo, failed, sent, outbox, posters, provider,
                       ingested, faults>>

(* settleMailboxPollBatch: a part of a message throws out of the loop.     *)
Settle ==
    /\ batch # <<>>
    /\ IF Head(batch) = None
       THEN batch' = <<>> /\ UNCHANGED ingested
       ELSE ingested' = ingested \cup {Head(batch)} /\ batch' = Tail(batch)
    /\ UNCHANGED <<allowed, serves, todo, failed, sent, outbox, posters, provider,
                   cursor, losses, faults>>

(* The reader stops with what it retrieved, and starts again.              *)
StopReader ==
    /\ batch # <<>> /\ losses < MaxLosses /\ losses' = losses + 1
    /\ batch' = <<>>
    /\ UNCHANGED <<allowed, serves, todo, failed, sent, outbox, posters, provider,
                   cursor, ingested, faults>>

------------------------------------------------------------------------------
Init ==
    /\ allowed = Box /\ serves = Box
    /\ todo = [m \in Message |-> {}] /\ failed = [m \in Message |-> {}] /\ sent = {}
    /\ body = {} /\ tgts = [t \in Message \X Box |-> None]
    /\ seen = [p \in Poster |-> {}] /\ job = [p \in Poster |-> None] /\ dead = {}
    /\ topic = [b \in Box |-> <<>>] /\ bodies = [b \in Box |-> {}]
    /\ cursor = [b \in Box |-> 1] /\ batch = <<>> /\ ingested = {}
    /\ faults = 0 /\ losses = 0

PosterStep(p) ==
    \/ BeginPass(p) \/ Mark(p)
    \/ \E t \in seen[p] : PassOver(p, t) \/ \E ok \in BOOLEAN : Retry(p, t, ok)

ReaderStep ==
    \/ Settle
    \/ \E b \in Box, cut \in BOOLEAN : \E to \in cursor[b]..Len(topic[b]) : Poll(b, to, cut)

SendStep(m) == \E b \in todo[m], ok \in BOOLEAN : SendTo(m, b, ok)

Next ==
    \/ \E m \in Message : BeginSend(m) \/ SendStep(m)
    \/ \E p \in Poster : PosterStep(p)
    \/ \E b \in Box : RemoveMailbox(b) \/ LearnRemoval(b)
    \/ ReaderStep \/ StopReader

Spec == Init /\ [][Next]_vars

(***************************************************************************)
(* runAgentRuntime turns every loop again and again, and a bounded number  *)
(* of deliveries fail.                                                     *)
(***************************************************************************)
Fairness == WF_vars(ReaderStep) /\ \A p \in Poster : WF_vars(PosterStep(p))

FairSpec == Spec /\ Fairness

------------------------------------------------------------------------------
(* What must hold *)

(***************************************************************************)
(* sendExchange, processPending, pruneIfComplete: a message whose send     *)
(* returned is kept by every mailbox that serves the recipient, or waits   *)
(* in the outbox to be retried there, whatever two posters did to it.      *)
(***************************************************************************)
SentIsKept ==
    \A m \in sent, b \in serves :
        \/ m \in bodies[b] /\ Contains(topic[b], m)
        \/ m \in body /\ tgts[<<m, b>>] = "pending"

(***************************************************************************)
(* requireTarget: a poster whose row another one pruned fails; of posters  *)
(* that share an outbox, one always goes on.                               *)
(***************************************************************************)
OnePosterSurvives == dead # Poster

(***************************************************************************)
(* updateRemoteCursor, topicIter: while the reader never stops and no answer is *)
(* cut, everything below the durable cursor was processed, is about to be, *)
(* or will be retrieved at a later index.                                  *)
(***************************************************************************)
NothingSkipped ==
    losses = 0 =>
        \A b \in Box : \A i \in 1..(cursor[b] - 1) :
            \/ topic[b][i] \in ingested \cup Range(batch)
            \/ topic[b][i] \notin bodies[b]
            \/ \E j \in cursor[b]..Len(topic[b]) : topic[b][j] = topic[b][i]

(***************************************************************************)
(* The whole path: a message whose send returned is processed by the       *)
(* recipient, unless it gave up its mailboxes, or a reader stopped or was  *)
(* cut off between the cursor and the processing.                          *)
(***************************************************************************)
SentIsRead ==
    \A m \in Message :
        m \in sent ~> (m \in ingested \/ serves = {} \/ losses > 0)
==============================================================================
