---------------------------- MODULE MailboxProofs ----------------------------
(***************************************************************************)
(* Proofs about an outbox that any number of posters share, for any        *)
(* messages and mailboxes: a message sent is never lost on its way, and    *)
(* one of the posters always goes on; and about the reader: its durable    *)
(* cursor passes over nothing it could still have retrieved.               *)
(***************************************************************************)
EXTENDS Mailbox, SequenceTheorems, WellFoundedInduction, TLAPS

Row == Message \X Box
Status == {"pending", "delivered", "cancelled"}
Job == [row : Row, ok : BOOLEAN]

(* The provider b keeps the message, its place and its body.               *)
Keeps(m, b) == m \in bodies[b] /\ Contains(topic[b], m)

(* The outbox keeps it, to be tried there again.                           *)
Queued(m, b) == m \in body /\ tgts[<<m, b>>] = "pending"

------------------------------------------------------------------------------
(* The inductive invariant *)

Types ==
    /\ allowed \subseteq Box /\ serves \subseteq allowed
    /\ todo \in [Message -> SUBSET Box] /\ failed \in [Message -> SUBSET Box]
    /\ sent \subseteq Message /\ body \subseteq sent
    /\ tgts \in [Row -> Status \cup {None}]
    /\ seen \in [Poster -> SUBSET Row]
    /\ job \in [Poster -> Job \cup {None}] /\ dead \subseteq Poster
    /\ topic \in [Box -> Seq(Message)] /\ bodies \in [Box -> SUBSET Message]

(* A message is queued once, when its send returns.                        *)
QueuedOnce ==
    \A m \in Message :
        /\ m \in sent => todo[m] = {}
        /\ m \notin sent => \A b \in Box : tgts[<<m, b>>] = None

(* A row in a pass is still there, or its message is gone for good.        *)
SeenRows ==
    \A p \in Poster : \A t \in seen[p] :
        t[1] \in sent /\ (t[1] \in body => tgts[t] # None)

Waiting == \A p \in Poster : job[p] # None => p \notin dead

(* A poster whose next mark does not end it.                               *)
Lives(p) == p \notin dead /\ (job[p] = None \/ tgts[job[p].row] # None)

OneLives == \E p \in Poster : Lives(p)

(* What was answered was kept, by a provider that serves the recipient.    *)
Delivered ==
    \A p \in Poster : job[p] # None /\ job[p].ok /\ job[p].row[2] \in serves =>
        Keeps(job[p].row[1], job[p].row[2])

Sending ==
    \A m \in Message : todo[m] # {} =>
        \A b \in serves : b \in todo[m] \/ b \in failed[m] \/ Keeps(m, b)

Posters == QueuedOnce /\ SeenRows /\ Waiting /\ OneLives
Messages == Delivered /\ Sending /\ SentIsKept
Inv == Types /\ Posters /\ Messages

(* The part of the state the invariant is about.                           *)
core == <<allowed, serves, todo, failed, sent, body, tgts, seen, job, dead, topic, bodies>>

------------------------------------------------------------------------------
(* What the parts of a step do *)

(* storeMsg, whether or not it came to its second write, loses nothing.    *)
LEMMA DeliverKeeps ==
    ASSUME Types, NEW m \in Message, NEW b \in Box, NEW ok, Deliver(m, b, ok)
    PROVE  /\ topic' \in [Box -> Seq(Message)] /\ bodies' \in [Box -> SUBSET Message]
           /\ \A n \in Message, c \in Box : Keeps(n, c) => Keeps(n, c)'
           /\ ok /\ b \in serves => Keeps(m, b)'
<1> DEFINE longer == [topic EXCEPT ![b] = Append(@, m)]
           fuller == [bodies EXCEPT ![b] = @ \cup {m}]
<1>a. topic[b] \in Seq(Message) /\ bodies[b] \subseteq Message
  BY DEF Types
<1>b. longer \in [Box -> Seq(Message)] /\ fuller \in [Box -> SUBSET Message]
  BY <1>a DEF Types
<1>c. \A c \in Box : bodies[c] \subseteq fuller[c] /\ m \in fuller[b]
  BY DEF Types
<1>d. longer[b] = Append(topic[b], m) /\ \A c \in Box : c # b => longer[c] = topic[c]
  BY DEF Types
<1>e. Contains(Append(topic[b], m), m)
  BY <1>a DEF Contains
<1>f. \A n \in Message : Contains(topic[b], n) => Contains(Append(topic[b], m), n)
  BY <1>a DEF Contains
<1> HIDE DEF longer, fuller
<1>1. /\ longer \in [Box -> Seq(Message)] /\ fuller \in [Box -> SUBSET Message]
      /\ \A n \in Message, c \in Box : Contains(topic[c], n) => Contains(longer[c], n)
      /\ \A c \in Box : bodies[c] \subseteq fuller[c]
      /\ Contains(longer[b], m) /\ m \in fuller[b]
  BY <1>b, <1>c, <1>d, <1>e, <1>f
<1>2. topic' \in {topic, longer} /\ bodies' \in {bodies, fuller}
  BY DEF Deliver, Handled, Stored, Indexed, provider, longer, fuller
<1>3. ok /\ b \in serves => topic' = longer /\ bodies' = fuller
  BY DEF Deliver, Handled, Stored, Indexed, longer, fuller
<1>4. /\ topic' \in [Box -> Seq(Message)] /\ bodies' \in [Box -> SUBSET Message]
      /\ \A n \in Message, c \in Box : Keeps(n, c) => Keeps(n, c)'
  BY <1>1, <1>2 DEF Types, Keeps
<1> QED BY <1>1, <1>3, <1>4 DEF Keeps

(* pruneIfComplete: rows are removed with the body of their message only.  *)
LEMMA SettledRows ==
    ASSUME Types, NEW t \in Row, NEW status \in Status, Settled(t, status)
    PROVE  /\ body' \subseteq body /\ tgts' \in [Row -> Status \cup {None}]
           /\ tgts[t] # None =>
                 \A r \in Row : tgts'[r] = None => tgts[r] = None \/ r[1] \notin body'
           /\ \A r \in Row : r[1] # t[1] => tgts'[r] = tgts[r] /\ (r[1] \in body => r[1] \in body')
           /\ \A b \in Box : b # t[2] /\ Queued(t[1], b) => Queued(t[1], b)'
           /\ \A r \in Row : r[1] # t[1] /\ Queued(r[1], r[2]) => Queued(r[1], r[2])'
<1>1. CASE Complete(t[1], t)
  <2>1. /\ body' = body \ {t[1]}
        /\ tgts' = [r \in Row |-> IF r[1] = t[1] THEN None ELSE tgts[r]]
    BY <1>1 DEF Settled, Types
  <2>2. \A b \in Box : b # t[2] => tgts[<<t[1], b>>] # "pending"
    BY <1>1, MailboxAssumption DEF Complete, Rows, Row
  <2> QED BY <2>1, <2>2 DEF Types, Row, Queued
<1>2. CASE ~Complete(t[1], t)
  <2>1. body' = body /\ tgts' = [tgts EXCEPT ![t] = status]
    BY <1>2 DEF Settled
  <2>2. status # None
    BY MailboxAssumption DEF Status
  <2> QED BY <2>1, <2>2 DEF Types, Row, Queued
<1> QED BY <1>1, <1>2

------------------------------------------------------------------------------
(* One step of each kind *)

LEMMA InitInv == ASSUME Init PROVE Inv
<1> USE DEF Init
<1>1. Types
  BY DEF Types, Row
<1>2. Posters
  <2>1. PICK p \in Poster : TRUE
    BY MailboxAssumption
  <2>2. Lives(p)
    BY <2>1 DEF Lives
  <2> QED BY <2>2 DEF Posters, QueuedOnce, SeenRows, Waiting, OneLives
<1>3. Messages
  BY DEF Messages, Delivered, Sending, SentIsKept
<1> QED BY <1>1, <1>2, <1>3 DEF Inv

LEMMA BeginSendStep == ASSUME Inv, NEW m \in Message, BeginSend(m) PROVE Inv'
<1> USE DEF Inv, BeginSend, outbox, posters, provider, recipient
<1>1. Types'
  BY DEF Types
<1>2. Posters'
  BY <1>1 DEF Types, Posters, QueuedOnce, SeenRows, Waiting, OneLives, Lives
<1>3. Messages'
  BY DEF Types, Messages, Delivered, Sending, SentIsKept, Keeps
<1> QED BY <1>1, <1>2, <1>3

(* The last answer of a send queues what failed and ends the send.         *)
LEMMA SendToStep ==
    ASSUME Inv, NEW m \in Message, NEW b \in Box, NEW ok, SendTo(m, b, ok)
    PROVE  Inv'
<1> DEFINE missed == IF ok THEN failed[m] ELSE failed[m] \cup {b}
<1> USE DEF Inv
<1>1. /\ b \in todo[m] /\ Deliver(m, b, ok)
      /\ todo' = [todo EXCEPT ![m] = @ \ {b}] /\ failed' = [failed EXCEPT ![m] = missed]
      /\ UNCHANGED <<allowed, serves, seen, job, dead>>
  BY DEF SendTo, posters
<1>2. /\ topic' \in [Box -> Seq(Message)] /\ bodies' \in [Box -> SUBSET Message]
      /\ \A n \in Message, c \in Box : Keeps(n, c) => Keeps(n, c)'
      /\ ok /\ b \in serves => Keeps(m, b)'
  BY <1>1, DeliverKeeps
<1>3. m \notin sent /\ m \notin body /\ \A c \in Box : tgts[<<m, c>>] = None
  BY <1>1 DEF Posters, QueuedOnce, Types
<1>4. todo[m] \subseteq Box /\ failed[m] \subseteq Box /\ missed \subseteq Box
  BY DEF Types
<1>5. todo' \in [Message -> SUBSET Box] /\ failed' \in [Message -> SUBSET Box]
  BY <1>1, <1>4 DEF Types
<1>6. \A c \in serves : c \in todo[m] \ {b} \/ c \in missed \/ Keeps(m, c)'
  BY <1>1, <1>2 DEF Messages, Sending, Types
<1>7. CASE todo[m] = {b}
  <2>1. sent' = sent \cup {m} /\ Queue(m, missed)
    BY <1>7 DEF SendTo
  <2>2. /\ body \subseteq body' /\ body' \subseteq body \cup {m} /\ (missed # {} => m \in body')
        /\ tgts' = [t \in Row |-> IF t \in {m} \X missed THEN "pending" ELSE tgts[t]]
    BY <2>1 DEF Queue, Types
  <2>3. /\ tgts' \in [Row -> Status \cup {None}]
        /\ \A c \in missed : tgts'[<<m, c>>] = "pending" /\ m \in body'
        /\ \A r \in Row : r[1] # m => tgts'[r] = tgts[r]
        /\ \A r \in Row : tgts[r] # None => tgts'[r] # None
    <3> HIDE DEF missed
    <3>1. \A t \in Row : t = <<t[1], t[2]>> /\ "pending" \in Status /\ "pending" # None
      BY MailboxAssumption DEF Row, Status
    <3> QED BY <3>1, <2>2, <1>4 DEF Row, Types
  <2>4. Types'
    BY <2>1, <2>2, <2>3, <1>1, <1>2, <1>5 DEF Types
  <2>5. QueuedOnce'
    BY <2>1, <2>3, <1>1, <1>7 DEF Posters, QueuedOnce, Row, Types
  <2>6. SeenRows'
    BY <2>1, <2>2, <2>3, <1>1, <1>3 DEF Posters, SeenRows, Types
  <2>7. Waiting' /\ OneLives'
    <3>1. PICK p \in Poster : Lives(p)
      BY DEF Posters, OneLives
    <3>2. job[p] # None => job[p].row \in Row
      BY DEF Types, Job
    <3> QED BY <3>1, <3>2, <2>3, <1>1 DEF Posters, Waiting, OneLives, Lives
  <2>8. Delivered'
    <3>1. \A p \in Poster : job[p] # None => job[p].row[1] \in Message /\ job[p].row[2] \in Box
      BY DEF Types, Job, Row
    <3> QED BY <3>1, <1>1, <1>2 DEF Messages, Delivered
  <2>9. Sending'
    BY <1>1, <1>2, <1>6, <1>7 DEF Messages, Sending, Types
  <2>10. SentIsKept'
    <3> SUFFICES ASSUME NEW n \in sent', NEW c \in serves'
                 PROVE  (Keeps(n, c) \/ Queued(n, c))'
      BY DEF SentIsKept, Keeps, Queued
    <3>1. CASE n = m
      <4>1. c \in missed \/ Keeps(m, c)'
        BY <1>1, <1>6, <1>7
      <4> QED BY <3>1, <4>1, <2>3 DEF Queued
    <3>2. CASE n # m
      <4>1. n \in sent /\ c \in serves /\ <<n, c>> \in Row /\ n \in Message /\ c \in Box
        BY <3>2, <2>1, <1>1 DEF Types, Row
      <4>2. Keeps(n, c) \/ Queued(n, c)
        BY <4>1 DEF Messages, SentIsKept, Keeps, Queued
      <4>3. tgts'[<<n, c>>] = tgts[<<n, c>>]
        BY <4>1, <3>2, <2>3
      <4>4. Keeps(n, c) => Keeps(n, c)'
        BY <4>1, <1>2
      <4> QED BY <4>2, <4>3, <4>4, <2>2 DEF Queued
    <3> QED BY <3>1, <3>2
  <2> QED BY <2>4, <2>5, <2>6, <2>7, <2>8, <2>9, <2>10 DEF Posters, Messages
<1>8. CASE todo[m] # {b}
  <2>1. UNCHANGED <<sent, body, tgts>> /\ todo'[m] # {}
    BY <1>1, <1>4, <1>8 DEF SendTo, outbox, Types
  <2>2. Types'
    BY <2>1, <1>1, <1>2, <1>5 DEF Types
  <2>3. Posters'
    BY <2>1, <1>1, <1>3 DEF Posters, QueuedOnce, SeenRows, Waiting, OneLives, Lives, Types
  <2>4. Delivered'
    <3>1. \A p \in Poster : job[p] # None => job[p].row[1] \in Message /\ job[p].row[2] \in Box
      BY DEF Types, Job, Row
    <3> QED BY <3>1, <1>1, <1>2 DEF Messages, Delivered
  <2>5. Sending'
    BY <1>1, <1>2, <1>6 DEF Messages, Sending, Types
  <2>6. SentIsKept'
    BY <2>1, <1>1, <1>2 DEF Messages, SentIsKept, Keeps, Types
  <2> QED BY <2>2, <2>3, <2>4, <2>5, <2>6 DEF Messages
<1> QED BY <1>7, <1>8

LEMMA BeginPassStep == ASSUME Inv, NEW p \in Poster, BeginPass(p) PROVE Inv'
<1> USE DEF Inv, BeginPass, outbox, posters, provider, recipient
<1>1. Pending \subseteq Row /\ \A t \in Pending : tgts[t] # None
  BY MailboxAssumption DEF Pending, Row
<1>2. \A t \in Pending : t[1] \in sent
  BY <1>1 DEF Posters, QueuedOnce, Row
<1>3. Types'
  BY <1>1 DEF Types
<1>4. Posters'
  BY <1>1, <1>2 DEF Types, Posters, QueuedOnce, SeenRows, Waiting, OneLives, Lives
<1>5. Messages'
  BY DEF Messages, Delivered, Sending, SentIsKept, Keeps
<1> QED BY <1>3, <1>4, <1>5

(* A row passed over loses only a mailbox the recipient gave up.           *)
LEMMA PassOverStep ==
    ASSUME Inv, NEW p \in Poster, NEW t, PassOver(p, t)
    PROVE  Inv'
<1> USE DEF Inv
<1>1. /\ t \in seen[p] /\ job[p] = None /\ p \notin dead /\ t \in Row /\ t[1] \in sent
      /\ seen' = [seen EXCEPT ![p] = @ \ {t}]
      /\ UNCHANGED <<allowed, serves, todo, failed, sent, job, topic, bodies>>
  BY DEF PassOver, provider, Types, Posters, SeenRows
<1>2. CASE t[1] \notin body
  <2>1. UNCHANGED <<body, tgts, dead>>
    BY <1>2 DEF PassOver, Present, outbox
  <2>2. Types'
    BY <1>1, <2>1 DEF Types
  <2>3. Posters'
    BY <1>1, <2>1 DEF Types, Posters, QueuedOnce, SeenRows, Waiting, OneLives, Lives
  <2>4. Messages'
    BY <1>1, <2>1 DEF Messages, Delivered, Sending, SentIsKept, Keeps
  <2> QED BY <2>2, <2>3, <2>4
<1>3. CASE t[1] \in body
  <2>1. tgts[t] # None
    BY <1>1, <1>3 DEF Posters, SeenRows
  <2>2. Settled(t, "cancelled") /\ dead' = dead /\ t[2] \notin serves
    BY <1>3, <2>1 DEF PassOver, Present, Types
  <2> DEFINE S == /\ body' \subseteq body /\ tgts' \in [Row -> Status \cup {None}]
                  /\ \A r \in Row : tgts'[r] = None => tgts[r] = None \/ r[1] \notin body'
                  /\ \A r \in Row : r[1] # t[1] => tgts'[r] = tgts[r] /\ (r[1] \in body => r[1] \in body')
                  /\ \A b \in Box : b # t[2] /\ Queued(t[1], b) => Queued(t[1], b)'
                  /\ \A r \in Row : r[1] # t[1] /\ Queued(r[1], r[2]) => Queued(r[1], r[2])'
  <2>3. S
    BY <1>1, <2>1, <2>2, SettledRows DEF Status
  <2>4. Types'
    BY <1>1, <2>2, <2>3 DEF Types
  <2>5. QueuedOnce'
    BY <1>1, <2>3 DEF Posters, QueuedOnce, Row
  <2>6. SeenRows'
    BY <1>1, <2>3 DEF Posters, SeenRows, Types
  <2>7. Waiting' /\ OneLives'
    BY <1>1, <2>2 DEF Posters, Waiting, OneLives, Lives
  <2>8. Delivered' /\ Sending'
    BY <1>1 DEF Messages, Delivered, Sending, Keeps
  <2>9. SentIsKept'
    <3> SUFFICES ASSUME NEW n \in sent, NEW c \in serves
                 PROVE  (Keeps(n, c) \/ Queued(n, c))'
      BY <1>1 DEF SentIsKept, Keeps, Queued
    <3>1. (Keeps(n, c) \/ Queued(n, c)) /\ (Keeps(n, c) => Keeps(n, c)')
      BY <1>1 DEF Messages, SentIsKept, Keeps, Queued
    <3>2. n \in Message /\ c \in Box /\ <<n, c>> \in Row
      BY DEF Types, Row
    <3>3. Queued(n, c) => Queued(n, c)'
      BY <2>2, <2>3, <3>2
    <3> QED BY <3>1, <3>3
  <2> QED BY <2>4, <2>5, <2>6, <2>7, <2>8, <2>9 DEF Posters, Messages
<1> QED BY <1>2, <1>3

(* Whether the answer comes or not, the row waited for is there.           *)
LEMMA RetryStep ==
    ASSUME Inv, NEW p \in Poster, NEW t, NEW ok \in BOOLEAN, Retry(p, t, ok)
    PROVE  Inv'
<1> DEFINE now == [row |-> t, ok |-> ok]
<1> USE DEF Inv
<1>1. /\ t \in seen[p] /\ p \notin dead /\ t \in Row /\ t[1] \in body
      /\ Deliver(t[1], t[2], ok)
      /\ seen' = [seen EXCEPT ![p] = @ \ {t}]
      /\ job' = [job EXCEPT ![p] = now]
      /\ UNCHANGED <<allowed, serves, todo, failed, sent, body, tgts, dead>>
  BY DEF Retry, Present, outbox, Types
<1>2. t[1] \in Message /\ t[2] \in Box /\ tgts[t] # None
  BY <1>1 DEF Row, Posters, SeenRows
<1>3. /\ topic' \in [Box -> Seq(Message)] /\ bodies' \in [Box -> SUBSET Message]
      /\ \A n \in Message, c \in Box : Keeps(n, c) => Keeps(n, c)'
      /\ ok /\ t[2] \in serves => Keeps(t[1], t[2])'
  BY <1>1, <1>2, DeliverKeeps
<1>4. now \in Job /\ now.row = t /\ now.ok = ok
  BY <1>1 DEF Job
<1> HIDE DEF now
<1>5. /\ job' \in [Poster -> Job \cup {None}] /\ job'[p] = now
      /\ \A q \in Poster : q # p => job'[q] = job[q]
  BY <1>1, <1>4 DEF Types
<1>6. Types'
  BY <1>1, <1>3, <1>5 DEF Types
<1>7. Posters'
  <2>1. QueuedOnce'
    BY <1>1 DEF Posters, QueuedOnce
  <2>2. SeenRows'
    BY <1>1 DEF Posters, SeenRows, Types
  <2>3. Waiting'
    BY <1>1, <1>5 DEF Posters, Waiting
  <2>4. Lives(p)'
    BY <1>1, <1>2, <1>4, <1>5 DEF Lives
  <2> QED BY <2>1, <2>2, <2>3, <2>4 DEF Posters, OneLives
<1>8. Delivered'
  <2>1. \A q \in Poster : job[q] # None => job[q].row[1] \in Message /\ job[q].row[2] \in Box
    BY DEF Types, Job, Row
  <2> SUFFICES ASSUME NEW q \in Poster, job'[q] # None, job'[q].ok, job'[q].row[2] \in serves
               PROVE  Keeps(job[q].row[1], job[q].row[2])'
    BY <1>1 DEF Delivered, Keeps
  <2>2. CASE q = p
    BY <2>2, <1>2, <1>3, <1>4, <1>5 DEF Keeps
  <2>3. CASE q # p
    <3>1. job'[q] = job[q] /\ Keeps(job[q].row[1], job[q].row[2])
      BY <2>3, <1>5 DEF Messages, Delivered
    <3>2. job[q].row[1] \in Message /\ job[q].row[2] \in Box
      BY <2>1, <3>1
    <3> QED BY <3>1, <3>2, <1>3 DEF Keeps
  <2> QED BY <2>2, <2>3
<1>9. Sending'
  BY <1>1, <1>3 DEF Messages, Sending, Types
<1>10. SentIsKept'
  BY <1>1, <1>3 DEF Messages, SentIsKept, Keeps, Types
<1> QED BY <1>6, <1>7, <1>8, <1>9, <1>10 DEF Messages

(* A mark settles a row, leaves it pending, or ends a poster that another  *)
(* one has outrun: whoever outran it lives.                                *)
LEMMA MarkStep == ASSUME Inv, NEW p \in Poster, Mark(p) PROVE Inv'
<1> USE DEF Inv
<1>0. PICK t \in Row : job[p] # None /\ job[p].row = t
  BY DEF Mark, Types, Job
<1>1. /\ p \notin dead
      /\ job' = [job EXCEPT ![p] = None]
      /\ UNCHANGED <<allowed, serves, todo, failed, sent, seen, topic, bodies>>
  BY DEF Mark, provider, Posters, Waiting
<1>2. job' \in [Poster -> Job \cup {None}] /\ job'[p] = None /\ \A q \in Poster : q # p => job'[q] = job[q]
  BY <1>0, <1>1 DEF Types
<1>3. Delivered' /\ Sending'
  BY <1>1, <1>2 DEF Messages, Delivered, Sending, Keeps
<1>5. CASE tgts[t] = None
  <2>1. dead' = dead \cup {p} /\ UNCHANGED <<body, tgts>>
    BY <1>0, <1>5 DEF Mark, Fails, outbox
  <2>2. Types'
    BY <1>1, <1>2, <2>1 DEF Types
  <2>3. QueuedOnce' /\ SeenRows' /\ Waiting'
    BY <1>1, <1>2, <2>1 DEF Posters, QueuedOnce, SeenRows, Waiting
  <2>4. OneLives'
    <3>1. PICK q \in Poster : Lives(q)
      BY DEF Posters, OneLives
    <3>2. q # p
      BY <3>1, <1>0, <1>1, <1>5 DEF Lives
    <3> QED BY <3>1, <3>2, <1>2, <2>1 DEF OneLives, Lives
  <2>5. SentIsKept'
    BY <1>1, <2>1 DEF Messages, SentIsKept
  <2> QED BY <1>3, <2>2, <2>3, <2>4, <2>5 DEF Posters, Messages
<1>6. CASE tgts[t] # None /\ job[p].ok
  <2>1. Settled(t, "delivered") /\ dead' = dead /\ (t[2] \in serves => Keeps(t[1], t[2]))
    BY <1>0, <1>1, <1>6 DEF Mark, Messages, Delivered
  <2>2. /\ body' \subseteq body /\ tgts' \in [Row -> Status \cup {None}]
        /\ \A r \in Row : tgts'[r] = None => tgts[r] = None \/ r[1] \notin body'
        /\ \A r \in Row : r[1] # t[1] => tgts'[r] = tgts[r] /\ (r[1] \in body => r[1] \in body')
        /\ \A b \in Box : b # t[2] /\ Queued(t[1], b) => Queued(t[1], b)'
        /\ \A r \in Row : r[1] # t[1] /\ Queued(r[1], r[2]) => Queued(r[1], r[2])'
    BY <1>1, <1>6, <2>1, SettledRows DEF Status
  <2>3. t[1] \in sent
    BY <1>1, <1>6 DEF Posters, QueuedOnce, Row
  <2>4. Types'
    BY <1>1, <1>2, <2>1, <2>2 DEF Types
  <2>5. QueuedOnce'
    BY <1>1, <2>2, <2>3 DEF Posters, QueuedOnce, Row
  <2>6. SeenRows'
    BY <1>1, <2>2 DEF Posters, SeenRows, Types
  <2>7. Waiting' /\ OneLives'
    BY <1>1, <1>2, <2>1 DEF Posters, Waiting, OneLives, Lives
  <2>8. SentIsKept'
    <3> SUFFICES ASSUME NEW n \in sent, NEW c \in serves
                 PROVE  (Keeps(n, c) \/ Queued(n, c))'
      BY <1>1 DEF SentIsKept, Keeps, Queued
    <3>1. (Keeps(n, c) \/ Queued(n, c)) /\ (Keeps(n, c) => Keeps(n, c)')
      BY <1>1 DEF Messages, SentIsKept, Keeps, Queued
    <3>2. n \in Message /\ c \in Box /\ <<n, c>> \in Row
      BY DEF Types, Row
    <3>3. n # t[1] \/ c # t[2] => (Queued(n, c) => Queued(n, c)')
      BY <2>2, <3>2
    <3>4. n = t[1] /\ c = t[2] => Keeps(n, c)
      BY <2>1
    <3> QED BY <3>1, <3>3, <3>4
  <2> QED BY <1>3, <2>4, <2>5, <2>6, <2>7, <2>8 DEF Posters, Messages
<1>7. CASE tgts[t] # None /\ ~job[p].ok
  <2>1. tgts' = [tgts EXCEPT ![t] = "pending"] /\ UNCHANGED <<body, dead>>
    BY <1>0, <1>7 DEF Mark
  <2>2. /\ tgts' \in [Row -> Status \cup {None}]
        /\ \A r \in Row : tgts'[r] = IF r = t THEN "pending" ELSE tgts[r]
        /\ \A r \in Row : tgts'[r] = None => tgts[r] = None
    BY <1>1, <2>1, MailboxAssumption DEF Types, Status
  <2>3. t[1] \in sent
    BY <1>1, <1>7 DEF Posters, QueuedOnce, Row
  <2>4. Types'
    BY <1>1, <1>2, <2>1, <2>2 DEF Types
  <2>5. QueuedOnce'
    BY <1>1, <2>2, <2>3 DEF Posters, QueuedOnce, Row
  <2>6. SeenRows'
    BY <1>1, <2>1, <2>2 DEF Posters, SeenRows, Types
  <2>7. Waiting' /\ OneLives'
    BY <1>1, <1>2, <2>1 DEF Posters, Waiting, OneLives, Lives
  <2>8. SentIsKept'
    <3>1. \A n \in sent, c \in serves : <<n, c>> \in Row
      BY DEF Types, Row
    <3> QED BY <1>1, <2>1, <2>2, <3>1 DEF Messages, SentIsKept
  <2> QED BY <1>3, <2>4, <2>5, <2>6, <2>7, <2>8 DEF Posters, Messages
<1> QED BY <1>5, <1>6, <1>7

LEMMA RemoveStep ==
    ASSUME Inv, NEW b \in Box, RemoveMailbox(b) \/ LearnRemoval(b)
    PROVE  Inv'
<1> USE DEF Inv
<1>1. /\ serves' \subseteq serves /\ serves' \subseteq allowed' /\ allowed' \subseteq allowed
      /\ UNCHANGED <<todo, failed, sent, body, tgts, seen, job, dead, topic, bodies>>
  BY DEF RemoveMailbox, LearnRemoval, outbox, posters, provider, Types
<1>2. Types'
  BY <1>1 DEF Types
<1>3. Posters'
  BY <1>1 DEF Posters, QueuedOnce, SeenRows, Waiting, OneLives, Lives
<1>4. Messages'
  BY <1>1 DEF Messages, Delivered, Sending, SentIsKept, Keeps
<1> QED BY <1>2, <1>3, <1>4

(* The recipient's own steps leave the sender and the provider alone.      *)
LEMMA IdleStep == ASSUME Inv, UNCHANGED core PROVE Inv'
<1> USE DEF Inv, core
<1>1. Types'
  BY DEF Types
<1>2. Posters'
  BY DEF Posters, QueuedOnce, SeenRows, Waiting, OneLives, Lives
<1>3. Messages'
  BY DEF Messages, Delivered, Sending, SentIsKept, Keeps
<1> QED BY <1>1, <1>2, <1>3

LEMMA NextInv == ASSUME Inv, [Next]_vars PROVE Inv'
<1>1. ASSUME NEW m \in Message, BeginSend(m) \/ SendStep(m) PROVE Inv'
  BY <1>1, BeginSendStep, SendToStep DEF SendStep, Inv, Types
<1>2. ASSUME NEW p \in Poster, PosterStep(p) PROVE Inv'
  BY <1>2, BeginPassStep, MarkStep, PassOverStep, RetryStep DEF PosterStep
<1>3. ASSUME NEW b \in Box, RemoveMailbox(b) \/ LearnRemoval(b) PROVE Inv'
  BY <1>3, RemoveStep
<1>4. CASE ReaderStep \/ StopReader
  BY <1>4, IdleStep
  DEF ReaderStep, StopReader, Poll, Settle, core, outbox, posters, provider
<1>5. CASE UNCHANGED vars
  BY <1>5, IdleStep DEF vars, core, outbox, posters, provider, recipient
<1> QED BY <1>1, <1>2, <1>3, <1>4, <1>5 DEF Next

LEMMA Invariant == Spec => []Inv
<1>1. Init => Inv
  BY InitInv
<1>2. Inv /\ [Next]_vars => Inv'
  BY NextInv
<1> QED BY <1>1, <1>2, PTL DEF Spec

------------------------------------------------------------------------------
(***************************************************************************)
(* sendExchange, processPending, pruneIfComplete: for any number of        *)
(* posters, messages and mailboxes, a message whose send returned is kept  *)
(* by every mailbox that still serves the recipient, or is queued for it.  *)
(***************************************************************************)
THEOREM MessagesKept == Spec => []SentIsKept
<1>1. Inv => SentIsKept
  BY DEF Inv, Messages
<1> QED BY <1>1, Invariant, PTL

(***************************************************************************)
(* requireTarget, pruneIfComplete: a poster ends only when another one     *)
(* pruned its row, and that one is alive; so they never all end.           *)
(***************************************************************************)
THEOREM PostersSurvive == Spec => []OnePosterSurvives
<1>1. Inv => OnePosterSurvives
  BY DEF Inv, Posters, OneLives, Lives, OnePosterSurvives
<1> QED BY <1>1, Invariant, PTL

------------------------------------------------------------------------------
(* What a query retrieves *)

(* A set of numbers that is not empty has a least.                         *)
LEMMA LeastIndex ==
    ASSUME NEW T \in SUBSET Nat, T # {} PROVE \E m \in T : \A y \in T : m <= y
<1> DEFINE R == {ss \in Nat \X Nat : ss[1] < ss[2]}
<1>1. IsWellFoundedOn(OpToRel(<, Nat), Nat)
  BY NatLessThanWellFounded, Zenon
<1>2. OpToRel(<, Nat) = R
  BY DEF OpToRel
<1>3. IsWellFoundedOn(R, Nat)
  BY <1>1, <1>2, Zenon
<1> HIDE DEF R
<1>4. \E m \in T : \A y \in T : ~(<<y, m>> \in R)
  BY <1>3, WFMin
<1>5. \A x, y \in Nat : ~(<<y, x>> \in R) => x <= y
  BY DEF R
<1> QED BY <1>4, <1>5

(* The indices up to each, of those whose body is kept.                    *)
Walk(f, first, last, S) ==
    \A i \in (first - 1)..last :
        f[i] = IF i < first THEN <<>>
               ELSE IF i \in S THEN Append(f[i - 1], i) ELSE f[i - 1]

LEMMA WalkExists ==
    ASSUME NEW first \in Nat \ {0}, NEW last \in Nat, first <= last, NEW S
    PROVE  \E f \in [(first - 1)..last -> Seq(Nat)] : Walk(f, first, last, S)
<1> DEFINE Bad == {k \in (first - 1)..last :
                     ~ \E f \in [(first - 1)..k -> Seq(Nat)] : Walk(f, first, k, S)}
<1>0. Bad \in SUBSET Nat
  OBVIOUS
<1>1. Bad = {}
  <2> SUFFICES ASSUME Bad # {} PROVE FALSE
    OBVIOUS
  <2>1. PICK m \in Bad : \A y \in Bad : m <= y
    <3> HIDE DEF Bad
    <3> QED BY <1>0, LeastIndex
  <2>2. CASE m = first - 1
    <3> DEFINE f == [i \in (first - 1)..m |-> <<>>]
    <3>1. f \in [(first - 1)..m -> Seq(Nat)] /\ Walk(f, first, m, S)
      BY <2>2 DEF Walk
    <3> QED BY <2>1, <3>1
  <2>3. CASE m # first - 1
    <3>1. m \in first..last /\ m - 1 \in (first - 1)..last /\ m - 1 \notin Bad
      <4>1. m \in (first - 1)..last
        BY <2>1
      <4>2. m \in first..last /\ m - 1 \in (first - 1)..last /\ m - 1 < m
        BY <2>3, <4>1
      <4>3. m - 1 \notin Bad
        <5> HIDE DEF Bad
        <5> QED BY <2>1, <4>2
      <4> QED BY <4>2, <4>3
    <3>2. PICK g \in [(first - 1)..(m - 1) -> Seq(Nat)] : Walk(g, first, m - 1, S)
      BY <3>1
    <3> DEFINE next == IF m \in S THEN Append(g[m - 1], m) ELSE g[m - 1]
               f == [i \in (first - 1)..m |-> IF i < m THEN g[i] ELSE next]
    <3>3. next \in Seq(Nat)
      <4>1. m \in Nat /\ g[m - 1] \in Seq(Nat)
        BY <3>1
      <4> QED BY <4>1, AppendProperties
    <3> HIDE DEF next
    <3>4. f \in [(first - 1)..m -> Seq(Nat)]
      BY <3>1, <3>3
    <3>5. Walk(f, first, m, S)
      <4> SUFFICES ASSUME NEW i \in (first - 1)..m
                   PROVE  f[i] = IF i < first THEN <<>>
                                 ELSE IF i \in S THEN Append(f[i - 1], i) ELSE f[i - 1]
        BY DEF Walk
      <4>1. CASE i < m
        <5>1. i \in (first - 1)..(m - 1) /\ f[i] = g[i] /\ (~(i < first) => f[i - 1] = g[i - 1])
          BY <3>1, <4>1
        <5> QED BY <3>2, <5>1 DEF Walk
      <4>2. CASE i = m
        <5>1. f[m] = next /\ f[m - 1] = g[m - 1] /\ ~(m < first)
          BY <3>1
        <5> QED BY <4>2, <5>1 DEF next
      <4> QED BY <3>1, <4>1, <4>2
    <3> QED BY <2>1, <3>4, <3>5
  <2> QED BY <2>2, <2>3
<1>2. last \in (first - 1)..last
  OBVIOUS
<1> QED BY <1>1, <1>2

(* topicIter: every index of the range whose body is kept, and no other.   *)
LEMMA ReadableAll ==
    ASSUME NEW b, cursor[b] \in Nat \ {0}, NEW to \in Nat, cursor[b] <= to
    PROVE  /\ Readable(b, to) \in Seq(cursor[b]..to)
           /\ \A i \in cursor[b]..to : topic[b][i] \in bodies[b] =>
                 \E k \in 1..Len(Readable(b, to)) : Readable(b, to)[k] = i
<1> DEFINE upTo == CHOOSE upTo : upTo =
               [i \in (Asked(b) - 1)..to |->
                   IF i < Asked(b) THEN <<>>
                   ELSE IF topic[b][i] \in bodies[b] THEN Append(upTo[i - 1], i) ELSE upTo[i - 1]]
<1>1. Readable(b, to) = upTo[to]
  BY DEF Readable
<1>2. PICK first \in Nat \ {0} : first = Asked(b) /\ first = cursor[b]
  BY DEF Asked
<1> DEFINE S == {i \in first..to : topic[b][i] \in bodies[b]}
<1>3. PICK f \in [(first - 1)..to -> Seq(Nat)] : Walk(f, first, to, S)
  BY <1>2, WalkExists
<1>4. f = [i \in (Asked(b) - 1)..to |->
              IF i < Asked(b) THEN <<>>
              ELSE IF topic[b][i] \in bodies[b] THEN Append(f[i - 1], i) ELSE f[i - 1]]
  <2>1. \A i \in (first - 1)..to : ~(i < first) => (i \in S <=> topic[b][i] \in bodies[b])
    BY <1>2
  <2>2. \A i \in (first - 1)..to :
           f[i] = IF i < first THEN <<>>
                  ELSE IF topic[b][i] \in bodies[b] THEN Append(f[i - 1], i) ELSE f[i - 1]
    <3> HIDE DEF S
    <3> QED BY <1>3, <2>1 DEF Walk
  <2>3. f = [i \in (first - 1)..to |->
              IF i < first THEN <<>>
              ELSE IF topic[b][i] \in bodies[b] THEN Append(f[i - 1], i) ELSE f[i - 1]]
    BY <1>3, <2>2
  <2> QED BY <1>2, <2>3
<1>5. upTo = [i \in (Asked(b) - 1)..to |->
                 IF i < Asked(b) THEN <<>>
                 ELSE IF topic[b][i] \in bodies[b] THEN Append(upTo[i - 1], i) ELSE upTo[i - 1]]
  BY <1>4
<1> HIDE DEF upTo
<1>6. Walk(upTo, first, to, S)
  <2>1. \A i \in (first - 1)..to : ~(i < first) => (i \in S <=> topic[b][i] \in bodies[b])
    BY <1>2
  <2>2. \A i \in (first - 1)..to :
           upTo[i] = IF i < first THEN <<>>
                     ELSE IF topic[b][i] \in bodies[b] THEN Append(upTo[i - 1], i) ELSE upTo[i - 1]
    BY <1>2, <1>5
  <2> HIDE DEF S
  <2> QED BY <2>1, <2>2 DEF Walk
<1> DEFINE Covers(s, n) == /\ s \in Seq(first..n)
                           /\ \A i \in S : i <= n => \E k \in 1..Len(s) : s[k] = i
           Off == {n \in (first - 1)..to : ~Covers(upTo[n], n)}
<1>7. Off = {}
  <2> SUFFICES ASSUME Off # {} PROVE FALSE
    OBVIOUS
  <2>0. Off \in SUBSET Nat
    OBVIOUS
  <2>1. PICK m \in Off : \A y \in Off : m <= y
    <3> HIDE DEF Off
    <3> QED BY <2>0, LeastIndex
  <2>2. m \in Nat /\ m \in (first - 1)..to /\ ~Covers(upTo[m], m)
    BY <1>2, <2>1
  <2>3. m >= first
    <3>1. first - 1 \in (first - 1)..to /\ upTo[first - 1] = <<>>
      BY <1>2, <1>6 DEF Walk
    <3>2. Covers(<<>>, first - 1)
      BY <1>2
    <3>3. m # first - 1
      BY <2>2, <3>1, <3>2
    <3> QED BY <1>2, <2>2, <3>3
  <2>4. m - 1 \in (first - 1)..to /\ m - 1 \notin Off
    BY <1>2, <2>1, <2>2, <2>3
  <2>5. Covers(upTo[m - 1], m - 1)
    BY <2>4
  <2>6. upTo[m] = IF m \in S THEN Append(upTo[m - 1], m) ELSE upTo[m - 1]
    BY <1>2, <1>6, <2>2, <2>3 DEF Walk
  <2>7. PICK s \in Seq(first..(m - 1)) : s = upTo[m - 1]
    BY <2>5
  <2>8. s \in Seq(first..m)
    <3>1. first..(m - 1) \subseteq first..m
      BY <1>2, <2>2
    <3> QED BY <3>1
  <2>9. CASE m \in S
    <3>1. Append(s, m) \in Seq(first..m) /\ Len(Append(s, m)) = Len(s) + 1
          /\ Append(s, m)[Len(s) + 1] = m /\ \A k \in 1..Len(s) : Append(s, m)[k] = s[k]
      BY <1>2, <2>2, <2>3, <2>8
    <3>2. \A i \in S : i <= m => \E k \in 1..Len(Append(s, m)) : Append(s, m)[k] = i
      <4> SUFFICES ASSUME NEW i \in S, i <= m
                   PROVE  \E k \in 1..Len(Append(s, m)) : Append(s, m)[k] = i
        OBVIOUS
      <4>1. CASE i = m
        BY <3>1, <4>1
      <4>2. CASE i # m
        <5>1. i <= m - 1
          BY <1>2, <2>2, <4>2
        <5>2. PICK k \in 1..Len(s) : s[k] = i
          BY <2>5, <2>7, <5>1
        <5>3. k \in 1..Len(Append(s, m))
          BY <3>1, <5>2
        <5>4. Append(s, m)[k] = i
          BY <3>1, <5>2
        <5> QED BY <5>3, <5>4
      <4> QED BY <4>1, <4>2
    <3>3. Covers(Append(s, m), m)
      BY <3>1, <3>2
    <3> QED BY <2>2, <2>6, <2>7, <2>9, <3>3
  <2>10. CASE m \notin S
    <3>1. \A i \in S : i <= m => i <= m - 1
      BY <1>2, <2>2, <2>10
    <3>2. Covers(s, m)
      BY <2>5, <2>7, <2>8, <3>1
    <3> QED BY <2>2, <2>6, <2>7, <2>10, <3>2
  <2> QED BY <2>9, <2>10
<1>8. Covers(upTo[to], to)
  <2>1. to \in (first - 1)..to
    BY <1>2
  <2> QED BY <1>7, <2>1
<1> QED BY <1>1, <1>2, <1>8

------------------------------------------------------------------------------
(* The reader *)

(* What is at an index below the cursor was processed, is about to be, has *)
(* no body kept, or comes again.                                           *)
Safe(b, i) ==
    \/ topic[b][i] \in ingested \cup Range(batch)
    \/ topic[b][i] \notin bodies[b]
    \/ \E j \in cursor[b]..Len(topic[b]) : topic[b][j] = topic[b][i]

ReaderInv ==
    /\ cursor \in [Box -> Nat \ {0}] /\ losses \in Nat
    /\ \A b \in Box : cursor[b] <= Len(topic[b]) + 1
    /\ batch \in Seq(Message \cup {None})
    /\ losses = 0 => /\ batch \in Seq(Message)
                     /\ \A b \in Box : \A i \in 1..(cursor[b] - 1) : Safe(b, i)

(* A message whose body is kept only later is at a later index too.        *)
LEMMA DeliverReader ==
    ASSUME Types, ReaderInv, NEW m \in Message, NEW b \in Box, NEW ok, Deliver(m, b, ok),
           UNCHANGED recipient
    PROVE  ReaderInv'
<1> DEFINE longer == [topic EXCEPT ![b] = Append(@, m)]
           fuller == [bodies EXCEPT ![b] = @ \cup {m}]
<1>1. /\ topic' \in {topic, longer} /\ bodies' \in {bodies, fuller}
      /\ bodies' # bodies => topic' = longer
  BY DEF Deliver, Handled, Stored, Indexed, provider, longer, fuller
<1>2. topic \in [Box -> Seq(Message)] /\ bodies \in [Box -> SUBSET Message]
  BY DEF Types
<1>3. /\ longer[b] = Append(topic[b], m) /\ \A c \in Box : c # b => longer[c] = topic[c]
      /\ fuller[b] = bodies[b] \cup {m} /\ \A c \in Box : c # b => fuller[c] = bodies[c]
  BY <1>2
<1> HIDE DEF longer, fuller
<1>4. topic[b] \in Seq(Message) /\ Len(topic[b]) \in Nat
  BY <1>2
<1>5. /\ Len(Append(topic[b], m)) = Len(topic[b]) + 1
      /\ Append(topic[b], m)[Len(topic[b]) + 1] = m
      /\ \A i \in 1..Len(topic[b]) : Append(topic[b], m)[i] = topic[b][i]
  BY <1>4
<1>6. UNCHANGED <<cursor, batch, ingested, losses>>
  BY DEF recipient
<1>7. \A c \in Box : cursor[c] \in Nat \ {0} /\ cursor[c] <= Len(topic[c]) + 1
  BY DEF ReaderInv
<1>8. \A c \in Box : cursor'[c] <= Len(topic'[c]) + 1
  <2> SUFFICES ASSUME NEW c \in Box PROVE cursor[c] <= Len(topic'[c]) + 1
    BY <1>6
  <2>1. CASE topic'[c] = topic[c]
    BY <1>7, <2>1
  <2>2. CASE c = b /\ topic'[b] = Append(topic[b], m)
    BY <1>4, <1>5, <1>7, <2>2
  <2> QED BY <1>1, <1>3, <2>1, <2>2
<1>9. ASSUME losses = 0, NEW c \in Box, NEW i \in 1..(cursor[c] - 1)
      PROVE  Safe(c, i)'
  <2>1. Safe(c, i) /\ i \in 1..Len(topic[c]) /\ Len(topic[c]) \in Nat
    BY <1>2, <1>7, <1>9 DEF ReaderInv
  <2>2. CASE c # b \/ topic' = topic
    <3>1. topic'[c] = topic[c] /\ bodies'[c] = bodies[c]
      BY <1>1, <1>3, <2>2
    <3> QED BY <1>6, <2>1, <3>1 DEF Safe
  <2>3. CASE c = b /\ topic' = longer
    <3>1. topic'[b] = Append(topic[b], m) /\ topic'[b][i] = topic[b][i]
          /\ Len(topic'[b]) = Len(topic[b]) + 1 /\ topic'[b][Len(topic[b]) + 1] = m
      BY <1>3, <1>5, <2>1, <2>3
    <3>2. CASE topic[b][i] \in ingested \cup Range(batch)
      BY <1>6, <2>3, <3>1, <3>2 DEF Safe
    <3>3. CASE topic[b][i] \notin bodies[b]
      <4>1. CASE topic[b][i] = m
        <5>1. Len(topic[b]) + 1 \in cursor[b]..Len(topic'[b])
          BY <1>4, <1>7, <3>1
        <5> QED BY <1>6, <2>3, <3>1, <4>1, <5>1 DEF Safe
      <4>2. CASE topic[b][i] # m
        <5>1. topic'[b][i] \notin bodies'[b]
          BY <1>1, <1>3, <3>1, <3>3, <4>2
        <5> QED BY <2>3, <5>1 DEF Safe
      <4> QED BY <4>1, <4>2
    <3>4. CASE \E j \in cursor[b]..Len(topic[b]) : topic[b][j] = topic[b][i]
      <4>1. PICK j \in cursor[b]..Len(topic[b]) : topic[b][j] = topic[b][i]
        BY <3>4
      <4>2. j \in 1..Len(topic[b]) /\ j \in cursor[b]..Len(topic'[b])
        BY <1>4, <1>7, <3>1
      <4>3. topic'[b][j] = topic'[b][i]
        BY <1>5, <3>1, <4>1, <4>2
      <4> QED BY <1>6, <2>3, <4>2, <4>3 DEF Safe
    <3> QED BY <2>1, <2>3, <3>2, <3>3, <3>4 DEF Safe
  <2> QED BY <1>1, <2>2, <2>3
<1> QED BY <1>6, <1>8, <1>9 DEF ReaderInv

(* The cursor passes over what the answer brought, or what has no body.    *)
LEMMA PollReader ==
    ASSUME Types, ReaderInv, NEW b \in Box, NEW cut \in BOOLEAN,
           NEW to \in cursor[b]..Len(topic[b]), Poll(b, to, cut)
    PROVE  ReaderInv'
<1>1. PICK is : /\ is = Readable(b, to) /\ is # <<>>
                /\ cursor' = [cursor EXCEPT ![b] = is[Len(is)] + 1]
                /\ batch' = batch \o Retrieved(b, is, cut)
                /\ losses' = IF cut THEN losses + 1 ELSE losses
                /\ UNCHANGED <<topic, bodies, ingested>>
  BY DEF Poll, NextWanted, provider
<1>2. /\ cursor[b] \in Nat \ {0} /\ topic[b] \in Seq(Message) /\ Len(topic[b]) \in Nat
      /\ cursor \in [Box -> Nat \ {0}] /\ losses \in Nat
  BY DEF ReaderInv, Types
<1>3. to \in Nat /\ cursor[b] <= to /\ to <= Len(topic[b])
  BY <1>2
<1>4. /\ is \in Seq(cursor[b]..to)
      /\ \A i \in cursor[b]..to : topic[b][i] \in bodies[b] => \E k \in 1..Len(is) : is[k] = i
  <2>1. /\ Readable(b, to) \in Seq(cursor[b]..to)
        /\ \A i \in cursor[b]..to : topic[b][i] \in bodies[b] =>
              \E k \in 1..Len(Readable(b, to)) : Readable(b, to)[k] = i
    BY <1>2, <1>3, ReadableAll
  <2> QED BY <1>1, <2>1
<1>5. PICK n \in Nat : n = Len(is) /\ n # 0
  BY <1>1, <1>4, EmptySeq
<1>6. \A k \in 1..n : is[k] \in cursor[b]..to
  BY <1>4, <1>5, ElementOfSeq
<1>7. PICK last \in cursor[b]..to : last = is[n]
  BY <1>5, <1>6
<1>8. cursor' \in [Box -> Nat \ {0}] /\ cursor'[b] = last + 1
      /\ \A c \in Box : c # b => cursor'[c] = cursor[c]
  BY <1>1, <1>2, <1>3, <1>5, <1>7
<1> DEFINE got == Retrieved(b, is, cut)
<1>9. /\ Len(got) = n /\ got \in Seq(Message \cup {None})
      /\ ~cut => got \in Seq(Message) /\ \A k \in 1..n : got[k] = topic[b][is[k]]
  <2>1. \A k \in 1..n : topic[b][is[k]] \in Message
    BY <1>2, <1>3, <1>6
  <2>2. got = [k \in 1..n |-> IF cut /\ k = n THEN None ELSE topic[b][is[k]]]
    BY <1>5 DEF Retrieved
  <2> QED BY <2>1, <2>2
<1> HIDE DEF got
<1>10. batch \in Seq(Message \cup {None}) /\ batch' = batch \o got
  BY <1>1 DEF ReaderInv, got
<1>11. batch' \in Seq(Message \cup {None})
  BY <1>9, <1>10
<1>12. losses' \in Nat /\ (losses' = 0 => losses = 0 /\ ~cut)
  BY <1>1, <1>2
<1>13. \A c \in Box : cursor'[c] <= Len(topic'[c]) + 1
  BY <1>1, <1>2, <1>3, <1>8 DEF ReaderInv
<1>14. ASSUME losses' = 0
       PROVE  /\ batch' \in Seq(Message)
              /\ \A c \in Box : \A i \in 1..(cursor'[c] - 1) : Safe(c, i)'
  <2>1. /\ losses = 0 /\ ~cut /\ batch \in Seq(Message) /\ got \in Seq(Message)
        /\ \A c \in Box : \A i \in 1..(cursor[c] - 1) : Safe(c, i)
    BY <1>9, <1>12, <1>14 DEF ReaderInv
  <2>2. batch' \in Seq(Message)
    BY <1>10, <2>1
  <2>3. /\ Len(batch') = Len(batch) + n /\ Len(batch) \in Nat
        /\ \A k \in 1..Len(batch) : batch'[k] = batch[k]
        /\ \A k \in 1..n : batch'[Len(batch) + k] = got[k]
    <3>1. PICK old \in Seq(Message) : old = batch
      BY <2>1
    <3>2. /\ Len(old \o got) = Len(old) + Len(got) /\ Len(old) \in Nat
          /\ \A k \in 1..(Len(old) + Len(got)) :
                (old \o got)[k] = IF k <= Len(old) THEN old[k] ELSE got[k - Len(old)]
      BY <2>1, ConcatProperties
    <3>3. batch' = old \o got
      BY <1>10, <3>1
    <3>4. \A k \in 1..n : Len(old) + k \in 1..(Len(old) + Len(got)) /\ ~(Len(old) + k <= Len(old))
                           /\ (Len(old) + k) - Len(old) = k
      BY <1>9, <3>2
    <3>5. \A k \in 1..Len(old) : k \in 1..(Len(old) + Len(got)) /\ k <= Len(old)
      BY <1>9, <3>2
    <3> QED BY <1>9, <3>1, <3>2, <3>3, <3>4, <3>5
  <2>4. Range(batch) \subseteq Range(batch') /\ \A k \in 1..n : got[k] \in Range(batch')
    <3>1. DOMAIN batch = 1..Len(batch) /\ DOMAIN batch' = 1..(Len(batch) + n)
      BY <2>1, <2>2, <2>3
    <3>2. \A k \in 1..Len(batch) : k \in 1..(Len(batch) + n)
      BY <2>3
    <3>3. \A k \in 1..n : Len(batch) + k \in 1..(Len(batch) + n)
      BY <2>3
    <3> QED BY <2>3, <3>1, <3>2, <3>3 DEF Range
  <2>5. \A i \in cursor[b]..to : topic[b][i] \in bodies[b] => topic[b][i] \in Range(batch')
    <3> SUFFICES ASSUME NEW i \in cursor[b]..to, topic[b][i] \in bodies[b]
                 PROVE  topic[b][i] \in Range(batch')
      OBVIOUS
    <3>1. PICK k \in 1..n : is[k] = i
      BY <1>4, <1>5
    <3> QED BY <1>9, <2>1, <2>4, <3>1
  <2>6. ASSUME NEW c \in Box, c # b, NEW i \in 1..(cursor'[c] - 1) PROVE Safe(c, i)'
    <3>1. Safe(c, i) /\ cursor'[c] = cursor[c]
      BY <1>8, <2>1, <2>6
    <3> QED BY <1>1, <2>4, <3>1 DEF Safe
  <2>7. ASSUME NEW i \in 1..last PROVE Safe(b, i)'
    <3>1. CASE i >= cursor[b]
      <4>1. i \in cursor[b]..to
        BY <1>2, <1>3, <1>7, <3>1
      <4>2. topic[b][i] \notin bodies[b] \/ topic[b][i] \in Range(batch')
        BY <2>5, <4>1
      <4> QED BY <1>1, <4>2 DEF Safe
    <3>2. CASE ~(i >= cursor[b])
      <4>1. Safe(b, i)
        BY <1>2, <1>3, <1>7, <2>1, <3>2
      <4>2. CASE topic[b][i] \in ingested \cup Range(batch) \/ topic[b][i] \notin bodies[b]
        BY <1>1, <2>4, <4>2 DEF Safe
      <4>3. CASE \E j \in cursor[b]..Len(topic[b]) : topic[b][j] = topic[b][i]
        <5>1. PICK j \in cursor[b]..Len(topic[b]) : topic[b][j] = topic[b][i]
          BY <4>3
        <5>2. CASE j <= last
          <6>1. j \in cursor[b]..to
            BY <1>2, <1>3, <1>7, <5>2
          <6>2. topic[b][j] \notin bodies[b] \/ topic[b][j] \in Range(batch')
            BY <2>5, <6>1
          <6> QED BY <1>1, <5>1, <6>2 DEF Safe
        <5>3. CASE ~(j <= last)
          <6>1. j \in cursor'[b]..Len(topic[b])
            BY <1>2, <1>3, <1>7, <1>8, <5>3
          <6> QED BY <1>1, <5>1, <6>1 DEF Safe
        <5> QED BY <5>2, <5>3
      <4> QED BY <4>1, <4>2, <4>3 DEF Safe
    <3> QED BY <3>1, <3>2
  <2>8. cursor'[b] - 1 = last
    BY <1>2, <1>3, <1>7, <1>8
  <2> QED BY <2>2, <2>6, <2>7, <2>8
<1> QED BY <1>8, <1>11, <1>12, <1>13, <1>14 DEF ReaderInv

(* A message leaves the batch when it is processed.                        *)
LEMMA SettleReader == ASSUME Types, ReaderInv, Settle PROVE ReaderInv'
<1>1. batch \in Seq(Message \cup {None}) /\ batch # <<>>
      /\ UNCHANGED <<topic, bodies, cursor, losses>>
  BY DEF Settle, ReaderInv, provider
<1>2. CASE Head(batch) = None
  <2>1. batch' = <<>> /\ ingested' = ingested
    BY <1>2 DEF Settle
  <2>2. losses # 0
    <3>1. losses = 0 => Head(batch) \in Message
      BY <1>1 DEF ReaderInv
    <3> QED BY <1>2, <3>1, MailboxAssumption
  <2>3. batch' \in Seq(Message \cup {None})
    BY <2>1
  <2> QED BY <1>1, <2>2, <2>3 DEF ReaderInv
<1>3. CASE Head(batch) # None
  <2>1. ingested' = ingested \cup {Head(batch)} /\ batch' = Tail(batch)
    BY <1>3 DEF Settle
  <2>2. ASSUME NEW S, batch \in Seq(S)
        PROVE  /\ Tail(batch) \in Seq(S)
               /\ Range(batch) \subseteq {Head(batch)} \cup Range(Tail(batch))
    <3>1. PICK old \in Seq(S) : old = batch /\ old # <<>>
      BY <1>1, <2>2
    <3>2. /\ Tail(old) \in Seq(S) /\ Len(Tail(old)) = Len(old) - 1 /\ Len(old) \in Nat
          /\ \A k \in 1..Len(Tail(old)) : Tail(old)[k] = old[k + 1]
          /\ Head(old) = old[1]
      BY <3>1, HeadTailProperties
    <3>3. ASSUME NEW k \in 1..Len(old), k # 1
          PROVE  k - 1 \in 1..Len(Tail(old)) /\ Tail(old)[k - 1] = old[k]
      <4>1. k - 1 \in 1..Len(Tail(old))
        BY <3>2, <3>3
      <4>2. Tail(old)[k - 1] = old[(k - 1) + 1] /\ (k - 1) + 1 = k
        BY <3>2, <4>1
      <4> QED BY <4>1, <4>2
    <3>4. DOMAIN old = 1..Len(old) /\ DOMAIN Tail(old) = 1..Len(Tail(old))
      BY <3>1, <3>2
    <3>5. Range(old) \subseteq {Head(old)} \cup Range(Tail(old))
      <4> SUFFICES ASSUME NEW k \in 1..Len(old)
                   PROVE  old[k] \in {Head(old)} \cup Range(Tail(old))
        BY <3>4 DEF Range
      <4>1. CASE k = 1
        BY <3>2, <4>1
      <4>2. CASE k # 1
        <5>1. k - 1 \in DOMAIN Tail(old) /\ Tail(old)[k - 1] = old[k]
          BY <3>3, <3>4, <4>2
        <5> QED BY <5>1 DEF Range
      <4> QED BY <4>1, <4>2
    <3> QED BY <3>1, <3>2, <3>5
  <2>3. batch' \in Seq(Message \cup {None}) /\ (losses' = 0 => batch' \in Seq(Message))
    BY <1>1, <2>1, <2>2 DEF ReaderInv
  <2>4. ingested \cup Range(batch) \subseteq ingested' \cup Range(batch')
    BY <1>1, <2>1, <2>2
  <2>5. \A b \in Box : \A i \in 1..(cursor[b] - 1) : Safe(b, i) => Safe(b, i)'
    BY <1>1, <2>4 DEF Safe
  <2> QED BY <1>1, <2>3, <2>5 DEF ReaderInv
<1> QED BY <1>2, <1>3

(* A reader that stops with messages in its batch may lose them.           *)
LEMMA StopReads == ASSUME Types, ReaderInv, StopReader PROVE ReaderInv'
<1>1. batch' = <<>> /\ losses' = losses + 1 /\ UNCHANGED <<topic, bodies, cursor>>
  BY DEF StopReader, provider
<1>2. batch' \in Seq(Message \cup {None})
  BY <1>1
<1>3. losses' \in Nat /\ losses' # 0
  BY <1>1 DEF ReaderInv
<1> QED BY <1>1, <1>2, <1>3 DEF ReaderInv

LEMMA OtherReader ==
    ASSUME ReaderInv, UNCHANGED <<provider, recipient>> PROVE ReaderInv'
BY DEF ReaderInv, Safe, provider, recipient

LEMMA ReaderInit == ASSUME Init PROVE ReaderInv
<1>1. topic = [b \in Box |-> <<>>] /\ cursor = [b \in Box |-> 1] /\ batch = <<>> /\ losses = 0
  BY DEF Init
<1>2. \A b \in Box : topic[b] = <<>> /\ cursor[b] = 1 /\ Len(topic[b]) = 0
  BY <1>1
<1>3. \A b \in Box : 1..(cursor[b] - 1) = {}
  BY <1>2
<1>4. batch \in Seq(Message) /\ batch \in Seq(Message \cup {None})
  BY <1>1
<1> QED BY <1>1, <1>2, <1>3, <1>4 DEF ReaderInv

LEMMA ReaderNext == ASSUME Inv, ReaderInv, [Next]_vars PROVE ReaderInv'
<1>0. Types
  BY DEF Inv
<1>1. ASSUME NEW m \in Message, BeginSend(m) \/ SendStep(m) PROVE ReaderInv'
  <2>1. CASE BeginSend(m)
    BY <2>1, OtherReader DEF BeginSend
  <2>2. ASSUME NEW b \in todo[m], NEW ok \in BOOLEAN, SendTo(m, b, ok) PROVE ReaderInv'
    <3>1. b \in Box /\ Deliver(m, b, ok) /\ UNCHANGED recipient
      BY <1>0, <2>2 DEF SendTo, Types
    <3> QED BY <1>0, <3>1, DeliverReader
  <2> QED BY <1>1, <2>1, <2>2 DEF SendStep
<1>2. ASSUME NEW p \in Poster, PosterStep(p) PROVE ReaderInv'
  <2>1. CASE BeginPass(p)
    BY <2>1, OtherReader DEF BeginPass
  <2>2. CASE Mark(p)
    BY <2>2, OtherReader DEF Mark
  <2>3. ASSUME NEW t \in seen[p], PassOver(p, t) PROVE ReaderInv'
    BY <2>3, OtherReader DEF PassOver
  <2>4. ASSUME NEW t \in seen[p], NEW ok \in BOOLEAN, Retry(p, t, ok) PROVE ReaderInv'
    <3>1. t \in Row /\ Deliver(t[1], t[2], ok) /\ UNCHANGED recipient
      BY <1>0, <2>4 DEF Retry, Types
    <3>2. t[1] \in Message /\ t[2] \in Box
      BY <3>1 DEF Row
    <3> QED BY <1>0, <3>1, <3>2, DeliverReader
  <2> QED BY <1>2, <2>1, <2>2, <2>3, <2>4 DEF PosterStep
<1>3. ASSUME NEW b \in Box, RemoveMailbox(b) \/ LearnRemoval(b) PROVE ReaderInv'
  BY <1>3, OtherReader DEF RemoveMailbox, LearnRemoval
<1>4. CASE ReaderStep
  BY <1>0, <1>4, SettleReader, PollReader DEF ReaderStep
<1>5. CASE StopReader
  BY <1>0, <1>5, StopReads
<1>6. CASE UNCHANGED vars
  BY <1>6, OtherReader DEF vars
<1> QED BY <1>1, <1>2, <1>3, <1>4, <1>5, <1>6 DEF Next

(***************************************************************************)
(* updateRemoteCursor, topicIter, Mailboxer.storeMsg: for any number of    *)
(* messages, mailboxes and faults, and any answers of the providers, a     *)
(* reader that never stops and whose answers are whole passes over nothing *)
(* a provider kept: it was processed, is about to be, or comes again.      *)
(***************************************************************************)
THEOREM ReaderSkipsNothing == Spec => []NothingSkipped
<1>1. Init => Inv /\ ReaderInv
  BY InitInv, ReaderInit
<1>2. Inv /\ ReaderInv /\ [Next]_vars => ReaderInv'
  BY ReaderNext
<1>3. ReaderInv => NothingSkipped
  BY DEF ReaderInv, Safe, NothingSkipped
<1> QED BY <1>1, <1>2, <1>3, Invariant, PTL DEF Spec
==============================================================================
