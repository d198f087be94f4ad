# A formal model of keri-ts

keri-ts is a TypeScript implementation of KERI: identifiers whose key state is the
result of replaying a signed, hash-chained log of key events (a KEL). This directory
holds TLA+ modules of its core, the configurations that model-check them with TLC, and
theorems about them with proofs checked by TLAPS. Paths below are relative to the
repository, `core/`, `db/`, `app/` and `vdr/` to `packages/keri/src/`.

## 1. The system

### 1.1 Components

| component | state it keeps | operations | what makes it correct |
|---|---|---|---|
| **Kever** (`core/kever.ts`, `core/kever-decisions.ts`, `core/witnesses.ts`) | one live key state per identifier | evaluate an inception, rotation or interaction into accept, escrow or reject; apply an acceptance | only authorised events move the state; a recovery rotation supersedes interactions and nothing else |
| **Kevery** (`core/eventing.ts`) | none of its own: the escrows and stores of Baser | process events, receipts, queries, key-state notices; replay every escrow | order of arrival does not matter; nothing is accepted twice; nothing is lost that can still be used |
| **Baser** (`db/basing.ts` over `db/subing.ts`, `db/koming.ts`, `db/core/lmdber.ts`) | LMDB stores and the in-memory map `kevers` | put, add, pin, append, remove; `reloadKevers`, read-through `getKever` | the map agrees with the stores; a stop between two writes leaves a usable log |
| **Reactor and runtime loops** (`app/reactor.ts`, `app/agent-runtime.ts`, `app/runtime-turn.ts`) | ingress queue | drain ingress, sweep escrows, run cues, forever and cooperatively | every escrow is swept again and again |
| **Delegation** (`core/kever.ts`, `core/eventing.ts`, `app/delegating.ts`) | `aess.`, `udes.`, `pdes.`, `delegables.`; `dpwe`, `dune`, `dpub` | approve `dip`/`drt`, delegated recovery, the anchorer's stages | a delegated event takes effect only with the delegator's seal |
| **Replies** (`core/routing.ts`) | `sdts.`, `rpys.`, `ssgs.`, `scgs.`, `rpes.` | accept a reply by signer event, then datetime; replay | the latest authorised reply wins whatever the order |
| **Queries** (`app/querying.ts`, `app/query-transport.ts`) | `qnfs.`, continuations | escrow unanswerable queries; noticer and log querier | a query is answered once its event arrives |
| **Keeper and habitats** (`app/keeping.ts`, `app/habbing.ts`, `core/keeper-crypto.ts`) | key pairs, `pres.`, `sits.`, habitat records | incept, rotate, replay; make own events and accept them locally | the keeper's generation is that of the accepted state, also after a failure |
| **Mailboxes, forwarding, outbox** (`app/forwarding.ts`, `app/mailbox-director.ts`, `db/mailboxing.ts`, `db/outboxing.ts`) | topic ordinals, cursors, per-target rows | store, poll, stream, retry | no message skipped, delivered targets not retried |
| **Witness receipting** (`app/witnessing.ts`) | none durable | collect receipts from each witness, redistribute | enough witnesses hear of each other |
| **TEL and credentials** (`vdr/eventing.ts`, `vdr/credentialing.ts`, `db/reger.ts`, `app/verifying.ts`) | registries, credential states, `taes.`, `oots.` | anchored registry events, issue and revoke | a registry event needs its anchor and its predecessor |
| **Multisig groups** (`app/grouping.ts`, `app/multisig-workflows.ts`) | partial proposals | join members' proposals | members agree on one event |
| **Exchanges, IPEX** (`app/exchanging.ts`, `app/ipexing.ts`) | `exns.`, `epse.` | escrow and accept peer messages | as replies |
| **OOBIs, notifications, contacts, challenges** | stores with one writer | resolve, notify, record | mostly HTTP and lookup |
| **CESR parser** (`packages/cesr/src/core`, `parser`) | buffer, pending frame, queued frames | feed, drain, flush, reset | the frames do not depend on where the chunks are cut |
| **CESR primitives, serders** (`packages/cesr`) | none | encode, serialise | data only: their meaning is in `KelEvents` |
| **did:webs, tufa CLI and hosts** | none of the protocol | generation and I/O | out of scope |

### 1.2 How they interact

A host feeds bytes to the parser; `Reactor.msgDo` drains parsed envelopes and
`dispatch.ts` calls `Kevery.processEvent`, `processReceipt`, and so on. `processEvent`
asks `decideEvent` for a decision, which reads `db.kevers` and the stores and calls
`Kever.evaluateInception` or `evaluateUpdate`; `applyDecision` then writes: `logEvent`
(attachments, body, provenance, `fels.`, `fons.`, `kels.`), `pinState`, and the live map;
or, for an escrow, the event's material and a row. `Reactor.escrowDo` calls
`Kevery.processEscrows` once every turn, which replays each family's rows through the
same decision. Handlers are synchronous and run to completion, so the two loops
interleave handlers, not statements. Every store write is an LMDB transaction of its
own, so a stop of the process can fall between any two writes of a handler.

### 1.3 What is hard

* Events arrive out of order, repeated, split into messages with part of the signatures,
  and before or after their receipts; a decision deferred is taken again later against a
  different key state, from attachments accumulated unverified.
* A recovery rotation moves the head *back*. `kels.` keeps the superseded events, so
  "the last event at a sequence number" may be a superseded one above the head.
* Receipts are checked against one of three witness lists, of different times.
* The live map and the durable states are two copies; a start reads back the local
  identifiers only.
* Provenance (local or remote) of an event decides whether it may be accepted, and is
  itself stored and promoted.
* A stop between two writes, of a handler, of the keeper, of the outbox or of a registry.
* Events that depend on another log: a delegated event on its delegator's anchor, a
  registry event on its owner's, a reply on the signer's establishment event; each may
  come first, and each log may recover from what the other relies on.
* Two actors over one store: two posters on the outbox, a mailbox's sender and reader.
* A byte stream cut anywhere, with frames deferred until the next chunk tells whether
  they are complete.

`PROJECT.json` lists each hazard at its line, with the properties aimed at it.

## 2. Modules

| module | models |
|---|---|
| `KelEvents` | events, thresholds, indexed signatures, exposure of pre-rotated keys, witness-list arithmetic; the reference definitions `GovEst`, `GovWits` |
| `Baser` | the stores as variables, the cache `kevers`, `LastAt`, `GetKever`, reload, `LogEvent`, `PinState`, escrow writes, each compound write as an ordered list of single writes |
| `Kever` | the decision about one event: no state of its own |
| `Kevery` | the actions: deliver an event, replay a row, deliver a receipt, replay receipts, expiry, restart, crash; the specifications and the fairness |
| `KeveryProperties` | what is claimed, the inductive invariant, the refinement mapping |
| `KeyEventLog` | the abstract specification: an append-only first-seen log and an authoritative chain |
| `Delegation` | logs of identifiers that delegate to each other: the search for an approval, delegated recovery along a chain of delegators, repair of seals, the escrows and their sweeps, local approval |
| `Revery` | replies: decision by signer event and date, the stores shared by accepted and escrowed replies, the sweep, the role, location and key-state routes |
| `Habitat` | the keeper's lots and keys beside the local log: making, rotating, rolling back, group habitats, stop and start |
| `Mailbox` | the path of a message: send, outbox, posters, the provider's topic, the reader's cursor and batch |
| `Registries` | registry and credential logs anchored in key event logs, their escrows, the credentials with theirs, and the owner's own registry; composes the log of anchors with the two escrow machines |
| `Parser` | the CESR parser: a stream, the buffer, deferred frames and the drain loop |
| `KeveryProofs` and the other `*Proofs` | theorems and proofs |
| `MCEvents`, `MC*` | instances: a vocabulary for bodies and messages, and one small history or a few each |

Modules compose where components share state: `Kevery` extends `Kever` over `Baser`;
`Registries` and `Revery` hold the part of a key event log they read, growing beside them
in the orders `Kevery` allows (extension, and recovery by a rotation over interactions);
`Mailbox` is three actors over two stores. `Parser` and `Habitat` stand alone: the bytes
below the messages, and the keys behind the events a node makes itself.

### 2.1 State and code

| variable | code |
|---|---|
| `evts`, `sigs`, `wigs`, `wits`, `rcts`, `esrs` | the sub-databases of the same name, keyed by event |
| `kels`, `fels`, `fons`, `states` | the KEL by (prefix, sn) with insertion order, the first-seen log, ordinals, durable key states |
| `escrow[k]` | `ooes.` "ooo", `pses.` "partialSigs", `pwes.` "partialWigs", `ldes.` "duplicitous", `mfes.` "misfit" |
| `vrcs` | receipts by transferable identifiers, a seal and an indexed signature each |
| `uwes`, `ures`, `vres` | receipts that wait: witness-indexed, couples, and sealed ones |
| `kevers` | the in-memory map |
| `net`, `post` | messages in flight: event messages and receipts |

A SAID is a digest of the whole body, so the event itself stands for it. A key digest
commits to one key, so the key stands for it. A signature is its index, its index in the
prior next list, and the key it was really made with; it verifies when that key is the
one at its index. Sequences count from 1 where the code counts from 0.

### 2.2 Actions and code

| action | code |
|---|---|
| `DeliverEvent` | `processEvent` = `decideEvent` then `applyDecision`, to the last write |
| `ReplayEscrow` | `replayEscrowEntry`: rehydrate, decide, keep the row or remove it and apply |
| `DeliverReceipt` | `processReceipt` for couples, witness-indexed receipts and the groups of transferable receiptors, read in order |
| `ReplayWitnessReceipt`, `ReplayNonTransReceipt` | `reprocessEscrowedWitnessReceipt`, `reprocessEscrowedNonTransReceipt` with `processEscrowFindUnver` |
| `ReplayTransReceipt` | `reprocessEscrowedTransferableReceipt` |
| `ExpireReceipt` | the timeout checks of those replays |
| `Restart` | process start between handlers: `reopen` and `reloadKevers` |
| `CrashInDelivery`, `CrashInReplay` | a stop after the first n writes of a handler, then a start |

Three abstractions are shared by all of these.

* **Order of the rows.** `processEscrows` visits families in a fixed order and rows in
  key order. The model lets any row be replayed at any time, which includes every order
  of the code; a safety property of the model is one of the code.
* **Row of the same kind.** A replay that comes to the same escrow again leaves the row
  and rewrites nothing new; `ReplayEscrow` takes no step then.
* **Time.** Event escrow timeouts are long next to delivery and are left out; receipt
  timeouts are the choice `ExpireReceipt`, off where the constant `MayExpire` is FALSE.

### 2.3 Constants that bound

`MaxSn` (sequence numbers of a run's events), `MaxCrashes` (stops in a behaviour), and the
finite sets `Event`, `Messages`, `Receipts` in the modules about logs; `MaxRidx` and
`MaxMade` (rotations of an identifier and random keys made) in `Habitat`; `MaxFaults` and
`MaxLosses` (failing deliveries; stops and cut answers of the reader) in `Mailbox`;
`Streams` and `Chunks` in `Parser`. No other variable is bounded. `Resent` are the messages
the network may deliver again. `Lax` is the promiscuous mode for own receipts and notices;
the runs and the default of the code have it FALSE, the theorems cover both.

### 2.4 The other modules and the code

**`Delegation`.** `evts`, `kels`, `fels`, `state` as above without signatures; `aess`
(source seals kept, the delegator's event that anchors), `udes` (seals an escrowed event
came with), `esrs` (events that came locally), `escrow` (rows of `ooes.`, `pdes.`,
`delegables.`, `mfes.`, `ldes.`), `turn` and `due` (the place of a sweep), `own`.

| definition | code |
|---|---|
| `Receive` | `processEvent`: `decideEvent`, `validateDelegation`, `applyDecision` |
| `NextEscrow`, `Replay`, `Try` | `processEscrows`: families in its order, the rows a family had when its pass began |
| `FirstAlong`, `SearchBranch`, `SearchAll`, `AcceptedBoss`, `LastBoss` | the ways an approval is found: by the seal, along the log, eagerly, and by what was kept |
| `Outranks`, `Climb`, `Supersedes` | `validateDelegatedRecovery`, one delegator up at a time |
| `NewlyAnchored`, `RepairedFor` | the two repairs of source seals |
| `Approve` | `pinApprovalSeal` of the command line's approval |

A decision may pin a seal found on the way even when it escrows or rejects, so the
decision carries the seals after it (`aess` of a `Decision`). Left out: signatures and
witnesses (`Kever`), the check for a cyclic chain of approvals, which no chain of distinct
delegators has, and `Dnd` is empty in the runs. A message may arrive within a sweep, which
the code's single thread does not do: more orders, not fewer.

**`Revery`.** `sdts`, `rpys`, `scgs`, `ssgs`, `rpes` are the stores; `latest` and `shown`
stand for the pair of stores of each route (`eans.`/`ends.`, `lans.`/`locs.`,
`wwas.`/`obvs.`, `knas.`/`ksns.`); `known` is how far each signer's log has grown.
`Deliver` is a route handler with `acceptReply`, its cigars and then its groups in order;
`Sweep` is `processEscrowReply` on one row, with the rows it drops (`Lost`, timeouts) and
the error that ends the sweep (`Throws`); `Crash` stops after n of the writes of
`updateReply` and `removeReply`. Senders resend what they said. The route for watched
controllers decides as the role route does and is not run separately.

**`Habitat`.** A lot of keys is the name it was made under, its index and, for random
keys, a nonce. `pres`, `sits`, `pubs`, `pris` are the keeper's sub-databases; `habs`,
`names`, the habitat records; `log`, the keys in force and promised in the accepted log;
`prefixes` and `groups`, the memory of the node. `MakeHab` is `Habery.makeHab` to
`Hab.make`, ten writes; `RotateHab` is `Hab.rotate` with `Manager.replay` or
`Manager.rotate`, five writes and the rollback; `CrashInMake` and `CrashInRotate` stop
after n of them; `Reopen` is `reloadKevers` and `loadHabs`. Groups are made, joined, and
accepted by a sweep (`AcceptWaiting`, by the cues of `emitAcceptanceCues`).

**`Mailbox`.** `todo`, `failed`, `sent`: a send in progress; `body`, `tgts`: the outbox;
`seen`, `job`, `dead`: each poster's pass; `topic`, `bodies`: the provider's index and
messages, two writes; `cursor`, `batch`, `ingested`: the recipient. A delivery may fail,
have its answer lost, or stop the provider between its two writes. `RemoveMailbox` and
`LearnRemoval`: the recipient gives a mailbox up, and the sender hears of it later. A poll
may be cut inside a message, and the reader may stop with a batch in hand.

**`Registries`.** `tels`, `tvts`, `ancs`, `tibs`, `baks`, `states`: the stores of `Reger`;
`rows`: `taes.`, `oots.` and `twes.`; `saved`, `waits`, `late`: the verifier, its escrows
`mre`, `mce`, `mse` and the rows an hour old; `ctel`, `cmse`, `ccrd`: the owner's
registrar and credentialer. `AcceptKel` grows the log of anchors by extension or by
recovery. `Receive` is `Tevery.processEvent`, `Replay` a row of `Tevery.processEscrows`,
`Show`, `Retry` and `GiveUp` the verifier, `Make`, `StopAfterAnchor` and `Finish` the
owner, `StopBeforeCache` a stop between the log of an event and the registry's state.

**`Parser`.** The stream is a sequence of parts of a few shapes, and a part has a size and
the bytes its parse asks for; `held` of them are in the buffer. The actions are the
branches of one turn of `drain` (`SkipAno`, `ResumePending`, `EmitQueued`, `ParseBase`,
`Exhausted`), `Feed` and `Flush`. `framed` chooses `BoundedFrameBoundaryPolicy`. The
contents of groups, version contexts and the two encodings of a counter are left out; the
rest of a part cut by a reset reads as garbage, and bodies that are not native are read as
native ones are.

## 3. Runs

Prefixes, keys and events are strings or model values; no symmetry is used, because
those of one run play different parts.

| run | instance | shows |
|---|---|---|
| `Recovery` | 8 events of one remote identifier: two recoveries (at sn 1 and sn 2), a fork at sn 2, an interaction after a recovery, a rotation behind the head; any order, any repetition | `KelChain`: what is left below the head is a chain; `FirstSeenOnce`; `EstNeverSuperseded`; `ImplementsKeyEventLog`; `LogInv`, the inductive invariant of the proofs; `TypeOK` |
| `Signing` | two keys, a rotation with a third key the old list did not commit to, split signatures, a retired key, a superseded interaction; one stop between any two writes of any delivery or replay | `AcceptedAuthorized`: both thresholds are reached from verified, stored signatures; `StateFromChain`; `StateNeverRollsBack`; `WriteOrder`: neither log nor state is ahead of what it refers to |
| `Witness` | three witnesses of which two must sign, a rotation that shifts their places, receipts before and after their events as couples and as indexed signatures, timeouts; an own identifier and one with a local witness, seen from both sources, one restart | `AcceptedWitnessed`; `EstReceiptsFiled`; `ProtectedOnlyLocal` |
| `Delivery` | witnessed events no message of which is enough by itself; an identifier that receipts another's inception in groups sealed by its inception, by an interaction, and by the rotation that supersedes it; a local log cut short by a stop between any two writes and given again | `Converges` and `SweepsCatchUp`: the sweeps bring each log to its last event, keep the good receipts, and leave nothing behind that could be accepted; `TransReceiptsSealed` |
| `Replies` | three replies about a role in halves under two establishment events, groups under a wrong number or with a wrong key, three replies about a location, of which and of those about the role two have one date, five notices of a key state by three authors, an interaction recovered from; one stop | `ShownOnRecord`, `ShownAuthorized`, `BestPrevails` |
| `Habitat` | a salted and a random name, a group, rotations refused, two stops between any two writes | `KeysKept`, `KeeperFollowsLog`, `OwnsItsHabitats` |
| `Mailbox` | two messages, two mailboxes, two posters, two failing deliveries, one stop or cut answer of the reader | `SentIsKept`, `OnePosterSurvives`, `NothingSkipped`, `SentIsRead` |
| `Delegation` | a delegator that recovers from the anchor of a delegate's rotation by a rotation that anchors two others, an outsider that anchors too; a chain of three identifiers in which approvals compete one level up; at a stranger and at the delegator; with and without source seals; two identifiers of the node's own, one of them a delegate, whose rotations come once too often, and one of the delegate's back from the network after its rival | `DelegatedAnchored`, `SealsNameAnchors`, `ChainStands`, `GivesWayToStronger`, `EstablishedStays`, `StrongestStands` |
| `Registries` | a chained credential before its source, its revocation; a log that recovers from the anchor of an issuance; a registry with backers that rotate; an hour's delay; the owner itself with a stop | `LogChained`, `LoggedAnchored`, `SavedVouched`, `NothingForgotten`, `LoggedAtLast`, `SavedAtLast` |
| `Parser` | every stream of up to three parts of twelve shapes, both policies, chunks of 0, 1, 2, 3 or 5 bytes | `NothingLost`, `AsItCame` |

Why the bounds are enough. What the decision about an event depends on is the head, the
last establishment event, and what stands at three neighbouring sequence numbers.
`Recovery` has all of these distinct, with each number contested where it can be. One key
at a time suffices there because signature counting is a question of `Signing`, which
separates index from prior index and signing from prior-next threshold with the smallest
lists on which they differ. Three witnesses with one replaced are the fewest whose places
move while the threshold is still below the number of witnesses. One stop or two suffice, as the
state after a start is a state of the model again, and the invariants say what it must
satisfy. Identifiers share state only through local keys, witnesses, seals and anchors;
each kind has a run with two or three of them. Three delegators are the fewest for an
approval that is itself compared by its approvals. Two posters are the fewest that share an
outbox, and two mailboxes the fewest of which one can fail; `MailboxProofs` takes any
number of each. Three parts hold a frame, a group and what follows; their sizes, 1 to 7
bytes, are cut at every byte by chunks of one, and chunks of two and more leave whole parts behind
the one that is cut.

Deadlock is not checked: a node that has processed everything waits for more.

### 3.1 Fairness

The code's loops never end and visit everything: `Reactor.escrowDo` (`app/reactor.ts:187`)
runs `processEscrows` of every component in each turn, `msgDo` drains the ingress, and
`runAgentRuntime` turns the mailbox and poster loops (`app/agent-runtime.ts:557`). So weak
fairness is asked of

* each escrow row's replay and each receipt row's replay in `Kevery`, and of delivery;
* the arrival of replies in flight, their resending by the senders, the growth of the logs
  and the sweep in `Revery`;
* the arrival of what is in flight and the pass through the tables in `Delegation`;
* the sweep of the tables in `Registries` (one row at a time in any order, of `taes.` and
  `oots.` and of the credentials' escrows; a row it leaves does not disable it);
* the reader's step and each poster's step in `Mailbox`. A poster that died takes no step.

Nothing is asked of sends, of making and rotating identifiers, of the person who approves a
delegation, of expiry, stops and starts. `Habitat` and `Parser` have safety properties
only.

`SweepsCatchUp` reads `[]<>`: with redelivery, from any state a state is reached in which
every event of `kels.` has been reached by the durable key state and no escrow holds an
event of the chain.

### 3.2 Where code and words part

Each of these runs has one property, what a document, comment or learning of the
repository says, and TLC finds a behaviour of the code against it.

| run | the behaviour |
|---|---|
| `CaseReopen` | After a restart a remote identifier is unknown to the live map, `decideEvent` asks only the map, and its inception, sent again, is accepted and pinned over the later durable state. Only local identifiers are reloaded. |
| `CaseRegistry` | A registry's inception that comes before its anchor is put into `taes.`, but the `Tever` constructor throws, which is read as a rejection, and the first sweep removes the row. Events after the inception wait in `oots.` for ever. |

### 3.3 Known limits

The modules also have, because the code has them, behaviours the properties do not claim
away.

Key events and receipts:

* an accepted inception sent again after the head moved is put in `ldes.` as duplicitous
  (`core/eventing.ts:778`), where adr-0005 would have it a duplicate;
* the traits of the state after a rotation are the rotation's (`core/kever.ts:995`), which
  a version 1 rotation does not carry, so an establishment-only identifier accepts an
  interaction after its first rotation;
* the keys of local identifiers include a group's own (`core/kever.ts:699`), so once the
  group has state here every signature of a remote message about it is set aside, though
  only those of local members are meant to be (`core/kever.ts:1142`);
* a second interaction at an accepted number is rejected without a trace, where a second
  inception goes to `ldes.` (`core/kever.ts:1062`);
* after a recovery, a receipt of an event not yet seen meets the superseded event at its
  number and is dropped as stale (`core/eventing.ts:619`);
* no witness list is stored with an interaction, so its receipt by a witness cut since is
  filed with the receipts of strangers (`core/eventing.ts:1999`); `EstReceiptsFiled`
  claims establishment events only;
* a rotation accepted while its `pwes.` row is still there has its cuts applied to a list
  that already has them, and a good receipt is dropped (`core/eventing.ts:2035`);
* the first group of a receipt that must wait or be dropped ends the reading, and the
  groups after it are lost (`core/eventing.ts:464`); a receipt sealed by a recovery
  rotation, read before the rotation and after what that supersedes, is dropped
  (`core/eventing.ts:1876`). `Converges` claims neither;
* the replays of `ures.` and `vres.` do not repeat the check on own receipts
  (`core/eventing.ts:1790`), so an own receipt that had to wait is stored;
* a *recovery* rotation logged in `kels.` but not pinned when the node stops is at or below
  the head after the start, is taken for a duplicate, and never becomes the state; and a
  stop between the append to `fels.` and the entry in `kels.` makes a redelivery append the
  event to `fels.` again. `WriteOrder` and `SweepsCatchUp` claim neither.

Delegation:

* the searches along the log return the last event at each number, and above a delegator's
  recovered head that is a superseded one (`core/kever.ts:729`), so a delegated event may
  be accepted on an approval its delegator took back; `DelegatedAnchored` claims an
  accepted anchor, not a standing one;
* a delegated rotation over one that is not the head is rejected before the approvals are
  compared, and some recoveries of a delegate stay in `pdes.` when the one they would beat
  was approved by an event no longer found. `StrongestStands` speaks of the ends of
  histories where the approvals are found, and of other nodes' delegates: an own delegate's
  events are accepted without comparing approvals, so there the last one stands;
* a delegated rotation that gave way to a rival and is accepted again is appended to `fels.`
  a second time but keeps its place in `kels.`, where `add` does nothing
  (`core/kever.ts:664`, `db/core/lmdber.ts:1852`): `getLast` answers with the rival at its
  number while the key state is at the rotation. An own delegate's gets there by a copy that
  comes back from the network, is held as misfit and replayed under the local provenance it
  had before; another node's by a later anchor. From then on the checks that go by `getLast`,
  of duplicates, priors and receipts, take the rival for the log. `ChainStands` claims
  what holds of these identifiers too, that each accepted event follows an accepted one, and
  the chain of last events for as long as none was accepted twice; identifiers that are not
  delegated never do that (4.4);
* a copy of an own event that comes from the network *with* a source seal is left out: the
  replay as misfit would accept it as local and keep its seal unchecked
  (`core/kever.ts:1419`). `SealsNameAnchors` assumes there is none (`Init`).

Replies:

* `fetchStoredTsgs` leaves out groups whose establishment event has no stored body, so the
  next sweep drops an escrowed reply that came before its signer's log
  (`core/routing.ts:104`); `Held` names the bodies the run stores early, and resending
  repairs the rest;
* of two replies with equal dates the first to arrive stays (`sameOrNewerReply`, which is
  strict), so two nodes may differ for good: `BestPrevails` claims that each stays with one
  that none outranks;
* a key-state notice is recorded under the SAID of the event it names and not its own, so
  dates never compete between notices; a notice stored before the log it is about makes the
  check on a mismatch throw;
* `escrowReply` pins, and so replaces, the group of a seal that came before;
* a group is stored under the number its message gives and read back under the number of
  its event (`core/routing.ts:119`), so a misnumbered group that no delivery accepts waits
  and is accepted by a sweep, if it signed enough;
* a stored group that never verified, of a later number, keeps newer replies out;
* an accepted reply whose row from an earlier half is still in the escrow shares its stores
  with that row: a sweep that finds the reply more than an hour old, or throws on a further
  stored group, removes the accepted record too, while the route keeps showing it
  (`core/routing.ts:683`). `ShownOnRecord` is claimed under `Orderly`, which has no such
  reply and no such group.

Keeper:

* a stop between `pinSits` of `Manager.rotate` and local acceptance leaves the keeper a
  rotation ahead of the log; the rotations after it expose the wrong keys and are refused,
  and the rollback puts the keeper back to where the stop left it. `KeeperFollowsLog` claims nothing after a stop;
  `KeysKept`, that no key is lost, holds with stops too;
* after a failed `makeHab` the keeper's entry stays, and a retry under the same salted name
  is refused as already incepted (`app/keeping.ts:1064`).

Mailboxes:

* a sender without an outbox drops the mailboxes that failed when at least one took the
  message, and else throws (`app/forwarding.ts:221`, `:336`). `Mailbox` has a sender with an
  outbox, and `SentIsKept` is about such;
* the cursor of a mailbox moves when a batch is retrieved, not when it is processed
  (`app/forwarding.ts:889`), so a stop, or a truncated answer, which is taken for a whole
  message (`app/mailbox-sse.ts:123`), loses what the cursor passed;
* a poster that marks a row another one pruned throws out of its loop
  (`db/outboxing.ts:389`); `OnePosterSurvives` is what is left, one always goes on.

Registries and credentials:

* rows of `twes.` are never swept, and an issuance with backers that had to wait in
  `oots.` loses its backers' signatures, so it ends in `twes.` for good;
* the first seal couple a transaction event came with is kept (`ancs` is put, not pinned);
* an issuance with backers may name a registry event that is still in escrow;
* a stop of the owner between anchor and registry event leaves an anchor of nothing;
* nothing checks that an issuance is numbered 0 (`vdr/eventing.ts:578`); the builders
  number it so, and the model takes it from them (`FormAssumption`);
* nothing calls the sweep of `cmse`; the model lets it run.

`LoggedAtLast` therefore speaks of issuances and revocations of backerless registries.

Parser:

* a chunk that ends between two groups of one message, neither wrapped, makes the greedy
  policy give the message out with the first group, and read the second as the start of a
  frame, which is an error and resets the parser (`core/parser-attachment-collector.ts:138`);
* of a generic group inside a generic group the inner siblings are queued before the outer
  ones (`core/parser-frame-parser.ts:526`), so frames 1, (2, 3), 4 come out as 1, 3, 2, 4;
* queued frames leave only with more bytes or at a flush; groups behind a generic group go
  to its first frame; under the bounded policy a flush with frames in the buffer drops them
  with one shortage error;
* an error resets deferred frames with the buffer, and a message cut short inside a counted
  group asks for more bytes for ever; in the reactor, whose parser is shared by all records
  (`app/reactor.ts:87`), the rest of a torn record swallows the start of the next.

`NothingLost` speaks of well-formed streams without nested generic groups and with one group to a
message; `AsItCame` of every stream without nested generic groups.

## 4. Proofs

Eight modules hold theorems. `KeveryProofs`, `StoreProofs` and `AuthorityProofs` are about
`Kevery`, each extending the one before; `DelegationProofs`, `MailboxProofs`,
`HabitatProofs`, `RegistriesProofs` and `ReveryProofs` about the module they are named for.

### 4.1 Logs and escrows

`KeveryProofs` proves, for every set of events, messages and receipts, every key, witness,
threshold and habitat the assumptions of the modules allow:

| theorem | statement |
|---|---|
| `LogInvariant` | `Spec => []LogInv` |
| `LogInvariantAcrossRestarts` | the same of `RestartSpec`, when all prefixes are local |
| `FirstSeenIsOnce` | `Spec => []FirstSeenOnce` |
| `ChainBelowHead` | `Spec => []KelChain` |
| `EstablishmentStays` | `Spec => []EstNeverSuperseded` |
| `ReceiptsStaySealed` | `Spec => []TransReceiptsSealed` |
| `StateOnlyAdvances` | `RestartSpec => StateNeverRollsBack`, when all prefixes are local |
| `Refinement` | `Spec => ImplementsKeyEventLog` |

Assumptions: `EventAssumption` (bodies are well typed), `AcyclicAssumption` (no chain of
priors comes back to an event: a SAID digests the body, the prior's SAID with it),
`KeyAssumption` (keys of one list are distinct, an interaction lists none),
`MessageAssumption`, `SignatureAssumption`. The restart theorems add `Pre \subseteq Habs`,
and `CaseReopen` shows that it cannot be dropped.

The argument. No property above is inductive. `KelChain`, for instance, follows for a
recovery only if the event at the number below the rotation is the one the rotation names,
which needs that nothing above it in `kels.` is mistaken for part of the chain, and that no
event can be logged twice. `LogInv` has what is needed, of the shape that a step preserves:

* `CacheIsDurable`: the live map is the durable states, so a decision is taken from what
  is stored;
* `HeadIsLast`: the state stands at the last first-seen event;
* `KelHoldsFel`: `kels.` and `fels.` hold the same events, each at its number;
* `PriorBefore`: the prior of an event was first seen before it;
* `EstBelow`: no first-seen establishment event is above the last one the state knows;
* `FelNumbered`: the ordinal of an event is its place.

The proof begins by reducing every action to one of two shapes. `Decides` gives, for each
verdict, what the event and the key state satisfied; `HandlerStep` says that any step of
`Next` either leaves the log as it is or is `Sees(e, n)`: e is appended to both logs and
the state moves to n by an inception, a rotation or an interaction (`Moves`). Then
`NeverSeen`: an event that moves the state was never seen. If it were, its prior was seen
before it (`PriorBefore`), it is at or below the head, and either it is the last at its
number, which is a duplicate, or a later establishment event stands above it (`EstBelow`).
From there `SeesKeepsLogInv` preserves the invariant one conjunct at a time.
`ChainInv` strengthens it with `KelChain` and `EstNeverSuperseded`, whose preservation
needs that an event replaced at its number is an interaction above the last establishment
event. `Refinement` maps the log to `fels` and the chain to the last event at each number up to the
head (`ChainAfter`: how it changes), and maps an acceptance to `Begin`, `Extend` or
`Supersede`; every other step stutters.
`ReceiptInv` adds to `ChainInv` that each stored quadruple is `Backed`: it was of an accepted
event and by a key of an accepted establishment event. Acceptance is for good, and by
`EstNeverSuperseded` the establishment event stays on the chain, which is the property.

### 4.2 Stores and crashes

`StoreProofs` is about `CrashSpec`, in which the node may also stop between any two writes
of a handler, any number of times.

| theorem | statement |
|---|---|
| `StoresTyped` | `CrashSpec => []TypeOK` |
| `WritesOrdered` | `CrashSpec => []WriteOrder` |
| `LocalStateNeverRollsBack` | `CrashSpec`: what `StateNeverRollsBack` says, of each identifier of `Pre \cap Habs` |
| `StateAdvancesThroughCrashes` | `CrashSpec => StateNeverRollsBack`, when all prefixes are local |

A crash after n writes is the first n of the ordered writes of a decision (`AllWrites`), so
each proof goes over the states that any prefix of the writes can leave. `WriteOrder` needs
`CacheBehind`, that the live map holds of each identifier its durable state or, if the
identifier is not local, nothing: a start after a crash leaves it so. `DurableInv` adds that the last establishment
event of a state is not numbered above its head. The other identifiers of a node are those
`CaseReopen` is about, hence `Habs`.

The witness lists of a log and the key state at an event are recursive functions over data
(`Without`, `GovEst`, `GovWits` of `KelEvents`). That they are total, and the equation of
each, is proved by the least counterexample: for numbers from the library's `WFMin` and
`NatLessThanWellFounded`, for chains of priors from `AcyclicAssumption`
(`PriorInduction`, `WithoutUnfolds`, `GovEstUnfolds`).

### 4.3 Authority

`AuthorityProofs`:

| theorem | statement |
|---|---|
| `StateIsReplayed` | `Spec => []StateFromChain` |
| `AcceptedAreAuthorized` | `Spec => []AcceptedAuthorized` |
| `AcceptedAreWitnessed` | `Spec => []AcceptedWitnessed` |
| `ProtectedAreLocal` | `Spec => []ProtectedOnlyLocal` |
| `WitnessReceiptsCounted` | `Spec => []EstReceiptsFiled` |
| `StateIsReplayedAcrossRestarts` | `RestartSpec => []StateFromChain`, when all prefixes are local |
| `AuthorityAcrossRestarts` | `RestartSpec => [](AcceptedAuthorized /\ ProtectedOnlyLocal /\ EstReceiptsFiled)`, when all prefixes are local |

`GovernedInv` is `TypeOK`, `ChainInv` and `StateGoverned`: the keys, thresholds and
witnesses of the key state are those that `GovEst` and `GovWits` give at its head. Those
two are computed along an event's own priors, the state by the moves of the Kever; the two
agree since an event is accepted upon the state of its prior or, for a recovery, upon one
whose last establishment event has not changed since the prior. So what an event was checked against is what
its chain puts in force, and `Vouched`, what was checked is stored and stays stored, gives
the first three properties about events. The filing of receipts needs two more: the witness
list stored with an accepted establishment event is the one its chain gives (`WitsStored`),
and couples are stored of accepted events only (`RctsAccepted`).

These are not proved of `CrashSpec`. A stop after a recovering rotation is in `kels.` and
before the state is pinned leaves a log whose last events the state does not know (section
3.3), and then the invariant does not hold; the run `Signing` checks `AcceptedAuthorized`
and `StateFromChain` with stops on its histories.

### 4.4 Delegation

| theorem | statement |
|---|---|
| `DelegatesAreAnchored` | `Spec => []DelegatedAnchored` |
| `KeptSealsNameAnchors` | `Spec => []SealsNameAnchors` |
| `RotationsGiveWay` | `Spec => GivesWayToStronger` |
| `LogsStayChained` | `Spec => []ChainStands` |
| `BelowEstablishedStays` | `Spec => EstablishedStays` |

`DelegationProofs` assumes `DelegationAssumption` (bodies are typed, identifiers are
finitely many) and `InceptionAssumption`: an inception is a `dip` exactly when its
identifier has a delegator, as a `dip`'s prefix is the digest of a body that names one
(`packages/cesr/src/serder/serder.ts:1717`). The families of delegators are any, cycles
included. That messages of a node's own identifiers carry no source seal, those that come back from
the network included, is in `Init`: `app/habbing.ts` processes its own events without one.

`DelegationInv` says that each log holds its own identifier's events and what is stored at
a number or named by the key state was first seen (`LogsAgree`), that kept seals approve
what they are kept for (`HintsGood`), and that own events wait without a seal that does not
(`OwnUnsealed`). The five ways to find an approval answer with accepted events of the
delegator that anchor, and change kept seals to such only; the climb along the delegators
keeps that at every level (`SupersedesGood`); so does every decision (`Decides`).

For `RotationsGiveWay`, `Beats` is what the property means by stronger, defined from the
events alone and not by the searches. `ClimbBears` follows a claim up: if the approvals of
level i beat each other within the levels that are left, the two rotations do. A
rotation accepted at its number is either in turn, which `LastEstablishes` excludes (what
follows the last establishment event in the log has a later number), or was compared.

`ChainStands` and `EstablishedStays` are about `LastEvents`, what stands at each number. An
accepted event is the first, at number 0, or fits (`AcceptedFits`): it follows the head, or
its prior stands right below it and its number is above the last establishment event's or,
of a delegated identifier, not below it. The other numbers are untouched, and at its own a
new event is the last (`AcceptedLast`): so what is below the last establishment event stays
(`StepStays`), accepted again or not.

The chain needs that the event is new. Of a delegated identifier the property supposes it.
Of the others it is proved: `Foremost` says that nothing in the log follows the head or
establishes keys above the state's establishment event, and an accepted event does one of
the two (`AcceptedNew`); it in turn stays so as what is accepted follows something accepted
(`Linked`, `AcceptedLinks`), hence nothing accepted before follows the new head. The chain
under a new event is then the old one cut at its number (`ChainGrows`). The invariant is
`DelegationInv` with `ChainInv`: `LastEstablishes`, `OrderInv` (numbers, links, `Foremost`,
no event twice) and `ChainStands`. Both theorems hold of the node's own identifiers too, and
of delegates whichever way their approvals were found.

### 4.5 Mailboxes

| theorem | statement |
|---|---|
| `MessagesKept` | `Spec => []SentIsKept` |
| `PostersSurvive` | `Spec => []OnePosterSurvives` |
| `ReaderSkipsNothing` | `Spec => []NothingSkipped` |

`MailboxProofs` assumes, as `Mailbox` does, that the sender has an outbox (3.3), and `MailboxAssumption`: the marks of a row are none of the messages or
mailboxes, and there is a poster. Messages, mailboxes, posters and failures are any number.
For `SentIsKept` the invariant adds where a message is before its send returns (`Sending`:
each mailbox that serves is still to be tried, was tried in vain, or keeps it) and what an
answer means (`Delivered`: a poster that was answered was answered after the provider's
writes). For `OnePosterSurvives` it adds `OneLives`: some poster is alive and its next mark
will not fail. A poster that prunes a message holds no row afterwards, so it is the witness,
however many others hold rows of that message. For `NothingSkipped`, `ReaderInv` adds that
a cursor is never past the topic's end and a batch holds messages only; a message whose body the
provider keeps only at a second delivery is at a later index then, past the cursor.

### 4.6 Keeper and habitats

| theorem | statement |
|---|---|
| `KeysNeverLost` | `Spec => []KeysKept` |
| `HabitatsOwned` | `Spec => []OwnsItsHabitats` |
| `KeeperKeepsPace` | `Spec => []KeeperFollowsLog` |

`HabitatProofs` assumes `HabitatAssumption`: a name is salted or random, not both; groups
are not lots; there is room for one rotation. A behaviour may stop between any two writes,
any number of times. `KeysInv` says that a lot belongs to one identifier (`Owned`, `Apart`:
what is erased after one identifier's rotation is never another's key), that lots, public
keys and the log count in step (`Numbered`), and that the public keys kept beyond the log's
current ones have their private keys (`LaterKept`), on which a rotation relies that finds
its keys made before a stop. `OwnerInv` says that the prefixes are the accepted habitats and needs
`KeysInv` only for that a new identifier has no log yet. `KeeperFollowsLog` claims nothing
after a stop (section 3.3); for the time before, `FollowInv` adds that the keeper's old, current and next lots are
the public keys at their indices and that the keys of older lots are erased (`PlacesKept`), which a
refused rotation restores.

### 4.7 Registries

| theorem | statement |
|---|---|
| `CredentialLogsChained` | `Spec => []LogChained` |
| `LoggedOnAnchor` | `Spec => LoggedAnchored` |
| `SavedAreVouched` | `Spec => SavedVouched` |
| `WaitingAreKept` | `Spec => NothingForgotten` |

`RegistriesProofs` assumes `RegistriesAssumption` (bodies are typed, a registry is not a
credential, the bound leaves room for a revocation) and `FormAssumption` (a registry's
events are of its log, a credential's of the credential's, an issuance has number 0; the
builders make them so, see 3.3). The key event
logs grow by any extension and any recovery. A verdict "accept" gives that the event is
`Anchored` in the log as it is in that step and is no `Misfit` of what is logged
(`AcceptNeeds`); every other step leaves the transaction logs, so the first two theorems reduce to
the action that records. The chain is kept since a record replaces nothing of a
credential's log that a later event names. A credential is saved, or refused, by the first
of its edges that does not hold (`LeastOf`); `SavedNeeds` and `RefusedNeeds` say what each
fate needs, the status of an edge being read off the log's first two places
(`LogFromStart`).

### 4.8 Replies

| theorem | statement |
|---|---|
| `ShownIsAuthorized` | `Spec => []ShownAuthorized` |
| `ShownIsOnRecord` | `Orderly => (Spec => []ShownOnRecord)` |

`ReveryProofs` assumes `ReplyAssumption`: bodies are typed, a notice of a key state shares
no slot with other replies, and no message has two groups of one seal. Signers, logs with
any recoveries, replies and messages are any.

`Authority`, the first invariant, adds to `ShownAuthorized` that each stored signature was
in a message, under a group of the same author and event (`SignaturesSent`). A group
accepted by a delivery or a sweep has, with what was stored under its seal, verified
signatures of its event's threshold. All of them were sent, so the signatures sent
for that event reach it too: the verified ones inject into the indices of its key list, so
both sets are finite and the larger has no fewer. `ShownAuthorized` holds whatever expires,
throws, is dropped or is cut short by a stop.

That the record of what is shown stays stored is another matter: accepted and waiting
replies share their stores, and dropping a waiting row empties them. `Orderly` says when
this takes nothing away:

* `Late = {}`: no reply waits an hour. An accepted reply left in the escrow by an earlier
  half would be dropped, body and signatures (TLC shows it, with `add` of the run late);
* `SignedByEst`: who signs by groups names establishment events. A stored group of an
  interaction makes the sweep of an accepted reply throw, and drops it;
* `EstStays`: no establishment event is superseded, as holds of identifiers that are not
  delegated (`EstNeverSuperseded`, `BelowEstablishedStays`). A group of a superseded
  one no longer resolves, and is pinned unverified over what was accepted;
* `SignedOneWay`: a reply signed by a key that is its own prefix is not signed by groups as well.

The module of the run assumes `Orderly` of its instance, and TLC evaluates it. `RecordInv`
adds to `Authority` that rows are of replies (`Waiting`), and that a stored body has its
date, a waiting reply comes with groups and a reply kept by couples was so signed
(`StoresAgree`). `DecideSound` says what a decision stores, `PinKeepsRest` that a
pinned group that resolves keeps enough signatures, `WaitingRecordSwept` and
`EstNotThrown` that the sweep of a waiting reply on record neither finds it lost nor throws.

### 4.9 Only model-checked

* `ShownOnRecord` outside `Orderly`: it is false there (4.8).
* `NothingLost` and `AsItCame`: `Parser` is built from recursive operators over the stream,
  which the prover cannot use.
* `Converges`, `SweepsCatchUp`, `BestPrevails`, `SentIsRead`, `StrongestStands`,
  `LoggedAtLast` and `SavedAtLast`: liveness, under fairness.
* With stops between two writes: `AcceptedAuthorized` and `StateFromChain` (4.3).


## 5. Not modelled

What is left of the protocol's own logic, and why it is left:

* **Queries and their continuations** (`app/querying.ts`): a query is answered or escrowed
  by one lookup; the key-state noticer and log querier are continuations over cues and
  coroutines whose effect on a log is the events they bring, which `Kevery` takes in any
  order. That a noticer finishes without another notice is a hazard no property covers.
* **Exchanges and presentation** (`app/exchanging.ts`, `app/ipexing.ts`,
  `acdc`): the escrow of exchanges is that of replies over fewer stores; the conversation is led by
  persons.
* **Groups' proposals** (`app/grouping.ts`, `app/multisig-workflows.ts`): collected by
  persons. The signatures of groups are in `Kever`, the life of their habitats in `Habitat`.
* **The Anchorer** (`app/delegating.ts`): `dpwe.`, `dune.` and `dpub.` carry one own event
  through requests to witnesses and a delegator; what they wait for is the acceptance
  `Delegation` and `Kevery` model.
* **Receipts attached to replayed events** (`core/eventing.ts`): found by first-seen
  ordinal; they would join `DeliverEvent` as another kind of group.
* **Two processes on one database**: needs a second live cache beside the stores of `Baser`
  and the transactions of LMDB; the outbox, which is shared in practice, is in `Mailbox`.
* **A sender without an outbox** (`app/forwarding.ts:221`, `:336`): the outbox is an option of
  `Poster`, and `Mailbox` assumes it is there. Without it a mailbox that failed is forgotten
  once another took the message, so there is no promise to check.
* **A crash inside `queueMessage` or a prune** of the outbox, and the direct and witness
  fallbacks of a delivery.

Outside the protocol: encodings of CESR primitives, serders and their field order, LMDB's
key layouts, HTTP, OOBI fetching and well-knowns, notifications, contacts and challenges
(stores with one writer), did documents, the command line and hosts, logging. Their code is
most of the repository's lines: tables of codes, encoders, command definitions and
adapters, which have no state a model checker could explore.

## 6. Running

    tlc -workers 2 -config MCRecovery.cfg MCRecovery.tla
    tlapm KeveryProofs.tla
    tlapm MailboxProofs.tla
    tlapm HabitatProofs.tla
    tlapm StoreProofs.tla
    tlapm AuthorityProofs.tla
    tlapm DelegationProofs.tla
    tlapm RegistriesProofs.tla
    tlapm ReveryProofs.tla

`PROJECT.json` names the module and configuration of each run, maps each definition to
its lines, and gives for every checked property a mistaken definition under which it fails.
