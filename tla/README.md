# A TLA+ model of Valence

Valence is a protocol and a C++ library for motion machines: a *hub* sits in the
machine, *clients* connect over network, serial or in-process links, read the
machine's state, write its settings and stream motion to it. This directory
models the hub library (`src/lib/valence/include/valence`), the C++ client
beside it and, where documents travel in chunks, the JavaScript client
(`src/clients/js`), checks the models with TLC on small instances and proves the central
invariants with TLAPS for every size.

File names below are relative to `src/lib/valence/include/valence/` unless they
say otherwise. `PROJECT.json` maps every definition to its lines.

## 1. The system

The library is single-threaded at each end. An owner loop calls `update(now)`;
the hub then walks its slots in order, drains each slot's transport, runs that
slot's timers and finally pumps what is due. All concurrency comes from
outside: several clients, links that delay, lose, repeat, reorder, refuse or
break, a machine that calls the hub between two updates, a worker that signs,
and clocks.

| Component | State it keeps | Operations | Hard behaviour | Correct when |
|---|---|---|---|---|
| **Hub sessions** `hub/hub_impl.hpp`, `session/session.hpp` | slots: transport + at most one session (state, id, role, readiness, timestamps) | HELLO, reattach, AUTH, CATALOG_READY, GOODBYE, admin ops, attach/detach, three timers, eviction | eight doors a session leaves by; sends in the middle of a handler that park the session being handled; reattach moves a session between slots | one session per identity, no lease outlives its session, bounded silence |
| **Source ownership** `session/safety.hpp` | owner and role of each motion source | acquire, release, release-all-of | named by session id from other tables | an owner is a session that is being served, and is the one announced |
| **Intents and trials** `channel/intent_registry.hpp`, `hub_impl.hpp` | idempotency ring, `cfg_gen`, trial table; the settings belong to the delegate | INTENT, commit, revert, session end | duplicates, late intents, compare-and-set across reverts, partial application | applied once, echoed truthfully, storage = baselines |
| **Retained state, subscriptions, pacing** `channel/retained_store.hpp`, `channel/subscription.hpp`, `channel/state_apply.hpp` | value + sequence number per channel, grants and push records per session | publish, subscribe, push, withdraw | sequence numbers wrap, pushes refused, channel ids reused | clients see a latest-value register and converge |
| **Shedding** `session/shedding.hpp` | congestion level, shed counters | `shedDecision`, stall tracking | a stalled link parks its session | nothing above background starves |
| **Client library** `client/client_impl.hpp` | shadow, handshake, catalog cache, intents, ESTOP repetition, verdict on the hub | connect, handle frames, pumps | gates that wait for a count fixed earlier; repeats that answer a newer question | reaches LIVE, has what was promised |
| **Catalog and live change** `channel/catalog*.hpp`, `wire/catalog_*.hpp` | entries, etag | `catalogChanged`, encode, digest | sessions on an old etag; grants, transfers, queues and snapshots of what is gone | degraded sessions are known |
| **Safety latches and ESTOP** `session/safety.hpp`, `hub_impl.hpp` | levels, modes, `estop_seq`, retained snapshot | ESTOP frame, op, machine call; release, pause, override, resume, home | repeat until latched over lossy links, two independent counters | a stopped machine stays stopped until the owed acts |
| **Pairing and trust** `session/pairing.hpp`, `channel/trust_channels.hpp` | ledger, knocks, PIN and presence windows, strikes, two retained snapshots | HELLO token, AUTH, PAIR_REQ, approve, deny, revoke, evict, demote, save, restart | questions that outlive their asker; suspended devices; a crash between change and save | no answer without its asker, a suspended device only looks, a clean ledger is the stored one |
| **Blob and catalog transfer** `wire/blob_chunks.hpp`, `wire/messages/blob_req.hpp`, `hub_impl.hpp`, `src/clients/js/session.js`, `src/clients/js/catalog.js` | a cursor per slot; a queue of fetches and two reassemblers per client | BLOB_REQ, pump, repair, abandon | documents that change, vanish or become forbidden under a transfer; chunks of an older transfer and repairs of a newer one reach the same reassembler | one transfer is one revision, and ends; what a fetch yields is one revision, whole |
| **Stream ingress** `wire/stream_bundle.hpp`, `hub_impl.hpp` | grants, token buckets, quiet clock | HELLO/PUBLISH grants, STREAM, quiet release | stamps of a wrapping clock, late bundles, takeovers | playout is within the lead cap and is never cut short |
| **Events and log** `channel/event_channel.hpp`, `channel/log_channel.hpp` | a queue per session, the log's replay ring | publish, drain, replay at a grant | one queue for all channels; draining from inside any handler | order is kept, no loss is silent |
| **Signing** `hub_impl.hpp`, `client/client_impl.hpp` | sign job per slot, the worker's jobs, the client's verdict | arm, take, submit, abandon; verify, time out | the session may be gone or another one when the worker is done | a signature reaches whom it was made for, once |
| **Saved networks** `net/saved_networks.hpp` | bounded list | add, forget, reorder | eviction and storage order | the list is what storage holds |
| **Transport binding** `transport/*.hpp` | queues | write, read | a full queue refuses | – |
| **Codecs, crypto, conformance** `wire/*`, `core/crypto.hpp`, `conformance/*` | none | pure functions | bytes | test vectors |
| **Other ends** `src/clients/js`, `src/clients/mfp`, `src/clients/provision`, `src/hub/bench`, `src/tools` | sessions of their own | reconnect loops | differ from the C++ client | the blob receiver of JS is in `HubBlob`; the rest is planned (JS, MFP) or left out |

**Interactions.** Sessions are the centre: sources, trials, rings, grants, push
records, knocks, transfers, queues and sign jobs all hang on a session or its
slot, and `teardownSession`, `markStale`, `parkAndDetach` and `handleReattach`
have to end or move each of them. The catalog's etag gates everything a session
may send or be sent. Settings change under trials, and each change moves
`cfg_gen`. The safety plane reaches every ready session through the retained
store, and reads roles from sessions; trust decides those roles.

## 2. Modules

| Module | Models | Composition |
|---|---|---|
| `HubSessions` | the slots, sessions, timers, sources and trial leases | – |
| `HubIntents` | intents, ring, `cfg_gen`, trials, the sending client | sessions come and go as `HubSessions` has them |
| `StateSync` | hub and one subscriber on the STATE plane, with the client's handshake | implements `LatestValue` |
| `LatestValue` | what the STATE plane promises | abstract |
| `HubSafety` | latches, safety ops, snapshot broadcast, the clients' ESTOP repetition | – |
| `HubTrust` | ledger, ceremonies, tripwire, worklist and roster | sessions reduced to device, role and link |
| `HubStreams` | publish grants, bundles, source owner, quiet release | sessions reduced to state and readiness |
| `HubBlob` | chunked transfers, the hub and the JavaScript client | – |
| `HubEvents` | event queues, log and replay | a slot and its identity are one |
| `HubSigning` | deferred and inline signing, the client's verdict | sessions move between slots as in `HubSessions` |
| `HubPlanes_proofs` | theorems about `HubSafety` and `HubEvents` | extends both and TLAPS; they share no variable |
| `*_proofs` | theorems about each of the others but `LatestValue` | extend them and TLAPS |
| `MC*` | small instances of each | extend them |

### HubSessions

`port[s]` is the transport half of a `Slot` (link kind, congested or not, since
when a never-shed send has stalled), `sess[s]` its `HubSession`, `owner` and
`ownerRole` the `SourceOwnershipTable`, `trial` the session column of `_trials`.
`cursor` is the slot `update()` is at: frames of slot *s* are handled while
`cursor = s`, `PumpTimers(s)` runs the deadman, READY timeout and idle timers and
moves on, and the application's own calls happen at `cursor = 0`. Each handler
that sends chooses the fate of its answer (`Answers`: written, refused, or
refused with the stall window run out), because `sendFrameToTracked` may park the
session in the middle of it. A role is what a token or approval yields
(`Tokens`); pairing itself is in `HubTrust`. Session ids are fresh when issued:
the code draws a random non-zero 32-bit number and does not look for a collision,
so uniqueness of ids rests on that assumption.

### HubIntents

`live` and `saved` are the settings in effect and in storage, `gen` is `_cfgGen`,
`trials` the table of `TrialEntry`, `ring[c]` the `IntentRing` of *c*'s session
(each entry with the intent it is of). The wire holds sent intents and delivers
one late, again or never, but never after more than `Window` newer ones, and
loses them with the link. The settings belong to the application's delegate and
are modelled from the contracts in `hub/hub.hpp`, the clamping of a value from
the delegate of the bench hub: `MachineChanges` is a setting the machine moves
itself, followed by `bumpConfigGeneration`; a delegate may apply any part of a
write; `restoreTrial` finds the old value still legal.

### StateSync and LatestValue

One subscriber suffices because subscribers do not influence each other on this
plane. The link is a sequence of frames with a capacity; `Ordered` and `Lossy`
choose its kind. Frames *to* the hub are handled in the step that sends them. The
catalog channel is kept apart from `Channels`, a catalog is the number of its
etag (each one new, so that the memory of a refused etag has no effect), and
fetching it is one step. (`HubBlob` takes such a fetch apart, for the JavaScript
client.) `Subscribe` is a late
wish, `Disconnect` and `Park` the two ways to leave. Versions are history:
`retained[ch].ver` counts the values ever published on a channel, and a shadow
keeps the version it shows, which is what the refinement to `LatestValue` reads.
`untold` is history too: the channels whose CHANNEL_WITHDRAWN the current link
refused.

### HubSafety

`word`, `modes`, `estopSeq` and `retained` are the hub's; `active`, `failed`,
`sent`, `attempts` and `shadow` each client's. A handler makes its change and then
calls `publishSafetySnapshot` and `broadcastSafetyNow` itself, as the five handlers
of the code do; the ops publish only what `applySafetyOpLatch` reports as a change
(`Changed`). Frames in flight stay until their
link closes, so each may arrive late, repeatedly, out of order or never. What the
machine decides (`canClearEstop`, whether the delegate accepts an op) is free.
`stopped`, `initiators` and `owed` are history variables no action reads: whether
the hub has been latched since a client's initiation, whose frames have latched
it, and which operator acts are outstanding.

### HubTrust

`ledger` is `PairingManager::_entries` by device, `dirty` its flag, `saved` the
blob in non-volatile memory; `pending` is the `PendingPairingList`, `pin` and
`presence` the two windows as the time left, `shown` and `roster` the retained
snapshots 0x000A and 0x000D. `Admit` is the common tail of `handleHello` and
`handleReattach` with the version tripwire (`applyTrustObservation`);
`AuthAccepted`/`AuthRefused` are `handleAuth`, `PinAccepted`/`PinRefused` and the
four `Knock...` actions `handlePairReq` and `handleKnock`, `PairApprove`,
`PairDeny`, `Revoke`, `Evict` the ops of `handleAdminIntent`, `ApproveAtMachine`
the button on the machine. A token is "absent", "other" or the one in the
device's entry. A device names itself in PAIR_REQ, as `Client::sendPairReq` does.
The application saves after each call that made the ledger dirty, so nothing but
`Save` and `Restart` happens while it is: the crash to fear is the one between.

### HubStreams

One channel mapped to one source of kind `stream`. Every moment is kept as its
distance from now: a millisecond deadline as the time left, a microsecond stamp
as its place in the half-range window of the ring (`Wrap` is `timeDelta`). `phase`
separates the frames of an `update()` from `pumpQuietRelease` at its end. The five
`Stream...` actions are the exits of `handleStream`, in the order of its checks;
`ClampLead` yields two values where the code's signed subtraction overflows.
`WriterAndParserAgree`, an assumption TLC evaluates over all short arrays, says
that `BundleView::parse` accepts exactly what `BundleWriter` can write. `played`
and `until` are history: the last bundle as stamped and as handed on, and the time
until all that was handed on has played.

### HubBlob

`pb[s]` is `Slot::PendingBlob`; `of`, the revision a transfer was armed for, is
history. `rev` says which revision each of the two documents has: the hub keeps no
bytes between updates, so a cursor sends what it finds. `Pump` is
`pumpBlobTransfer`.

The receiver is the JavaScript client (`src/clients/js/session.js`, `catalog.js`), the
one that fetches store items and asks for repairs. The C++ client takes whole
catalogs only (`client_impl.hpp:672` drops every other chunk) and its
`BasicChunkReassembler` compares neither generation nor size; nothing here is claimed of
them. `rx` is whichever of its transfers is on the wire, the catalog's
(`catalogInFlight`) or the head of the fetch queue's, with its reassembler.
`HandleBlobChunk` is `handleBlobChunk` with `handleStoreChunk`: `Restarts` is the test at
`session.js:1014`, and, since the catalog has generation 0 throughout, also the one at
861. `Client` is what its pump and its callers start (`Ask`, `AskRepair`, `GiveUp`),
`HandleNack` what a refusal ends, `RefuseBlob` what a document over `maxTotalBytes`
does. Four things are abstracted. At most one BLOB_REQ of a session is underway. The
count of catalog restarts is a free choice to go on or stop. A digest, the
catalog's, the caller's or the item's own, is a free choice to hand over or not, so
`ItemIsWhole` leans on none. And `StoreMoves` gives each change of an item a
new generation: what `readBlob` promises, and what the hub's own ledger items do not
do when only a label or a stamp changes (`pairing.hpp` 617-649); those fit in one
chunk. `taken`, what the last fetch resolved with, is history.

### HubEvents

`sess[s]` holds the queue, grants, gate and link of a session; an event is its
number and its channel. `publishEvent` fans out and then drains every session, from
inside any handler, so the handlers are functions on a value (`Now`, `Becomes`)
composed in the order of the code. A push of several events (`PushEvents`, the replay)
and the emptying of a queue (`Handed`) say what the loop of the code arrives at. A
withdrawn channel is one whose entry changed or vanished alike. `owed`, `last` and
`inOrder` are history.

### HubSigning

`sess[s]` has the signing fields of a slot, `jobs` what the worker took and has not
handed back, `wire[s]` the frames to the client at that slot, `client[c]` its nonce,
session and verdict. A signature is the pair (session, nonce) it was made for; the
hub is honest and signs with the pinned key.

## 3. What is checked

| Run | Instance | Shows | Distinct states |
|---|---|---|---|
| `sessions` | 2 clients, 1 session place (2 slots), 1 source, 1 trial, 2 catalogs, congestion and stalls, clock to 3 | `TypeOK`, `LeasesAreServed`, `DegradedIsKnown`, `DeadmanBoundsOwnership`, `ReadyWindowBounded`, `ServedIsAttached`, `ResumesWithoutControl` | 160 000 |
| `sessions_pressure` | 3 clients, 2 session places (3 slots), two roles | `OneSessionPerIdentity`, `PressureSparesLive` | 120 000 |
| `intents_trials` | 2 clients, 2 settings, a trial table of 1 | `BaselinesAreStored`, `TrialIsExclusive`, `GenFollowsSettings` | 199 000 |
| `intents_retry` | 1 client, 3 intents, ring of 3, window of 2, repeats and preconditions | `NeverReapplied`, `EchoTruthfulInOneRun`, `CasSeesNoChange` | 121 000 |
| `state_converge` | 2 channels, ordered link of 2 frames, 2 connections, congestion, channels that come and go, fixed entries that change | `Converges`, `ReachesLive` | 271 000 |
| `state_datagram` | 2 channels, a lossy reordering link, sequence numbers from 6 modulo 8, 3 values, 2 connections | `LiveHasAdopted`, `ImplementsLatestValue` | 750 000 |
| `safety_latch` | 1 client, ESTOP cuts power, 2 initiations, 2 attempts, 5 publications | `ShownIsInForce`, `OverrideCarriesPause`, `StopHolds`, `SoleInitiatorIsTold` | 473 000 |
| `trust_ledger` | 2 devices, 2 slots, a ledger of 1, a list of 1, network and cable, 2 versions | `KnocksAreBound`, `ReapprovalIsKnown`, `SuspendedOnlyLooks`, `WorklistIsCurrent`, `CleanIsSaved`, `MembershipIsAnnounced` | 319 000 |
| `signing_queue` | 2 clients, 2 slots, 3 nonces, 2 session ids, failing writes | `SignatureReachesItsClient`, `SignedOnce` | 244 000 |
| `blob_transfer` | 1 session, 3 revisions of two sizes, one of them over the client's budget, 2 chunks, link of 2 frames, 2 requests | `ItemIsWhole`, `OneRevisionPerTransfer`, `TransfersEnd` | 409 000 |
| `streams_quiet` | 2 sessions, a ring of 12, bundles of up to 2 samples and malformed ones | `StampsAreHeld`, `RetainedOwnerIsCurrent`, `QuietIsReleased`, `NoReleaseMidPlayout` | 341 000 |
| `events_queue` | 1 session, 5 channels, a queue of 2, a ring of 3, 3 events | `EventsInOrder`, `NeverSilent` | 184 000 |

**Bounds.** Every bound is a constant named in a guard.

- *Sessions.* Two slots for one session place is the smallest instance in which a
  refusal, a duplicate, a reclaim and a reattach across slots all happen; three
  slots for two places adds the choice between two STALE sessions. The clock
  runs past the longest window by one step in `sessions`, so each timer fires
  and each can be overtaken by a frame in the same walk; a READY window that was
  restarted expires as well. Both runs use network links (a cable only raises the
  role a session gets, which `trust_ledger` covers). In `sessions_pressure` the windows
  collapse to 1, since that run asks about doors, not durations.
- *Intents.* A repeat can only be applied twice if the ring has forgotten it
  while the wire still holds it. An intent may be overtaken by `Window` newer
  ones, which in turn may have been stored before older ones, so at most
  2·Window − 1 entries separate an intent from its repeat, and
  `RingDepth = 3` with `Window = 2` is exactly that limit. The deployed ring has
  32 places (`idempotency_ring_depth`), good for a window of 16.
- *State.* Sequence numbers start two below the wrap of a modulus of 8, and fewer
  than half the modulus are published: the condition under which serial comparison
  is meaningful. A link of 2 frames is refused writes at every point of a handshake
  that sends three. `MaxChanges` also bounds changes of congestion and late wishes.
- *Safety.* Two initiations are needed to tell an older latch from the answer to the
  newer one; five publications allow stop, release, home, resume and one more. One
  client is enough for the run, as the theorems cover any number.
- *Trust.* Two devices for one entry and one place in the list make every refusal for
  want of room happen; a window of one update expires at the next. The delegate of
  the run answers watch for every token: an application that grants more by itself
  grants it to a suspended device too, as long as that presents no token.
- *Blob.* Two of the three revisions have the same size, so that only the generation
  tells them apart; the third is over `MaxBytes` and is refused; a link of two frames
  refuses the third. Two requests are a fetch and its repair (`RepairMax` is 1, 32 in
  the code), or two fetches of which the second meets what the first left behind.
  Longer documents and more repairs than that are past the run's reach; `ItemIsWhole`
  and `OneRevisionPerTransfer` are proved for any.
- *Streams.* A ring of 12 ticks with a lead cap of 2 and a span of 2 has stamps on
  both sides of the wrap; gaps of 1 and 3 reach the end of each window and jump it.
  Bundles start at most a tick in the past: `QuietIsReleased` does not hold of stamps
  almost half a ring old (section 5, item 13).
- *Events.* The queue is shorter than the replay, as 16 is shorter than 32 in the
  code, and shorter than the number of events. Another session reaches this one
  only as an event the hub posts or as a drain, and both may happen at any time.
- *Signing.* A third nonce lets a client reconnect while its first job is still with
  the worker.

**Symmetry** is declared over clients, devices, slots and ids in runs that check
invariants and action properties only, never in a run with liveness.

**Deadlock** is checked except for `StateSync` and `HubSigning`: there a behaviour
ends when the bounds on values, links and changes, or the nonces and session ids,
are used up and everything is delivered.

**Fairness.** In `StateSync`, `Pump`, `PumpAnnouncement` (the hub's due pushes),
`Receive` (the client reads its transport), `CatalogReady` (a fetch ends) and
`RepeatReady` are weakly fair, because the owner loop calls `update()` for ever at
both ends and each of these is made on the next call at which it is due.
Publishing, connecting, parking, changes of the catalog, congestion and loss are
not fair; a push refused by a full link is taken again later. `Converges` and
`ReachesLive` are conditional on a session that stays attached and ready, so a
network that never recovers refutes nothing. Fairness of `CatalogReady` means that
a fetch that is not abandoned finishes. In `HubBlob` only `Pump` is fair, as
`update()` drains every cursor at every call; the receiver and the link are not, and
`TransfersEnd` holds because the hub gives a held transfer up.

Every property is paired in `PROJECT.json` with a mutant of a modelled
definition (a forgotten release, an off-by-one, a comparison of plain
numbers…) under which its run fails.

## 4. What is proved

All theorems are `Spec => ...` for arbitrary constants satisfying the named
assumptions of the modules (`SessionConstants`, `IntentConstants`, `StateConstants`,
`ControllersAreClients`, `CutsPowerIsBoolean`, `EngagesAreBooleans`,
`BoundsAreNaturals`, `NoneIsNeither`, `TrustConstants`, `SigningConstants`,
`BlobConstants`, `StreamConstants`): types of the parameters, non-empty capacities,
windows of at least one unit, and special values distinct from ordinary ones. Where
a theorem needs more of the constants it says so in its own `ASSUME`, and the
paragraph below says why the code has it.

**`HubSessions_proofs`**: `TypesHold`, `LeasesHold`, `IdentitiesHold`,
`AttachmentHolds`, `DegradedHolds`, `DeadmanHolds`, `ReadyWindowHolds`, and of steps
`ResumesHold`, `PressureHolds`. The inductive invariant is

    IInv == TypeOK /\ IdsNameSessions /\ OneSessionPerIdentity
            /\ ServedIsAttached /\ LeasesAreServed
            /\ FlagsAreExact /\ PumpedAreTimely

`LeasesAreServed` alone is not inductive. Leases are ended *by session id*, so
releasing what a departing session holds removes the right leases only if
no other session has its id (`OneSessionPerIdentity`) and a slot has an id exactly
while it has a session (`IdsNameSessions`). A frame is handled only on a slot with
a transport, and a handler may take a lease only for a session it leaves served,
which brings in `ServedIsAttached`, since the answer may park the session.
The two timer bounds hold *between* updates; what is inductive is that they hold of
every slot the walk of `update()` has left behind (`PumpedAreTimely`), since a
frame of a later slot can take a source only for its own session, and can restart
only its own READY window. That needs a window of at least one millisecond: with
`ReadyTimeoutMs = 0` a fresh session would be late at birth. `FlagsAreExact` adds to
`DegradedIsKnown` that a free slot is not ready, which is what lets a new session
start with a clear flag. The proof has one lemma per action; the actions share the
lemmas `EndingStep` (sessions of a set of slots end) and `SettleStep` (one slot
changes).

**`HubIntents_proofs`**: `BaselinesHold`, `GenHolds`, `TrialsHold`, `EchoHolds`,
`CasHolds`, `NeverReappliedHolds`, `IntentTypesHold`.
- The first three rest on the types of settings and wire, `BaselinesAreStored` and
  `OneTrial`: a revert restores *the* baseline of a key, and with two entries for one
  key the settings and storage would part. That only a change of a live value moves
  `cfg_gen` follows per action from the same facts.
- `EchoHolds` needs `Named`: until a client restarts, two intents of it that share an
  id are one intent, whether on the wire or remembered by the ring, because ids only
  go up (`nextId`). A restart is exactly what breaks this (Divergence 1).
- `CasHolds` needs `CasOK`: the generation a write is conditioned on is never newer than
  the hub's, and while the two are equal the settings are what its sender had seen.
  It is kept because no setting moves without `cfg_gen` going up (`GenHolds`).
- `NeverReappliedHolds` assumes `RingDepth >= 2 * Window - 1` and that every ECHO
  fits the ring's slot (`EchoFits`; Divergence 6 is what happens when one does not). An intent that
  was applied is either more than `Window` behind, and then no longer on the wire, or
  in the ring. To be pushed out, `RingDepth` other intents must have been stored
  after it; each has an id within `Window` of it on one side or the other, and the
  pigeonhole principle over those ids (`PuncturedSize`) leaves too few.
- `IntentTypesHold` bounds the tables: no more trials than places and no ring past its
  depth. `CanTry` counts the keys a write *names* and that nobody tries; what it opens is
  one entry for each of them that the delegate *applies* (`OpenedFits`). A catalog has
  finitely many settings, which is the theorem's only hypothesis (`IsFiniteSet(Keys)`).

**`StateSync_proofs`**: `StateTypesHold`, `OrderedImplements`, `DatagramImplements`,
`FewValuesImplement`, `LiveHolds`. Every action of the hub, link and client has one of
six shapes as far as values go (`Shape`: it is quiet, publishes, restarts the shadow,
pumps a retained value, tells something else, or reads a frame); `StepRefines` shows
that each shape is a step or a stutter of `LatestValue`, given `Fresh`: no frame that the
client would adopt now takes it back.
- On an ordered link `Fresh` follows from `Upward`: the values of a channel on their way
  ascend from what the client shows to what is retained. Nothing else is asked of
  the constants: channels may come and go, connections end, the link may refuse.
- On a link that reorders and repeats, the client relies on the sequence number.
  `Numbered` dates each frame by it: the distance of two numbers is the distance of the
  two values. Serial comparison then tells older from newer *only if* no frame is still
  underway when more than half the range has been published since; that is `Timely`,
  a hypothesis of `DatagramImplements` about the network. `FewValuesImplement` discharges it where
  at most `Modulus \div 2 + 1` values are published, as in `state_datagram`. Both assume
  `Dynamic = {}`: a channel that leaves and returns is numbered anew, and an old
  frame may then pass for a new one (Divergence 7).
- `LiveHolds` counts: the client has counted at most one adoption per channel it shows,
  and one for the announcement (`CountsOnce`), so reaching the number promised means
  having them all. It assumes that the catalog is fixed and that all
  channels hold a value, so that WELCOME promises all of them (Divergence 8 shows the
  count going wrong otherwise).

**`HubPlanes_proofs`**, safety: `SafetyTypesHold`, `ShownHolds`, `OverrideHolds`,
`StopsHold`, `SoleInitiatorHolds`.
- `ShownIsInForce` needs two facts of the hub. `RetainedIsCurrent`: at the end of every
  handler the retained entry is the state, which each of the five publishers has to
  establish on its own, and an op that publishes nothing by having changed nothing. And
  `Numbered`: a snapshot underway or shown is either the retained entry or has a smaller
  number, so that a client which finds nothing newer underway shows that entry.
- `StopHolds` needs `"home" \in owed => "HOME_REQUIRED" \in modes`: the hub refuses a
  resume on what the mode says, and the claim is about what is owed.
- `SoleInitiatorIsTold` needs `SeqInv`: frames of a client carry numbers it has
  used, and, while no one else has latched the hub, no snapshot in flight or
  retained carries a later number than the client's last, and a latched one that
  carries the last was published after that initiation (`Vouches`).
- `OverrideHolds` assumes `TRUE \notin Engages`, that is, that the machine calls
  `setOverride` only to clear the mode (see Divergences).

**`HubPlanes_proofs`**, events: `EventTypesHold`, `EventOrderHolds`, `NeverSilentHolds`.
A drain may happen between any two steps of a handler, so the invariant is one on
the hub *inside* a handler (`HubOk`): each function a handler is composed of
(`PublishEvent`, `Emit`, `Staled`, a change of one session) keeps it, and no action needs
an argument of its own.
- `EventsInOrder` needs `Waiting`: what waits in a queue was made already, and the
  events that are not log lines ascend there and are newer than the last one handed
  over. Replay puts old lines behind new events; it is on the log channel alone, which
  is why the order is not claimed for it.
- `NeverSilent` needs `Covered`: everything owed is under a grant, so a drain, which
  skips what is not, leaves nothing owed. What a push loses are the first `Excess` members
  of the queue (`FirstFew`, `PushCounts`), and the counter grows by that number; replays
  longer than the queue, repeated lines and pushes to a parked session are all that one case.
- Nothing is asked of the constants but that depths are not zero.

**`HubTrust_proofs`**: `TrustTypesHold`, `WorklistHolds`, `ReapprovalsHold`,
`CleanHolds`, `MembershipHolds`, `KnocksHold`, `SuspensionHolds`.
- The first invariant is the types, "an occupied slot names a device", the
  worklist, the dirty flag, and `Asked`: a question about re-approval, waiting or
  not, is about an entry *above watch*. That strengthening is what makes
  `ReapprovalIsKnown` inductive, because a full ledger makes room by dropping a watch
  entry; and it is what makes `CleanIsSaved` inductive, because denying a
  re-approval marks the ledger dirty only if the entry is there.
- `KnocksHold` adds `OneEach` (no two slots share a session id or a device): knocks
  are dropped by session id, and a reattach moves id, device and knocks together.
- `SuspensionHolds` adds `SuspendedOnlyLooks` to that: the session whose HELLO or AUTH
  suspends a device gets the role of the suspended entry itself, and no other slot
  can hold a session of the device (`OneEach`). It assumes `DelegateRoles \subseteq {Watch}`,
  the delegate that answers watch: the role of a session without a token is the
  application's to choose, suspended or not.
- `QuietStep`, `GrantStep`, `AdmitStep` and `BoundStep` say once what handlers have
  in common; every action is brought to one of them.

**`HubSigning_proofs`**: `SigningTypesHold`, `DeliveryHolds`, `SignedOnceHolds`. The
invariant follows a nonce on its way: drawn by a client, brought by a HELLO, kept
by a session, taken as a job, sent as a signature. Each place belongs to the client
that drew it (`HelloIsOwn`, `SessionIsOwn`, `JobIsOwn`, `WireIsOwn`), which gives
delivery; and no nonce is in two places at once (`HelloIsFirst`, `ArmedIsUnsigned`,
`JobIsUnsent`), which gives that it is signed once. A late job finds its session
by id, not by slot, and ids are never drawn twice.

**`HubBlob_proofs`**: `OneRevisionHolds`, `BlobTypesHold`, `ItemIsWholeHolds`. A cursor is armed for the
catalog that the etag names, or the store item of its generation
(`CursorsAreAimed`); a chunk of the store carries the generation, size and count of the
revision its bytes are of (`ChunksAreHonest`); the client assembles chunks of one
generation, under that generation's size and count (`AssembliesArePure`), because
`Restarts` compares all three. `EtagIsCurrent` is the strengthening that was missing:
a catalog that fails to encode keeps its etag. `BlobConstants` says that revision 1,
the one the hub boots with, is a revision.
`BlobTypesHold` is about the budgets: chunks in flight (`CreditFits`), the stall clock,
the room of a link, and the client, which assembles no more bytes than its budget and
whose table stays within its count whatever chunks arrive (`AssembleFits`).
`ItemIsWholeHolds` puts the two together: an assembly of one generation with no chunk
missing is that revision (`CompleteIsWhole`), and nothing else is handed over.
`InOrder`, the chunks a cursor goes through, is
written out in the module because the sort of the community modules cannot be expanded
in a proof; `InOrderIs` proves without induction that such an order exists: the number
of chunks not above a chunk is a bijection onto the places.

**`HubStreams_proofs`**: `RetainedOwnerHolds`, `StampsHold`, `NoReleaseHolds`,
`QuietReleaseHolds`, `PastHolds`, `StreamTypesHold`.
- `RetainedOwnerIsCurrent` is inductive: every handler either publishes the owner it
  leaves or touches neither.
- `StampsHold` computes the clamp (`ClampHolds`) for every stamp, the overflowing
  difference included. It assumes `CapsFit`: no span exceeds the lead cap, which is less
  than half a turn (20 ms against 250 for samples; for segments both are the horizon).
- `NoReleaseHolds` rests on `Covered`: what is still to be played is covered by
  the open window alone, or by the end the quiet clock knows of *and* by `QuietMs` after
  the window. The second half is needed because an intent shortens the window to
  `QuietMs`, and a second mark after that window forgets the end. It holds if
  `Horizon <= 2 * QuietMs` and `MaxFuture <= QuietMs` (`WindowsFit`). The registry has 1000,
  500 and 250 ms: the first with nothing to spare, though no line of the code relates
  the two constants.
- `StampsNear` is the hypothesis that stamps arrive less than half a turn old, less the
  window and the cap; without it an old stamp passes for a future one (Divergence
  13). `QuietReleaseHolds` asks the same of the time between two updates (`GapsNear`):
  then no recorded end goes round the ring while somebody owns the source.
- `PastHolds` proves `PastNeverMoves`, which no run checks because Divergence 13 refutes
  it, for exactly the stamps that spare the clamp's difference the overflow (`NoOverflow`,
  weaker than `StampsNear`): a bundle whose every stamp has passed is handed on as it is.
- `StreamTypesHold` asks nothing of the constants. It bounds the token buckets by their
  burst, every countdown by the time it starts from, and every stamp by the half ring.

**Only model-checked.** `Converges`, `ReachesLive` and `TransfersEnd`, since liveness under
fairness and `ENABLED` are outside the prover: every other property of a run is
proved, and so is the type invariant of every component. The
`ASSUME WriterAndParserAgree` of `HubStreams` is evaluated by TLC for the bounds of the
run and used by no proof.

## 5. Divergences

Places where the code does not do what a document, comment or test of the
repository says. The first group is stated as a property of a module and can be
refuted with the constants given; the second is read off the code while modelling.

**Refutable.**

1. `EchoIsTruthful`, constants of `intents_retry` with `MaxRestarts = 1`: a restarted
   client gets old ECHOs. The ring survives on a STALE session, the client's
   `_nextIntentId` starts at 1 again, and its first intents are answered from the
   ring without being applied.
2. `ResyncEnds`, constants of `state_converge` with `MaxLinks = 1`, `MaxChanges = 2`,
   `MaxVersion = 1`: a repeated CATALOG_READY for the old
   etag reopens the hub during the refetch of the new catalog; its pushes pass
   unnoticed and the client stays SYNCING.
3. `AcknowledgedIsLatched`, constants of `safety_latch` with two clients, both of them
   controllers: hub and client number initiations by separate counters; the delayed
   snapshot of a stop that has been released may end a client's repetition though
   none of its frames arrived.
4. `EtagMatchIsReady` (SPEC.md:458), `ValidatingOwnsNothing` (hub_impl.hpp:3993)
   and `ValidatingIsBounded` (session.hpp:26), constants of `sessions` (`MaxNow = 4`
   for the last): a session parked before CATALOG_READY reattaches LIVE with a
   matching etag and not ready; a HELLO whose WELCOME cannot be written leaves the
   session VALIDATING, which no timer ends if its etag matched, and which is served
   like a LIVE one, so that it may own a source no deadman watches.
5. `ReclaimsLongestStale` (session.hpp:188), constants of `sessions_pressure` with
   `Tokens = {1}` and `ReadyTimeoutMs = 2`: `handleReattach` clears `staleSinceMs`
   before WELCOME is written, and a failed write leaves a STALE session whose 0
   counts as the oldest time.
6. `NeverReapplied`, constants of `intents_retry` with `EchoFits = {FALSE, TRUE}`: an
   ECHO above the ring's 96 bytes is not remembered (hub_impl.hpp:2070) and its
   intent is applied again when repeated, where SPEC.md:875 says "MUST NOT
   re-apply".
7. `ImplementsLatestValue`, constants of `state_datagram` with `Dynamic <- Anywhere`,
   `FirstSeq = 1`, `MaxChanges = 2`: a channel that is withdrawn and declared again
   restarts its numbers, and a delayed frame of its first life looks newer
   (SPEC.md:588).
8. `LiveHasAdopted`, constants of `state_datagram` with `Seeded = {a}`: the first value of *any* channel
   counts towards the promise, also of channels that held none at WELCOME, so LIVE
   may precede a promised value (client.hpp:90). The runs seed every channel they
   promise.
9. `ReachesLive` without its premise `etag = 1`, constants of `state_converge`: a
   promised channel withdrawn before its push stays in `_requiredRetained`, and the
   client never becomes LIVE (SPEC.md:417).
10. `Converges` without its exception of `untold`, constants of `state_converge`:
    CHANNEL_WITHDRAWN is sent once; if the link refuses it, the old shadow drops the
    first values of a channel declared again (SPEC.md:703).
11. `OverrideCarriesPause`, constants of `safety_latch` with `Engages = {TRUE, FALSE}`:
    `setOverride(true)` sets the mode without PAUSE, while safety.hpp says "it never
    exists without PAUSE".
12. `HonestHubIsNeverDisowned`, constants of `signing_queue`: a reattach keeps the
    session id while the nonce changes and leaves the sign job of the old slot as it
    is, so that a late signature passes the session-id check, which the comment in
    `submitSignature` calls the whole safety of the contract, and makes a client
    take its own hub for another machine.
13. `PastNeverMoves` and `QuietIsReleased`, constants of `streams_quiet` with -6 added
    to `LeadSet`: the signed difference in `clampLead` overflows for a stamp almost
    half a ring (35 minutes) old, and a build may then move the bundle; if it does
    not, the stamp soon reads as one in the future and keeps the source. `PastHolds`
    and `QuietReleaseHolds` are what is left without such stamps.

**Read off the code.**

- *Safety.* A second initiation while the hub is latched is never reached and ends as
  `estopSendFailed`; a delayed repeat re-latches after a release; an override op
  accepted under ESTOP leaves OVERRIDE after the release (SPEC.md:1318 "release
  lands in plain PAUSE"); source-mapped STREAM bundles under ESTOP without PAUSE
  reach the delegate (SPEC.md:1297); role-exempt safety ops are gated with NOT_READY
  (SPEC.md:454).
- *Trust.* `handleHello` observes the version of any HELLO with a token, also a wrong
  one, where pairing.hpp speaks of validated tokens, and the session then gets the
  role of the instance's ledger entry unless that is suspended
  (`hub_impl.hpp` 598-602, 1002-1028), which is how `Admit` has it, so that no property
  ties a role to a proof; the roster snapshot starts
  at 0 and is not republished after `decodeLedger`; `pair_deny` of a suspended device
  whose question expired and that knocked again only drops the knock (SPEC.md:1546);
  a full ledger consumes the presence window without a `window_closed` event; the
  first version an entry sees moves the roster's generation without publishing it;
  `handleReattach` carries publish grants over while the tripwire may lower the role.
- *Blob.* blob_req.hpp:62 treats an out-of-range repair as staleness, the hub answers
  CHUNK_UNAVAILABLE; the C++ client's
  `_refetching` may stay set with nothing in flight; the clock of the JavaScript client's
  catalog transfer starts with its first chunk, so a refetch answered BUSY before that
  leaves `catalogInFlight` set, where session.js:780 says "the next announcement asks
  again".
- *Streams.* The quiet window has no margin; PUBLISH hands out a full bucket anew; an
  intent that wins the source does not clear the conflict throttle, as the comment
  at hub_impl.hpp:2248 has it; the control-owner snapshot is not
  seeded by the constructor, so a subscriber of a fresh hub gets no value until the
  first change of owner or re-sync.
- *Events.* Taking a channel back and granting it again before the gate opens delivers
  events of the old grant, where the comment at hub_impl.hpp:2746 excludes it; 32
  replayed lines go through the queue of 16 they share with all channels; a second
  SUBSCRIBE before the drain replays the log twice; an event the link refuses is lost
  uncounted ("visible, never silent", SPEC.md:907), and the counter ends with the
  session; events queued while parked are delivered on resume ("NOT replayed on
  reconnect", SPEC.md:904); the tripwire's event in `handleReattach` drains the moved
  queue before WELCOME.

## 6. What is not modelled

- *HubSessions*: probe reports, PING and CLOCK answers. How an AUTH is verified is in
  `HubTrust`; here its verdict is free. The wrap of the millisecond clock.
- *HubIntents*: role checks and the rate limiter; a baseline that is no longer legal
  when it is restored ("nearest legal" in the delegate's contract); `cfg_gen`'s
  wrap after 65 536 changes.
- *StateSync*: the schedule of periodic channels (a push may happen at any time),
  UNSUBSCRIBE (it is in `HubEvents`), an over-budget catalog, the READY timeout (it is
  in `HubSessions`).
- *HubSafety*: cause and owner fields, the datagram side channel, a restart of the
  hub, the wrap of `estop_seq` (the bounds are far below half its range). The edge
  events are in `HubEvents`.
- *HubTrust*: labels, wall-clock stamps (any watch entry may make room), the roster's
  generation number.
- *HubStreams*: a second channel or source, sources of another kind, jog against
  rail-holding sources, streams from the hub to clients, the wrap of milliseconds.
- *HubBlob*: bytes and digests; BLOB_DONE, which the hub only passes on to the
  application; the C++ client's reassembler; `wire/fragmentation.hpp`, which neither hub
  nor client uses.
- *HubEvents*: bodies; the park of a stalled critical send inside `withdrawGrants` is
  the separate step `ParkAndDetach`.
- *HubSigning*: the hashes and ECDSA, an impostor hub.
- The components marked `not_modelled` in `PROJECT.json`: codecs, digests and
  conformance predicates are pure functions over bytes, tested by vectors; the page,
  the tools and the documentation site have no part in the protocol's operation; the
  saved networks, the MultiFunPlayer client and the rest of the JavaScript client are
  planned.

## 7. Plan

Done, in this order: `HubSessions`, `HubIntents`, `StateSync` with `LatestValue`,
`HubSafety`, `HubTrust`, `HubSigning`, `HubBlob`, `HubStreams`, `HubEvents`. Next:

1. Proofs: `LiveHasAdopted` where channels come and go, which needs the promise of a
   WELCOME related to the withdrawals behind it on the link; `DatagramImplements`
   for them, with a hypothesis that keeps frames of a channel's earlier life apart.
2. `SavedNetworks`: the bounded list and what storage holds at each point.
3. `JsSession` (the rest of `src/clients/js/session.js`) and the MultiFunPlayer connection loop
   (`src/clients/mfp/ValenceConnect.cs`): reconnect, gate, intents. Both against
   the hub side of the modules above.
