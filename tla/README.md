# bt-daemon: TLA+ models, model checking and proofs

bt-daemon owns the BlueZ connection of a desktop session: it publishes one
snapshot of adapters and devices, runs device operations and scans for its
callers, answers pairing and file-transfer prompts, keeps vendor side channels
(Fast Pair, Sony, Maestro) open, and survives restarts of BlueZ. It is a tokio
program of some twenty long-lived tasks around a handful of mutexes; what is hard
to test in it is the order in which those tasks touch shared tables between two
awaits. That is what these modules are about.

Paths are given from the directory that holds `src/` (the repository) and `tla/`.
Run `tlc -config X.cfg M` for a run of `PROJECT.json` and `tlapm M.tla` for a proof module.

## 1. Inventory

| Part | State it keeps | Operations | What is hard | What makes it correct |
|---|---|---|---|---|
| Device operation coordinator, `daemon/operation.rs` | active table (owner, device, event, `JoinHandle`), retained results | start, progress, finish, cancel, reap, status | an aborted worker runs on until its next await; progress comes from other threads; the Cancel call may be dropped | one worker per device, exact revisions, no hole between active and retained, cancellation ends |
| Scan coordinator, `daemon/scan.rs`, and discovery sessions, `bluez.rs` | leases, timers, transition mutex; one discovery task per adapter | start, stop, stop by owner, timeout, power changes | several backend calls under one mutex, each may fail; power and hotplug do not take the mutex | shared adapters are kept, every discovery is leased, every lease ends |
| Request owner watch, `daemon.rs` | set of watched bus names | register, owner loss, cleanup | a call registers while the previous watch is being torn down | nothing of a lost caller is overlooked, nothing of a live one cancelled |
| Snapshot publication, `bluez/monitor.rs`, `bluez/snapshot.rs`, `daemon.rs`, `daemon/published.rs`, `daemon/subscription.rs` | change notices, watch channel with watermark | debounce, read, publish, forward, cached read | a snapshot is read in parts; replies overtake events; the watch coalesces; revisions are finite | a watermark names one state, a client never goes back, and it converges |
| Pairing broker, `pairing.rs` | pending prompts, displays, timers | callback, respond, timeout, drop, cancel all | four parties end a prompt, and the event follows the removal | one end per prompt; BlueZ and clients are told the same |
| BlueZ recovery, `bluez/recovery.rs`, `bluez/recovery/owner.rs` | current generation, agent, `available` | owner change, stop, build, register, install | the replacement future is dropped at any await | only whole generations are served, none leaks, the live BlueZ is served in the end |
| OBEX transfers, `obex.rs`, `obex/authorization.rs`, `daemon/obex.rs` | prompts, destination reservations, cancel channels, followed status | send, authorize, answer, cancel, follow | obexd moves on, or crashes, between any two awaits | outcomes reported are true, reservations match consent, cancellation ends |
| Fast Pair message streams, `fast_pair.rs`, `fast_pair/retry.rs`, `fast_pair/commands.rs` | links, retry records, writers, runtime state, pending commands | reconcile, connect, hand-over, read, tear down, command | late results of retired attempts; teardown in four lock sections | a link has one stream, nothing outlives it, a slot matches its command |
| Vendor RFCOMM channels, `vendor_channel.rs` | `Links`: pending attempt, connected stream, retry record | reconcile, connect, hand-over, session, tear down, shut down | a stream handed over while the old session is being torn down; ConnectProfile succeeds and no stream comes | a link has one owner, attempts end |
| Sony and Maestro, `sony.rs`, `maestro.rs` | channel entry per peer, bounded queues, sequence bit | set noise control, acknowledge, time out, report | acknowledgements late or never; a full queue; a session that closes with commands queued | callers use the live session's entry, and each is answered |
| Device operation workflow, `bluez.rs`, `bluez/operations.rs` | a gate per device, progress stages, blocking workers | connect, pair, remove, disconnect, provision, policy, audio | the future is dropped at any await, its blocking workers run on; calls that timed out take effect later | Forget can be repeated and forgets only what is gone, audio is changed by one worker at a time, every request ends |
| Suspend and resume, `bluez.rs` | remembered radio and connections, reconnection tasks | sleep, wake, reconnect with backoff | a suspend during a reconnection, failing attempts, a client that interferes | a resume reconnects in spite of failing attempts, no reconnection outlives a suspend |
| Identity registry, `identity.rs`, `identity/persistence.rs`, and account keys, `fast_pair/keys.rs` | key tables, latest-value slot of the writer thread, two files | register, migrate, promote, flush, write | failed and coalesced writes, crashes, hciN names that move between controllers | a flush that succeeded is on disk, stored credentials can be found again, a key names one peer |
| Management store, `management.rs`, `state.rs` | policy per device, runtime state, file | set, forget, remember, load | a save that fails in the middle of an operation | memory and file agree; what a resume restores is what was remembered |
| Link signal polling, `bluez/link_signal.rs`, `bluez/observations.rs` | observations with epochs | poll, invalidate | late replies | no reply of an older epoch is shown |
| Audio control, `audio.rs`, `audio/wait.rs`, `daemon/audio.rs` | a PipeWire connection per change | probe, bind, check, write, wait, retry | ids and serials are reused between two connections; PipeWire restarts; the answer and the loss of a card arrive together | another card is never written, no write is repeated, success means that it was seen |
| Others | disconnect diagnostics, API dispatch and socket, RSSI helper, data model, framing, rfkill, task registry, start-up | | | mostly data and I/O |

Interactions: callers reach `daemon.rs` by D-Bus or the local socket; it calls the
coordinators; these call the backend through `RecoveringBackend`, which hands out the
current generation or refuses. The backend sends `()` on `changes` after every BlueZ
signal. Owner loss, seen by the watch task, calls `cancel_owner` and `stop_owner`.
Events go to subscribers over broadcast channels, except the snapshot, which goes over a
watch channel and so coalesces.

## 2. Modules

Actions are critical sections: one action for what happens between two awaits, or
between taking and releasing a lock where the code runs on several threads. What a task
does between two of them is a program counter. Definitions whose comment starts with
"Mutant" are plausible mistakes in that code; they belong to no specification and serve
to show that each property can fail (`PROJECT.json`, "mutants").

**Operations** (`OperationLifecycle`, `OperationsProofs`). `active` and `handle` are the
two halves of an `OperationTask`: the entry, and the `JoinHandle` that `cancel_owned`
takes. `worker` is where `run` is, `reaper` the independent task that awaits the aborted
worker, `recent` the bounded retained results (a library type, external), `sent` what
was broadcast. `OperationLifecycle` is the abstract specification: what a client may rely
on without knowing of workers and reapers. Operations implements it, with the phase read
off the current event.

**Scans** (`RadioProofs`). `call` is the holder of the `transition` mutex and
how far its backend calls have come; `session` is `BluezBackend::discovery_tasks`;
`radio` is what BlueZ says. Looking up an adapter, reading it, starting it and building a
snapshot may fail at any time, and adapters are plugged in and pulled out between any two
backend calls; an adapter that goes away while a snapshot is being built is `Unplug`
followed by a failure. A session whose start was reported as failed because there was no
snapshot is called `"left"` instead of `"live"`: nothing else distinguishes the two.

**OwnerWatch** (`TransferProofs`). One owner, its concurrent calls and its watch task;
each cleanup captures ids and then visits them one by one. Operations and scans are
reduced to a status here; that cancelled operations end is `CancellationTerminates` of
Operations, assumed as fairness.

**Publication** (`ClientProofs`). From a property in BlueZ to the record a client
holds: monitor, debounce and drain, a read in parts, `Published::update`, coalescing,
cached replies in any order, and the acceptance rule the repository's README gives
clients.

**Pairing** (`ClientProofs`). `open` is the union of the two maps, `closing` what the
thread that removed a prompt has still to do after releasing the lock.

**Recovery** (`RecoveryProofs`). `step` is the await in which the replacement is
suspended; `half` a backend inside `with_state`, `candidate` one owned by a `Candidate`,
`workers` the tasks of each generation, `bound` the BlueZ process it registered with.

**Obex** (`TransferProofs`). `phase` follows one transfer through prompt, acceptance,
`monitor_transfer` and cleanup; an authorize call that is dropped, while it waits for the
decision or for the lock of `start_incoming`, ends in `"dropped"`. `obexd` is external: it moves, fails, refuses a cancellation or crashes.

**FastPairLinks** (`PeerProofs`). One peer. `link` and `retry` are its entry in `ConnectionState`,
`readers` the readers with the four steps of `connection_ended`, `slot` and `commands`
the `PendingCommands` of one key. A caller reads the runtime state first and reserves the
key in a later step (`ReadRuntime`, `Reserve`); the reconciler withdraws the report of a
peer that is gone and forgets its attempt under two locks (`ReconcileGone`,
`ReconcileForgets`).

**VendorChannels** (`VendorChannelsProofs`). One peer. `connecting`, `connected` and
`retry` are its entries in `Links`; `sessions` follows each stream from `spawn_session`
through `Handler::ended` to `Links::ended`; `channel` is the peer's entry in
`SonyControlProvider::channels`, by the session that made it; `queue`, `writing`, `acks`,
`acked` are the channels between callers, reader and writer of the open session, `owed`
what the headphones may still acknowledge, late.

**Identity** (`DurableStore`, `IdentityProofs`). The registry, its writer thread and the
account key store. Every controller has one peer, registered under the controller's
stable address, or under its current hciN name in a file of an older version. `registry`
is what is in memory, `slot` the latest value left for the writer, `writer` the thread
with the value it has taken, `disk` the file; each carries the version of the change, so
coalescing is visible. `task` and `flush` follow provisioning and its barrier. A crash
loses everything but `disk` and `stored`; afterwards the controllers may have swapped
names. `DurableStore` is the abstract specification: a store with a flush. Identity
implements it.

**DeviceOperations** (`RadioProofs`; `MCDeviceOperations` gives the kinds of request each
client may make). One device on one adapter, as BlueZ has it (`bluez`), with what the daemon stores
about it (`credential`, `local`, `policy`, `runtime`). `request[a].stage` is the await in
which a request of a client or a reconnection is suspended; `gate` is `device_gate`, which
a dropped future releases; `worker` is what a blocking worker goes on doing for a request,
cancelled or not; `late` are calls whose caller has given up and which BlueZ may yet carry
out, a `RemoveDevice` among them. logind's signals wait in `signals`; `monitor` takes them one at a time and remembers
or restores.

**Audio** (`PeerProofs`). One operation of `apply_change` or `route_audio` on PipeWire, which is
external: `cards`, `metadata` and `default` are its objects, with ids that are used again
and serials that start over with a restart. The session manager may stop and start on its
own, which takes the metadata away and brings it back. `session` is the operation's second
connection: what it has been told and in which order, what it has bound, whether it has
written; a new connection is told of the objects that exist in some order
(`InSomeOrder`). `written` is history.

The four proof modules that are named twice hold the theorems of two components each and
EXTEND both. The two share no constant and no variable, and each theorem is about one
specification; so that the names do not meet, Pairing, Obex, DeviceOperations and Audio
call theirs `PairingSpec`, `ObexSpec`, `DeviceSpec` and `AudioSpec`, and so on.

## 3. Runs

| Run | Bounds and why | Properties | Shows |
|---|---|---|---|
| operations | 3 requests, 2 devices, a table of 2, one retained result, revisions up to 4: the table, the history and the revision space all fill up, and a third request meets a device whose cancelled worker still runs | `OneWorkerPerDevice`, `ExactRevisions`, `StatusMatchesStream`, `NoRetentionHole`, `ImplementsLifecycle`, `CancellationTerminates` | exclusion, exact history and refinement; an accepted cancellation ends although its caller is gone and its worker would never have ended |
| scans | 2 scans of one owner, 2 adapters: overlap, and the second of two adapters failing; adapters come and go, and any read, start, stop or snapshot may fail | `LeaseAccounted`, `SharedAdapterKept`, `LeaseEnds` | leases, timers, terminal events and discovery agree; no scan interrupts what another one leases; every scan ends |
| owner_watch | 2 operations and a scan: one can be admitted before, during and after a cleanup; stopping a scan may fail | `NoForgottenRequest`, `OwnerLossCancels` | the work of a lost caller ends, that of a live one is left alone |
| publication | 2 properties (so that a read can be torn), revisions up to 2 (so that epochs are exhausted), 2 changes, one late reply, one failed read, one monitor restart | `WatermarkNamesState`, `ClientNeverRegresses`, `ClientConverges` | order and convergence at the client |
| pairing | 2 requests, one display | `OneTrueEnding`, `PromptEnds` | four parties race for the end of a prompt; it ends once, and BlueZ and clients are told the same |
| recovery | 3 owner changes and 2 failures; 7 generations are enough that this bound never stops a retry | `AvailableIsWhole`, `NoUnnoticedRestart`, `GenerationReleased`, `ServesLiveBluez` | BlueZ restarts at every await of a replacement |
| obex | one transfer in each direction (they share only the maps); the incoming call may be dropped at each of its awaits | `OutcomeIsTrue`, `ReservationMatchesConsent`, `OutcomeReported` | prompts, cancellations and obexd in every order |
| fast_pair | one attempt, two readers (an old one in teardown and its replacement), two callers of a key, one notice in the queue. No quick retries (`QuickRetries` = 0): a quick retry and the normal back-off differ in the deadline, which the model does not have, and in a budget that is proved never to be exceeded for every `QuickRetries` (`LinksTypeCorrect`) | `StreamOwnsLink`, `SlotMatchesCommand`, `PendingEnds` | one peer that comes and goes without end |
| vendor_channels | two attempts (a retired one and its successor), two sessions, one caller that contends with the background commands for a queue of one, one late acknowledgement | `SessionOwnsChannel`, `NobodyWaitsForever` | hand-over, teardown and shutdown of a channel, and its commands, without end |
| identity | 2 controllers and 2 names (so that they can be swapped), one provisioning operation, one ephemeral key (so that it is evicted), 2 keys, 4 changes, 2 starts | `CredentialsNamed`, `KeyNamesOnePeer`, `ImplementsDurableStore`, `ChangeReachesDisk` | failed and coalesced writes, crashes, migration of old files |
| device_operations | 2 clients (the first connects, removes or changes audio, the second pairs, provisions, disconnects, sets a property or a policy), one reconnection at a time, and two disturbances: failing calls, lost saves, a suspend, a resume. Two failures are one less than a reconnection's attempts; a start, a suspend and a resume make two reconnections, the first cut short | `RemoveIsRetryable`, `AudioSerialized`, `ForgetsOnlyRemoved`, `RequestsEnd`, `ResumeReconnects` | cancellation, failure and late effects at every await of an operation |
| audio | 2 peers and one id (so that it is used again), 3 changes in PipeWire, one restart, one retry | `WritesOnceToTarget`, `OkWasSeen`, `OperationEnds` | one change while the graph changes under it |

Numbers of attempts, readers, sessions and callers in FastPairLinks and VendorChannels are
reused once the task that carried them is gone, so those runs have no bound on the length
of a history. The other models have identifiers that are never reused, or a bounded
environment; their behaviours end when these are used up and everything has settled, which
is why deadlock is not checked there (it is for Scans, whose environment never stops,
FastPairLinks and VendorChannels).

**Fairness.** Tasks that can run are polled, bus calls are answered or time out, sleeps
end, locks are granted in order (tokio mutexes are first come, first served: strong
fairness of `TimerFires`). Nothing obliges a caller to answer or cancel, a device
operation to finish, BlueZ to change, obexd to move or PipeWire to do anything. Where a
property needs more it says so in its statement.

* `LeaseEnds` is about behaviours in which, from some time on, no stop fails; in particular
  an adapter that has to be stopped has come back if it was unplugged.
* `ClientConverges` is about behaviours in which no snapshot fails and the monitor keeps
  its subscription. `Timely` in Publication says that an epoch is not exhausted before the
  client has seen a record of it; with revisions up to 2^53 - 1 that is what an epoch's
  length is for, with two revisions it has to be said.
* `PendingEnds` assumes strong fairness of `ReconcileBegins`: a peer that BlueZ calls
  connected does not answer "not ready" for ever; `NobodyWaitsForever` assumes the same of
  `EnsureConnected`. It also assumes that a write to the stream completes or fails (the
  code has no timeout on it), that the headphones pause now and then (the writer's select
  prefers acknowledgements to commands), and that a sender waiting for room gets it in
  turn, as tokio's channels do.
* `ChangeReachesDisk` assumes that the writer thread runs and that a thread that has left
  a value in the slot goes on to wake it.
* `RequestsEnd` and `ResumeReconnects` assume no more than that the daemon does not stand
  still: while one of its requests, blocking workers or the suspend monitor can go on, one
  of them does. Every BlueZ call they make has a timeout.
* `OperationEnds` assumes the operation's own steps and its deadline, nothing of PipeWire.

## 4. Proofs

Proved with TLAPS for every value of the constants that satisfies the named assumptions:
every invariant, action property and refinement that a run checks. Each inductive invariant
contains the types it needs; TLC has checked it on the bounds of the run before it was
proved.

*OperationsProofs*, from `OperationLimits`, `RevisionSpace`, `NoneIsNobody`. `OneWorkerPerDevice`
is not inductive: a cancelled worker keeps running after its handle was taken, so the
argument goes through its entry. `IInv` adds that a running worker has an entry
(`WorkerHasEntry`), that entries exclude each other by device, that an entry always has a
revision left for its terminal event (`RoomForTheTerminal`: an operation that has not
started is at revision 1, progress keeps one in reserve), that a handle means no
cancellation, and that an id is issued once. From it: `DeviceExclusion`, `ExactHistory`,
`StatusIsTheStream`, and, as action properties, `RetentionHasNoHole` and
`CancellationEndsTheStream` (after a cancellation only the terminal record follows, and
before it at most a `started` that its worker was about to publish); `LifecycleRefinement` maps each action to one of the
abstract ones or to a stutter.

*RadioProofs*: Scans, from `GlobalAssumption` and `OwnersAssumption`.
`LeaseAccounted` says nothing of the moments in which a scan call is under way, and its
truth afterwards depends on how far the call had come. `IInv` says it call by call: what a
start has opened is what it will lease or roll back (`StartCallOK`, `RollbackOK`), what a
stop closes belongs to the scans it was asked to end (`StopCallOK`), an idle call holds
nothing (`IdleCall`), and every session that was not left behind is leased or held by the
start under way (`LeasedOrStarting`). From it: `LeasesAccounted` and `SharedAdaptersKept`,
with every failure and with adapters that come and go.

*RadioProofs*: DeviceOperations, from `ActorsAssumption` (requests have numbers, and None is
none of them) and, for the bound on faults only, `BoundsAssumption`. `RemoveIsRetryable` and
`ForgetsOnlyRemoved` are about one moment of a removal and hold because of all the moments
before it: from the revocation on it finds no credential, and once BlueZ has removed the
device no bond either, nor a given-up pairing that could bring one back (`RemovalAt`). That
nobody provisions in between is the gate's doing: a request past it is the only one
(`GateOK`), also when it waits for a worker, and a worker at work belongs to the stage its
request is in (`WorkerOK`), so what it returns is read as what it was asked for. The worker
of an audio change has the gate after its request is gone, which is what `AudioSerialized`
rests on. `DeviceIInv` is the conjunction. From it: `RemovalRetryable`,
`AudioChangesSerialized`, `ForgettingFollowsRemoval`, and with the types of what is stored,
of signals and of the monitor, `DeviceTypeCorrect`.

*TransferProofs*: OwnerWatch. `NoForgottenRequest` is about the end; `IInv` names, in every state,
who will deal with each admitted request of a lost owner: a watch that is installed and
running (`WatchOK`), a cleanup that has captured the request or has not captured yet
(`CancellersOK`), or the call itself, which has still to ask whether the owner is there
(`CoveredOK`). `NothingForgotten` follows if `"monitor"` is not among the `Faults`.

*TransferProofs*: Obex, from `DirectionsAreDistinct`. `OutcomeIsTrue` compares what clients
were told with where obexd is now; between the two are a status that was signalled and not
yet taken, one that was read by a refresh, and a cancellation whose answer is on its way. So
`ObexIInv` says of each transfer that a final status on its way is the one obexd has
(`ObexdOK`), that nothing terminal is told while the transfer is followed, and that cleanup
has told exactly what it saw (`OutcomeOK`). For the prompts it adds that one which can still
be taken from the map has no answer, in the channel or in the hands of a thread
(`PromptsOK`): whoever removes it is the only one to decide. From it: `OutcomesAreTrue`,
`ReservationsMatchConsent` and `ObexTypeCorrect`.

*ClientProofs*: Publication, from `RevisionAssumption` and `BoundsAssumption`. `IInv` adds that a
record's `previous` is the epoch before it (`Lineage`), that the published record is the
newest there is (`PubIsNewest`) and that a client holds at most one. From it:
`WatermarkIdentity` and `ClientOrder`.

*ClientProofs*: Pairing, from `PromptsAreDistinct`. The right to end a prompt moves: it is the
map's while the prompt is open, then that of the one thread that has removed it, and is
spent when the event is in `sent` (`RightToEnd`). From it: `EndsOnceAndTruly`.

*PeerProofs*: FastPairLinks, from `FastPairBounds`. `LinksIInv` adds to the types that a link
has at most one stream that will release it (`OwnersOK`), and that what a stream has
published is cleared before its number can be taken again (`ReportsOK`): a stream that has
released the link owns nothing, although it has still to clear the runtime state.
`SlotMatchesCommand` is inductive with the types. From it: `StreamOwnership`,
`SlotOwnership`, and `LinksTypeCorrect`, with the limits on quick retries.

*PeerProofs*: Audio, from `AudioAssumption`: the target is one of the peers, None is neither a
peer, an id nor a card, "default" is no peer (the history of writes tells them apart), and
there are finitely many ids. The check and the write are two messages on a connection on
which ids are used again, and `WritesOnceToTarget` is about what is behind the id when the
write arrives. `ProfileOK` follows the one card that can be bound: its announcement, the
request to bind, the answer that says whose it is, and the write come in this order and
once each. They do because the serial that was probed is given out at most once in a run of
PipeWire (serials in use never exceed the counter, `PipeWireTypes`) and because a
connection does not outlive a run (`SessionOK`). So what is bound when a write is in flight
is the target's card, and one write at most is in flight or done. `RouteOK` and `WrittenOK`
carry the history from one step of the operation to the next, `OutcomeOK` says that a
success was written for and a loss is a failure. From `AudioIInv`: `WritesReachTheTarget`,
`AudioTypeCorrect`, and `OkMeansSeen` as an action property.

*RecoveryProofs*, from `BoundsAssumption`. Callers are let through only while no
replacement is under way (`IdleWhenAvailable`). A generation is stopped in order and is
taken out only when it has no workers left, and building starts only after that
(`StoppedInOrder`), so neither a dropped stop nor a dropped build loses one. Something is
built only under a subscribed monitor (`ConstructingUnderWatch`), and what is being built
is bound to the BlueZ that is there or a signal that will drop it is queued
(`BindingIsWatched`). From it: `OnlyWholeGenerations`, `RestartIsNoticed`,
`RetiredIsReleased`.

*VendorChannelsProofs*, from `VendorBounds`. A session that has not ended owns the link
(`LinkOK`), and the channel entry was made by the session that owns it (`EntryOK`). From
it: `OneSessionOwnsChannel`.

*IdentityProofs*, from `BoundsAssumption` and `DistinctAssumption`. Versions only grow
along the pipeline file, value taken by the writer, slot, registry (`VersionsOK`), and a
flush that waits finds what it needs at or before the place its barrier has reached
(`FlushesOK`). Key tables never hold one key for two peers, in memory or on disk, old
names included (`NamesOK`: what an unmigrated name holds belongs to the controller that
has that name now). A task that is about to store a credential has a key that the file
names (`CredentialsOK`). From it: `CredentialsAreNamed`, `KeysNameOnePeer`, and the
refinement `RegistryIsDurable`.

Only model-checked: liveness under fairness, which is out of the prover's reach
(`CancellationTerminates`, `LeaseEnds`, `OwnerLossCancels`, `ClientConverges`, `PromptEnds`,
`ServesLiveBluez`, `OutcomeReported`, `PendingEnds`, `NobodyWaitsForever`,
`ChangeReachesDisk`, `RequestsEnd`, `ResumeReconnects`, `OperationEnds`).

## 5. Not modelled

`PROJECT.json` lists every part with its reason. In short: parsers, cryptography, frame
formats and JSON are data; sysfs, rfkill and the RSSI helper are I/O; PIN and passkey
formats are an answer that passed validation. Left out although they have state: link
signal polling and disconnect diagnostics (one writer, one lock each), the audio monitor
thread, registration of the OBEX agent, the Maestro handler, Fast Pair pairing windows, its
GATT exchange and the shutdown of its provider, operations on adapters, the global
management policy, and the dispatch of API calls. Identity has no adapters plugged in
while a generation runs; in Audio, PipeWire can be reached between restarts; in
DeviceOperations only the daemon removes bonds, no other client of BlueZ. BlueZ, obexd,
PipeWire, logind, the bus and the retained-results type of the shared library are modelled
from how the code uses them and are marked external.

## 6. Observations

Met while modelling; none of them violates a property of a run, and where one limits what
a property says, its statement names the limit.

* A replacement dropped while `BluezBackend::with_state` is running
  (`src/src/bluez/recovery.rs:221`) leaves the tasks of the providers that had started: no
  `Candidate` owns them yet. `src/docs/review-remediation.md:7` asks to "Own, cancel and
  join each BlueZ backend generation's workers". `GenerationReleased` is therefore about
  generations that `with_state` has returned.
* `connection_ended` (`src/src/fast_pair.rs:1631`) releases the link first and clears the
  peer's runtime state afterwards, by address, so it can erase what a replacement stream
  has published in between; compare `src/src/fast_pair.rs:430`: "Do not permit a
  replacement reader whose state could be removed by the old cleanup." The vendor channels
  do it in the other order.
* Scans: `set_scanning(true)` starts discovery and then builds a snapshot; when that fails
  the start is reported as failed while the discovery goes on without a lease
  (`SnapshotFails`; `LeaseAccounted` names it as its one exception). A scan
  whose timeout could not clean up has published `failed` and publishes `cancelled` when it
  is then stopped. The lease of an adapter that is unplugged for good is retried for ever.
* Owner watch: a monitor failure removes the entry another call has just relied on
  (`Faults` = `"monitor"`).
* Publication: after a monitor restart the notice precedes the new subscription, so a
  change in between waits for the next one; a failed snapshot is not retried.
* Pairing: an acceptance that finds its callback dropped ends the prompt without an event.
* OBEX: an authorize call that is dropped after it was answered removes the reserved file
  (`src/src/obex/authorization.rs:12`), also after an acceptance, and no event tells
  clients that the transfer will not happen. A transfer that obexd reports as an error publishes `failed` twice; a cancellation
  that races completion is reported as failed; an obexd crash leaves a transfer without
  terminal event until it is cancelled.
* Side channels: a late Fast Pair acknowledgement resolves the next command of the same
  key, and a late Sony acknowledgement the next command; a stalled write to a Sony stream
  has no timeout, so its caller waits until the stream breaks; PSM results are not fenced
  by the attempt they belong to.
* Device operations: a user's disconnect is undone by a reconnection that is in backoff; a
  connect that timed out or was cancelled may take effect later; a Remove cancelled after
  BlueZ has removed the device leaves its policy entry; the worker of a cancelled connect
  or pair goes on routing audio without the gate (`src/src/bluez/operations.rs:137`, named
  in `AudioSerialized`); the late worker of a cancelled revocation may delete a newer
  account key; a snapshot under way while a device is forgotten may remember its
  presentation again (`src/src/bluez/snapshot.rs:337`); a PipeWire graph that lags lets an
  audio change remember a policy for a removed device.
* Resume: a check that fails between two attempts ends the reconnection
  (`src/src/bluez.rs:298`), stage `gave_up` in the model and named in `ResumeReconnects`;
  snapshots taken while the machine is going to sleep can still be remembered.
* Identity: names of a file of an older version are trusted to be those of the boot that
  migrates them; after a crash before the migration is written, controllers keep their
  names in the model until it is (`Renumber`).
* Audio: the outcome of a change of the default is not reset when a second "default"
  metadata object appears.

## 7. Plan

Done: Operations, Scans, OwnerWatch, Publication, Pairing, Recovery, Obex, FastPairLinks,
VendorChannels, Identity, DeviceOperations, Audio, and proofs of all their safety properties.

What would come next: LinkSignal (epochs against late replies), registration of the OBEX
agent, the Maestro handler, the audio monitor, Fast Pair pairing windows and shutdown; a
composition of Operations and OwnerWatch, so that the fairness OwnerWatch assumes is
Operations' own property. Of the liveness properties, the safety part of their arguments
could be proved: that a request, scan or prompt that has not ended always has an action of
the daemon to wait for.
