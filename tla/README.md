# Verification of discrypt

TLA+ modules, TLC configurations and TLAPS proofs for discrypt, a peer-to-peer
encrypted group chat: Rust crates under `src/crates`, a Tauri desktop service in
`src/apps/desktop/src-tauri`, a TypeScript interface in `src/apps/ui`.

`PROJECT.json` lists the components, the runs, the lines each definition models,
the hazards and the theorems. This file explains them.

## The system

There is no server. Members of a group exchange MLS commits to agree on a
sequence of epochs; text is sealed in an epoch and sent over WebRTC data channels;
the peers find each other through public signaling providers.

- **Group state.** `mls-core` wraps OpenMLS and resolves governance events.
  `mls-delivery` orders commits, detects forks and repairs them, and has the text
  send/receive pipelines.
- **Joining.** `admission` issues invites and gates passwords; a member that
  approves a request sends a Welcome.
- **Connections.** `transport` has the session state machine, the signaling
  providers, WebRTC negotiation, data-channel framing, route policy, history
  synchronisation and the peer overlay. `relay-overlay` stores, forwards and
  redelivers for peers that cannot connect directly.
- **Desktop service.** `lib.rs` holds one application state behind one lock. Commands,
  attach threads, receiver loops and supervisor threads (`connection.rs`) take it in
  turn. A text message is queued in a persisted outbox, pumped over the attached
  runtimes, and settled by receipts.
- **Storage and keys.** `storage` has the author log, the recipient cache and the
  encrypted database; `content-keys` retention and shredding.
- **Media.** `media` protects voice frames; the desktop service signals voice sessions.
- **Around it.** `abuse` (rate limits), `push` (wake envelopes), `core` (facades),
  the interface, and the multi-node harness.

Joined by data: the MLS epoch decides which text envelopes a peer accepts; presence
leases decide which routes a message is queued for; the text session decides which
runtimes may exist; the supervisor threads drive pump and reattach.

### Inventory

| Part | Module | State |
|---|---|---|
| Ordered MLS delivery, fork repair, Welcome | `MlsDelivery` | modelled, proved |
| Text outbox, fan-out, receipts | `TextOutbox`, `TextDelivery` | text envelopes modelled, proved |
| Transport session life cycle | `TransportSessionOps`, `TransportSession` | modelled |
| Text session and runtime attach | `RuntimeAttach` | modelled but for voice, proved |
| Control-lane session managers | `ControlLaneManager` | modelled, proved |
| Attach threads and managers together | `TextSupervision` | composition |
| Text pipelines, history merge, data-channel framing, control lane transport, history sync | | planned |
| WebRTC negotiation, ICE, provider runtimes and fallback | | planned |
| Transport policy, route graph, peer overlay, relay overlay | | planned |
| Media frame protection, voice sessions | | planned |
| Admission, governance, devices, desktop membership, presence | | planned |
| Content keys, local store, encrypted database, desktop persistence | | planned |
| Interface: event cursor, command results | | planned |
| Abuse limits | | planned |
| OpenMLS engine, signaling clients, WebRTC stack, ciphers | | external |
| Media capture, push, facades, harness | | no state worth a model |

`PROJECT.json` gives the reason for each part that is left out, and the hazards found in it.

## Modules

### MlsDelivery — `crates/mls-delivery/src/lib.rs`

`joined`, `summary`, `accepted` are the `DeliveryState` of each member, `history` the
commits of its branch. `commits` is the network for commits: one that was sent may be
delivered at any time, any number of times, or never. `inbox` holds the repair plans
under way, at most `MaxInbox` per member; they are delayed, reordered and lost.
`DeliverCommit` and `ApplyRepairPlan` are `apply_commit` and `apply_repair_plan` with all
their rejections, `PlanRepair` is either planner, by `Comparator`; the flag
`replays_divergent_mls_commits` of a plan is left out, since both planners set it to false.
A member may build up to `MaxCommits` commits for an epoch. `IssueWelcome` and `Join` are the Welcome package with its expiry. Hashes are numbers, since the code only
compares them. `parent` in a commit and `history` in a plan are auxiliary: they record
what the properties talk about and no guard of the code reads `parent`.

### TextOutbox and TextDelivery — desktop `lib.rs`

One conversation, a channel or a direct message. `outbox` is the persisted record of each
message (expected, live, sent and receipted routes), `mstate` what the timeline shows.
The environment is `routes` (presence leases), `runtimes` (attached channels), frames in
flight, and peers with an MLS epoch of their own. Actions: `SendMessage`; `SendUnqueued`, a
message whose queueing failed and which stays in the timeline; `Presence` with the refresh it
triggers; `CleanUp`; `Pump` over all routes with partial failures; `HandleEnvelope` and
`HandleReceipt`; epoch changes, broken links, and a crash between the transport taking frames
and the save. A member goes in two ways: `RemoveMember` is another member's frame, with its
commit and a cleanup of the outbox, `RevokeMember` the local command, which leaves the outbox to
the next cleanup and works also when OpenMLS cannot remove the member. A pump takes at most
`PumpLimit` frames per route, two of them retries; the code picks them by priority and age, the
model any of that number. `sent_local` stands for all states of a message before its first
frame is out, whatever proof the transport gave by then.
`TextDelivery` is what a sender may rely on; `DeliveryPromise` says `TextOutbox` implements
it, with the timeline's `peer_receipt` as confirmation.

### TransportSessionOps and TransportSession — `crates/transport/src/session.rs`

Every transition method as a function on the session record, identity where the code
returns an error; `TransportSession` calls them in every order. `budgeted` distinguishes
callers that reconnect by `schedule_reconnect` only, for which the budget is promised. The
attempt counter saturates at `U32Max`, which stands for `u32::MAX`.

### RuntimeAttach — desktop `lib.rs`

The text session slot, the maps of pending and attached runtimes, the broker control lane,
and attach threads that connect without the lock. Commands and completions are atomic
because they hold the service lock. Rows older than 60 s, dead channels, failed attaches
and restarts are faults, at most `MaxFaults`. The code also compares the local peer id when a
thread completes; the model leaves that test out and so lets a thread through that the code
might turn away, which only adds behaviours. `by` in a row or runtime is auxiliary: the
thread that made it.

### ControlLaneManager — desktop `connection.rs`

The registry of supervisor threads and the threads' loop. A spawn takes the registry lock
twice and starts the thread in between, so it is three steps; commands hold the service
lock throughout, attach threads do not. A budget of `U32Max` never runs out, since the
attempt counter saturates there and is compared with `>`. A manager that fails closed leaves
its registry entry behind, to be removed by the next halt.

### TextSupervision

`RuntimeAttach` and `ControlLaneManager` as instances that share their steps: an attach thread
that installed a runtime spawns a manager, and a manager's cycle pumps the session in the
slot and reattaches what is missing. It looks at the slot, releases the lock and attaches
afterwards, so the session may have been replaced in between; `attach` then refuses.

## Runs

`tlc -config <cfg> <module>`. Deadlock checking is off everywhere: every bounded counter
ends at its bound, and the real system may also rest.

| Run | Question | Answer |
|---|---|---|
| `mls_events` | Do late, repeated or reordered commits and stale plans skip an epoch, take a member back, or let an event into another epoch? | no |
| `mls_convergence` | Do all members, one of them joining by a Welcome, end in one state after a fork with up to three branches? | yes |
| `outbox_channel` | Are receipts true and records consistent, does the outbox implement `TextDelivery`, is every message settled that can be? | yes |
| `outbox_dm` | The same safety for direct messages, which may go out without a known route, when there are more of them than a pump takes. | yes |
| `session` | Do route, failure, attempt counter and budget hold under every order of calls? | yes |
| `attach` | Do late threads, restarts and stale rows leave runtimes of another session, rows nobody works on, or two attaches of a peer, or revive a stopped session? | no |
| `manager` | Does the registry name only managers nobody told to stop, is every exit accounted for, does a halted thread stop? | yes |
| `supervision_reattaches` | Does a running supervisor bring back every lost runtime, and only to the session in the slot? | yes |

Four runs show where a comment or plan says more than the code does:

- `mls_commit_from_other_branch`: `apply_commit` compares epochs only, so after a fork it
  accepts the next epoch's commit of the other branch. The history stays gapless and the
  members still converge; the commit does not extend the state it is applied to.
- `attach_foreign_row`: a thread from before a stop and a new attach of the same session id
  consumes the row of the newer attach.
- `manager_two_spawns`: a start command and an attach thread, or two attach threads, both pass
  the halt before either inserts; the second insert overwrites the first entry, and that thread runs on
  with nothing left to stop it.
- `supervision_after_stop`: stopping the text session does not stop its managers.

### Bounds

- `mls_events`: two members, two epochs. A fork at epoch 1 and commits on both branches for
  epoch 2 are the smallest case in which a late commit meets another branch.
  One payload suffices, since events differ by epoch and author. `MaxCommits` 2 lets a member
  build two commits for an epoch, which only their hashes tell apart.
- `mls_convergence`: three members and three hashes, one epoch: a three-way fork needs three
  commits. `MaxCommits` is 1. `WelcomeTtl` 0 with one tick covers valid and expired.
- `outbox_channel`: one message to two peers is what partial fan-out and shrinking audiences
  need; messages interact only through the limits of a pump. One fault, one removal and
  one epoch change occur in every order; the proofs cover any number.
- `outbox_dm`: three messages with `PumpLimit` 2, so that a pump has to leave one out;
  `outbox_channel` uses the 16 of the code.
- `attach`: two sessions and three threads cover a stop, a restart and a late completion; one
  fault. The proofs cover any number.
- `manager`: two managers, two attach threads and two commands reach the race of two spawns;
  `Budget` 1 and `U32Max` 2 reach exhaustion and saturation.
- `supervision_reattaches`: one peer, two sessions of different labels, one fault, two
  managers, three attach threads. More than one fault needs more threads than TLC can afford.
- `session`: `MaxAttempts` is the 8 of the policy; with `U32Max` 12 unbudgeted callers pass it and
  reach saturation. The attach models count no session attempts.

Threads that have not started are alike, so the models pick one with CHOOSE.

### Fairness

- `MlsDelivery`: a member behind is eventually handed a next commit, a fork is eventually
  noticed, and a member sent plans again and again eventually handles one (strong fairness,
  since the network may lose any single plan). The library leaves these to its caller;
  `Convergence` is what it promises a caller that does them.
- `TextOutbox`: heartbeats, attach jobs, the pump and the receiver loops are periodic loops in
  the code, hence weak fairness; a retry waits for a bounded delay after each try, so every
  message has its turn. Faults have none and are bounded.
- `ControlLaneManager`, `TextSupervision`: the operating system runs each thread to its next
  step; a connection attempt ends because the code gives it a timeout. Commands have no fairness.

## Proofs

For every value of the constants, under the named assumptions (bounds are natural numbers, a
direct message has one peer, `None` is no record).

- `MlsDeliveryProofs`: `TypeOK`, `GaplessHistory`, `EpochNeverDecreases`,
  `EventsAcceptedInTheirEpoch`. `GaplessHistory` is not inductive: a plan or a Welcome in
  flight carries a branch that will replace a member's. `IInv` adds that every plan and
  Welcome under way carries a gapless branch; `commits` only grows, so a branch stays one.
- `TextOutboxProofs`: `TypeOK`, `ReceiptsAreTrue`, `RecordsConsistent` and the refinement
  `DeliveryPromise`. `IInv` adds that whatever is in flight was queued, that a receipt in flight
  is backed by a stored message, and that a message shown as received has a receipt of
  every expected peer. The lemmas say what each operation does to one record.
- `RuntimeAttachProofs`: `TypeOK`, `OnlyCurrentSession`, `RowsAreWorkedOn`, `OneAttachPerPeer`,
  `NoReplacement`, `StoppedStaysStopped`. The first five are proved together, with the fact that unstarted threads work on
  nothing: a completing thread may install its runtime only over a row, a row excludes a
  runtime, and rows belong to the session in the slot. The last rests on the fact that a
  session id is not given twice (`IdsAreSpent`) and on what a route proof does to a session
  that is over: nothing.
- `ControlLaneManagerProofs`: `TypeOK`, `RegistryIsTrue`, `ExitsAreAccounted`. The strengthening for
  the registry says that a thread started but not yet registered is named by no entry and by
  no other caller, so no halt can have reached it; for the exits, that a thread about to fail
  closed, also after a pending reattach, has used up its budget, which one of `U32Max` never is. That two managers of a
  session can run at once (`manager_two_spawns`) does not contradict the first: the
  registry names one of them.

Only model-checked: all liveness (`Convergence`, `EventuallyReceipted`, `HaltedThreadsStop`,
`SupervisionReattaches`), which is out of the prover's reach, and the safety of
`TransportSession`.

## Plan

1. **Messaging**: data-channel chunks under the send lock and through reconnects, the
   text receive pipeline (replay slots, epochs, a failed store), history merge and
   history sync. Abstract specification: each message is rendered at most once, in any order.
2. **Storage**: the encrypted database with crashes between its steps, local store,
   tombstones and shredding across devices. Invariant: nothing shredded becomes readable again.
3. **Membership**: invites, password and helper gates, governance resolution, desktop
   approval and revocation frames, presence. Question: do members that receive an epoch's
   events in different batches agree?
4. **Connections**: negotiation with early and late candidates, provider fallback and
   recovering peers, on top of `TransportSessionOps`.
5. **Relays**: store and forward, redelivery windows, failover, overlay authorisation.
6. **Media and voice**: SFrame counters and replay windows across rotations; voice sessions.
7. **Interface**: the event cursor against command results in any order.
8. **Algorithms**: backoff, rate limits, route selection, against reference definitions.
9. **Proofs**: `TransportSession`, then replay windows, tombstones and invite uses.

The parts are to be composed where the code joins them: messaging with `TextOutbox`,
membership with `MlsDelivery`, connections with `RuntimeAttach`.
Voice sessions reuse `TransportSessionOps` and the attach model.

## Not modelled

Ciphers, signatures and key derivation are assumed to do their work: a frame that reaches
a handler verifies. Wording, logs, diagnostics and status views are left out, as are delays
beyond "has passed". Provider-control frames share the outbox with text and are not in
`TextOutbox`. The other parts are in the inventory above.

## Further hazards

`PROJECT.json` lists the main hazards, with the properties that cover them. Smaller ones, or ones in
parts still to be modelled:

- `src/apps/desktop/src-tauri/src/lib.rs:4691`: registering a broker control lane drops
  the pending rows of the session while their threads are connecting; their completions
  must be discarded.
- `src/apps/desktop/src-tauri/src/lib.rs:9206`: a message whose queueing fails is kept in the
  timeline and nothing queues it again.
- `src/apps/desktop/src-tauri/src/lib.rs:12665`: stop of an already cancelled session
  returns early, before the runtimes are cleared.
- `src/apps/desktop/src-tauri/src/connection.rs:306`: the thread cannot be started after
  the old manager was already halted: the session is left without a supervisor and the
  caller only sees an error.
- `src/crates/mls-delivery/src/lib.rs:1801`: lost or rejected repair plans leave the group
  forked for ever.
- `src/crates/mls-delivery/src/lib.rs:1828`: events accepted on the losing branch survive
  the repair, so states that agree on the MLS summary disagree on the events.
- `src/apps/desktop/src-tauri/src/lib.rs:5552`: one route of a fan-out fails while the
  others succeed.
- `src/apps/desktop/src-tauri/src/lib.rs:13532`: cleanup turns any record without live
  routes, a settled one included, into closed_route, from where only a refresh brings it
  back.
- `src/apps/desktop/src-tauri/src/lib.rs:14243`: only two retries per pump and route: many
  messages that wait for the same silent peer slow down each other's retries.
- `src/crates/transport/src/session.rs:409`: a route kept after a disconnect would be
  reported by the next snapshot of a session that reconnects another way.
- `src/crates/transport/src/control_lane.rs:253`: one frame that does not open ends the
  loop with an error after the whole batch was taken from the room.
- `src/crates/transport/src/webrtc_negotiation.rs:1798`: one queued candidate that cannot
  be applied ends the flush after the queue was emptied, and fails the answer.
- `src/crates/transport/src/provider_adapters.rs:1057`: inbound frames of all generations
  of a peer share one channel of 128; a reader that stops blocks every forwarder.
- `src/crates/relay-overlay/src/redelivery.rs:55`: the same window logic for relayed
  packets, with jumps of a sender's sequence at the edge of the window.
- `src/crates/relay-overlay/src/store_forward.rs:218`: expired envelopes count against the
  queue limit until some recipient drains.
- `src/crates/admission/src/lib.rs:1745`: the password attempt is counted before the
  invite is consumed, so an exhausted or expired invite still costs an attempt.
- `src/crates/storage/src/lib.rs:367`: the cache evicts the oldest by arrival time, which
  may be the entry just inserted or one that carries a shredded state.
- `src/crates/storage/src/lib.rs:484`: merge_author_logs keeps the entries before a
  conflicting one; only the atomic variant rolls back.
- `src/crates/storage/src/appdb.rs:1977`: the database is moved aside before its WAL and
  journal; a crash in between leaves sidecars beside a fresh database.
- `src/apps/desktop/src-tauri/src/lib.rs:13606`: a voice signal is published for a session
  that was left and joined again.
- `src/crates/abuse/src/lib.rs:165`: a hit exactly one window old still counts.
