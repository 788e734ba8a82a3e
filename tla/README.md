# A verification project for hya

hya is an agent server written in Rust. Clients send prompts to sessions. A
session runs turns, a turn runs rounds of a language model and its tools, a tool
may spawn subagents, and a restart of the server hands running work over to the
next process. This directory holds TLA+ models of the parts where the order of
steps decides whether that works, the TLC runs that check them on small
instances, and TLAPS proofs for every value of their constants. Paths below are
relative to the repository.

The project has seven parts:

| Part | Question | Modules |
| --- | --- | --- |
| Turn gate | Does a session run one turn at a time, and does nobody sleep through a wake-up? | `AtomicGate` (what is promised), `TurnGate`, `TurnGateProofs`, `MCTurnGate` |
| Spawn admission | Is a spawn request run at most once, and its budget debited and returned exactly, over cancels, takeovers, failures and restarts? | `Governor`, `GovernorProofs`, `ActorClaims`, `SpawnAdmission`, `SpawnAdmissionProofs`, `MCSpawnAdmission` |
| Turn end and restart handoff | Does every message end, and is work that was checkpointed for a restart continued exactly once? | `SessionLog`, `Handoff`, `HandoffProofs`, `MCHandoff` |
| Projection cache | Does a read through the cache and its durable snapshots always answer with the fold of the log, over rollbacks, deletes, evictions and other builds? | `EventLog` (what is promised), `ProjectionCache`, `ProjectionCacheProofs`, `MCProjectionCache` |
| Ephemeral sessions | Does the server drop the sessions nobody used, and none that somebody did? | `EphemeralSessions`, `EphemeralProofs`, `MCEphemeralSessions` |
| Resident team | Is no wake, no mail and no report lost between the bus, the slots, the leases and the user, and is a team that is done summed up? | `ResidentTeam`, `ResidentTeamProofs`, `MCResidentTeam` |
| Permission plane | Does every ask of a tool call reach the user or end, and do answers, rules, switches to yolo and restarts agree on it? | `PermissionPlane`, `PermissionProofs`, `MCPermissionPlane` |

## 1. Inventory

### How the parts interact

1. `create_turn` (`crates/hya-server/src/v1/turn.rs`) takes the session's slot in
   the run registry (`runs.rs`), appends the user's prompt and spawns a run. The
   run claims the session's turn at the **turn gate**
   (`crates/hya-core/src/engine/turn_gate.rs`) and holds a lease while it runs
   (`engine/turn.rs`). Residents and the restart driver claim turns at the same gate.
2. A turn opens an assistant message, runs rounds, and closes the message with
   one `MessageFinished` (`engine/turn_end.rs`). Everything it does is an event in
   the **event store** (`crates/hya-store`), folded into a projection
   (`crates/hya-proto/src/projection.rs`).
3. A spawn tool call sends a request to the spawn supervisor
   (`crates/hya-app/src/runtime.rs`). It records the request in the **admission
   journal** (`crates/hya-store/src/admission.rs`), debits the root's budget at the
   **governor** (`crates/hya-core/src/orchestrator.rs`) and starts a registration
   task. Members that persist are *resident actors* (`crates/hya-core/src/resident.rs`)
   with a durable claim under an epoch (`crates/hya-store/src/resident_claim.rs`).
4. A restart request reaches the signal loop of `hya serve`
   (`crates/hya-backend/src/serve.rs`). It quiesces the gate, lets every root turn
   write a checkpoint and a pending resume in one transaction
   (`engine/handoff.rs`, `crates/hya-store/src/handoff.rs`), starts the successor and
   releases the store. The successor repairs the log
   (`crates/hya-store/src/recovery.rs`) and continues the checkpointed sessions
   (`engine/restart.rs`). A restart that is rejected reopens the gate and continues
   them in the same process.
5. Every reader of a session goes through the projection cache
   (`crates/hya-store/src/projection_cache.rs`), which folds the rows after a cached or
   persisted base.
6. A client that connects creates an *ephemeral* session; the reaper of
   `crates/hya-server/src/ephemeral.rs` drops it when it stays unused and unwatched. It
   takes the same admission slot as a prompt and deletes under a condition on the log's end.
7. Residents of a team mail one another through the team's log. The supervisor hears each
   `MailSent` on the event bus, marks the recipient's slot and notifies its task, which runs
   a turn under the gate's lease; a turn reads later mail into its tool results
   (`engine/steer.rs`). When no slot is busy the lead is given a synthesis.
8. A tool call that no rule allows asks the user (`crates/hya-tool/src/permission.rs`). The
   bridge of `crates/hya-server/src/pending/permission.rs` writes a row for the ask and keeps
   it until a client answers or the tree is switched to `yolo`. "Always" also saves a rule,
   which every later process restores. A reply to an ask of an earlier process is queued
   for the next start (`crates/hya-backend/src/serve.rs`).

### Components, their state and what makes them correct

| Component | State | Operations | Correct when | Status |
| --- | --- | --- | --- | --- |
| Turn gate | active turns with lease id, cause and token; draining; holding; handoff set; one `Notify` | acquire, try_acquire, bind_cancel, release, cancel, begin_drain, quiesce and lift, wait_idle, wait_released | one turn per session; no lost wake-up; a drain reaches every turn; every claim is answered | modelled |
| Admission journal | one row per operation: state, epoch, logical_released | claim, start, finalize, abort of an actor's or a root's rows, recovery | rows move forward; a request runs at most once; every row ends | modelled |
| Governor | remaining units and debits per root, reservations | reserve, release of an operation, release of a root, exact reservation and refund | no unit lost, none gained, no debit leaked | budget modelled; team turn and message budgets and semaphores are not |
| Resident claims | epoch, owner and state per actor | claim, takeover, release, fence | an old incarnation advances nothing | modelled |
| Turn life cycle | the turn's position, its message, its cancel | claim, start, boundary, round, tool, finish, fail, cancel, stop, drain | an open message belongs to a running turn; a cancelled turn ends | modelled down to the round |
| Restart handoff | controller position, pending_resume rows | quiesce, wait, reject, checkpoint, resume, spawn, release | one live resume, driven once; log and rows agree; a rejected restart serves on | modelled up to the release of the store |
| Crash recovery | open-message index | close open turns at startup, drain and stop deadlines | see turn life cycle | modelled |
| Event store, projection cache | event log, sequence numbers, open transaction, snapshots, cached projections | append, transaction, fold, read, persist, evict, delete, delete at | a read answers with the fold of the log at one moment of the read | modelled, without the tables derived from events |
| Ephemeral sessions | mark in the log, watchers with generations, admission slots, scheduled checks | create, mark, watch, prompt, write, fork, delete, check, reap, sweep | a session whose mark is gone is kept; a prompt lands; an unused session goes | modelled |
| Mailbox and channels | mail, cursors, receipts, quotas | send, read, acknowledge | no cursor passes mail no turn was given; mail reaches a live agent | inboxes and cursors in `ResidentTeam`; channels, policy, quotas and receipts are not |
| Resident supervisor | slots, busy count, work counters, stops, kills | wake, run, report, archive, stop, kill, quiescence, revive, teardown | no wake lost; a stop holds; reports execute; a team that is done is summed up | modelled, without revival, sidecars, workflow routes and teardown |
| Workflow runs | run status, stages | admit, step, interrupt | an interrupted run is not continued twice | only what others see |
| Permission and interaction | calls that wait, the map of pending asks, grants, saved rules, durable rows and queued replies | ask, answer, intercept, cancel, switch the mode, save and delete a rule, restore | an ask is answered once or its call ends; yolo leaves none pending; what is shown is durable; a saved rule was the answer | modelled, without questions and the matching of rules |
| Backend daemon and locks | database lock, journal of restart stages, generation pins | stage, health wait, rollback, park | exactly one owner of the store | planned |
| Updater | journal of install stages, file lease | stage, commit, roll back | a crash leaves a runnable version | planned |
| Steering, event bus | marks of a read, envelopes not received yet | drain, acknowledge, lag, recover | see resident supervisor | the parts a team uses |
| Runtime registry, compaction, revert, loop mode | configuration, text, transcripts | | | not modelled: composition of configuration or text edits of one session |
| Providers, MCP, plugins, tools, bundles, relay | connections, child processes, packages | | | not modelled: wire formats and I/O; their failures appear as failed rounds and lost sidecars |
| Clients, SDKs, generated API, e2e tests, vendored code | none that is authoritative | | | not modelled |

`PROJECT.json` lists every component with its sources.

### What is hard here

Nearly every operation of the core is several awaits long, and between two of
them a user cancels, a resident wakes, a deadline fires or the process dies. The
behaviours tests hardly reach, and where the project looks at them:

- interleavings: a claim that looks at the gate while a turn ends; a cancel next
  to `bind_cancel`; the sweep of a root's turn next to a registration task; a drain
  deadline next to a turn that is closing its message;
- state read before an await and used after it: `wait_idle` and then
  `active_sessions`; the fold read by `close_turn_message`; the tail read by the
  resume driver; the epoch a request was issued under;
- crashes between two transactions, takeovers of takeovers, and a successor that
  dies in its own startup;
- partial failure: every store call of the supervisor, of the driver and of a
  turn can fail on its own;
- bounded resources: a spawn budget that is at zero although units are due back; a full
  cache that evicts the entry a read started from;
- stale looks: a tail folded onto a base that a rollback or a delete has made wrong; a
  reaper that read a session before it was used; a wake whose mail arrives during the read;
- loss and overtaking: a bus listener that lags, a stop next to a wake, an archive next to
  a report, an acknowledgement of mail next to the count of more, two clients that answer
  the same ask.

The `hazards` of `PROJECT.json` name 40 of them, each at its line.

## 2. Modules and the code

### TurnGate

One action is one critical section of the gate's mutex, or one effect the code
has after dropping it (cancelling a cloned token, `notify_waiters`). That split is
the subject: `Enable` (the `Notified` is enabled), `Acquired`/`RefusedClosed`/`Busy`
(`try_acquire`), `Park` and `Wake` are separate steps of one call of `acquire`.

| State | Code |
| --- | --- |
| `active`, `draining`, `holding`, `handoff`, `nextId` | `GateState` and `TurnGate.next_id` |
| `pc`, `want`, `lease`, `requests` | a task that opens turns, nested turns included (`HELD_TURNS`) |
| `enrolled` | tasks whose enabled `Notified` has not been notified |
| `kpc`, `kfire`, `kscope` | a task that cancels, drains, quiesces or waits |

A token is identified by its lease and by whether `bind_cancel` has replaced it, so
a cancel that fires the old token after the binding is visible as such.

`AtomicGate` is the same gate with one step per operation, as its users see it: who runs a
session's turn, why it was cancelled, and whether the gate is open. `TurnGate` is checked
and proved to implement it.

### Governor, ActorClaims, SpawnAdmission

`Governor` is the budget of `orchestrator.rs` and `ActorClaims` the claim table with
its fence. `SpawnAdmission` composes both with the journal and with every task that
touches them: the supervisor's loop (`sup`), the registration task of an operation
(`task`), the sweep at the end of a root's turn (`clean`), takeover and recovery of
an actor (`recov`, `owed`), a workflow's reservation guard (`wf`), and startup
(`boot`). A crash clears memory and keeps journal and claims. A store call that can
fail on its own does so while `faults < MaxFaults`. `spawns` and `gaveUp` are ghosts:
how often a registration task was started, and for which actors a recovery failed.

`finalize_spawn_admission` is two steps, because the transaction and the refund are
two: another task can run between them. The process that crashes and the one that
starts do not overlap.

### SessionLog, Handoff

`SessionLog` keeps of a session's log which messages it has, how each ended, whether
a tool part is open and how many `MessageFinished` it holds, and of a `pending_resume`
row the messages it closed, whether it was taken and how often it was driven (the
last one is a ghost). `Handoff` is a turn from its claim to the end of its lease, the
signal loop with restart and drain, startup recovery and the resume driver.

| State | Code |
| --- | --- |
| `log`, `rows`, `wf`, `archived` | durable: events, `pending_resume`, status of the latest Workflow run, the archived flag |
| `turn`, `cancel` | the turn that holds a session's lease, and the cause it was cancelled with |
| `queued`, `stops` | prompts that wait for the gate; `stop_turn` calls that wait |
| `holding`, `draining`, `started` | the part of `GateState` a restart uses |
| `ctl` | the signal loop, the startup and the resume driver, which run one after the other |

What the abstraction leaves out or folds together:

- Prompts go to root sessions; members are woken by mail. Which members `cancel_run`
  finds below a session is a nondeterministic subset.
- The check for a cancel at the head of a round and the biased `select` around a round
  are one action, `Preempt`. A round that finishes while a cancel is pending loses to it.
- A prompt that unarchives its session and is appended is one step; a client may archive and
  unarchive a root at any time beside it (`Archive`, `Unarchive`), its running turn goes on.
  `ctl.barred` is what the projection in the driver's hands says of archive and Workflow run.
- The open-message index is kept in the transaction that opens or closes a message, so
  it is the set of open messages.
- The driver takes listed rows in any order. The code's order is that of the table.
- `Release` and `Crash` end all tasks of the process at once. The short time in which
  the old process still runs while the successor opens the store is not modelled.
- The flag that holds back a session's residents after a user's stop is not kept, so a
  wake may happen where the code would suppress it.
- A round that fails also stands for a root's lost sidecar. A resident's lost sidecar
  and the cancel of a whole team are not in `Handoff`; the takeover they cause is in
  `SpawnAdmission`. A member whose report ends its turn ends by `ToolReturns` and
  `FinishRound`.
- `ResumeTimeout` at `start` is a pass that is dropped after its ack was committed.

### EventLog, ProjectionCache

`EventLog` is the promise: a log per session, one writer transaction at a time, reads that
answer with the fold of the log at one moment. It has no cache. `ProjectionCache` is the code:
each SQL statement and each critical section of the cache's mutex is a step, so writers, deletes
and other readers come in between them. A fold is the sequence of rows applied and the
version of the reducer that applied them; a missed, doubled or rolled-back row is visible.

| State | Code |
| --- | --- |
| `log`, `seq`, `tx`, `snap` | `event_log` and its AUTOINCREMENT, the open `BEGIN IMMEDIATE`, `projection_snapshot` |
| `ver` | `PROJECTION_REDUCER_VERSION` of the running build |
| `cache`, `purge` | the map of entries; deleted trees whose entries are still to be removed |
| `pc`, `asked`, `work` | calls of `cached_projection`: position, session, base and then fold |

`CacheTransparent` is `Log!Spec`: the refinement maps an abstract answer to the fold of a read
that has one and leaves everything else as it is. Sequence numbers of a transaction that
rolled back are given out again, which is why a base must be anchored at its last row and
dropped after a rollback. Abstracted: the victim of an eviction is any entry (the code takes
the least recently used), one process runs at a time, and the tables derived from events are
left out.

### EphemeralSessions

The log of a session is kept as its fold, which `EventLog` justifies: last sequence number,
mark, whether it was used, and as a ghost whether a use cleared the mark. Steps are the await
points of the handlers (`call`) and of the reaper (`check`), with the watcher map (`gen`,
`gens`, `stream`), the admission slots (`slot`) and the startup sweep (`sweep`). A dropped
request (`Disconnect`), a failed store call (`ReapFails`) and a restart are faults. The ghost
`lapse` says that a check was given up. The code does that in three cases: a store call of the
reap fails; a create handler is dropped after it marked the session and before it scheduled the
check; and, without any failure, a check that read the session before it was marked forgets
its watchers after the mark, which voids the check its creation has scheduled (`NotEphemeral`).

Folded together: the look of `ensure_session` is the stale `born` in `StartRun`; the writes of
archive and unarchive and the sweep's limit on events (`SWEEP_MAX_EVENTS`) are left out. `Room` bounds only the start
of a request, so that a request under way can always finish.

### ResidentTeam

One team: the lead (`Main`) and its members. A mail is its position in the inbox of its
recipient, so cursors and what a model was given (`shown`, a history) can be compared.

| State | Code |
| --- | --- |
| `inbox`, `row` | the team's log: mails, roster rows with the consumed prefix and the claim of a running wake |
| `slot`, `busy`, `newWork`, `leadFailed`, `killed`, `doomed`, `permit` | `TeamState`, each slot's `Notify` |
| `lease`, `token`, `holding`, `released` | the turn gate as the team sees it, the cancel token of a session's turn, and the callbacks of released leases that wait to run |
| `task`, `turn`, `reader` | `resident_task`, the turn it runs, the lead's read of new mail with its mark |
| `bus`, `heard` | `MailSent` envelopes not received yet; the one `on_mail` or `recover` works on |
| `archiver`, `asked`, `stopping`, `steering` | `stop_and_archive_live`, the user's prompt, the sessions `cancel_user_turn` still has to cancel, steers whose stop is still to be lifted |

What is one step although the code has an await in it, and why that hides nothing: a parked
task takes its permit together with the lock of `next_action` (nothing looks at the permit in
between); `run_one_turn` reads, claims and injects in one step (mail that arrives in between
is behind the claim, as mail that arrives after); `finish_run` and `record_activity`; the take
of a report and the check of its gate; the archive and the removal of its slot. The steps where
other tasks do matter are apart: `on_mail` before and after its look-up, the three steps of a
read of the lead, the stop of a user and each cancel after it, report, mail and archive.

A cancel is two steps, as in the gate: `CancelNext` and `StopSlot` clone the token under the
lock (`Aim`), `FireCancel` fires the clone after it. The turn binds its own token in between
or not: `StartTurn` for a wake, `StartPrompt` for the user's prompt, which has claimed its lease
before (`ClaimPrompt`). `Bind` carries a fired cancel over to the new token and misses one that
is only aimed.

`newWork` is `work_seq # last_synth_work_seq`, the only comparison the code makes. `Send` may
come from any agent, modelled or not. `Broadcast` reaches any subset of the live members, since
a member whose last turn was cancelled shows as failed and is passed over. Left out: channel
policy, sidecars, workflow routes, revival, failing store calls, `StopResident` requests, and a
lead that a given-up handoff drives again.

### PermissionPlane

One action is the code between two awaits of a tool call, of the bridge, of a client's
request or of a start. The configured rules are left out: an ask is a check they answer
with `Mode::Ask`. An ask has a session and a key, which is what "always" is remembered as.

| State | Code |
| --- | --- |
| `ask`, `verdict` | the call in `PermissionPlane::authorize`, and its oneshot channel |
| `live` | `persistent`, `native_grants` and `scoped` of the plane |
| `mode` | the permission mode recorded in the root's log |
| `chan`, `bridge`, `pending` | the channel to the bridge, its task with the ask in hand, `PermissionRequests.inner` |
| `client` | a request in progress: `reply`, `set_permission_mode` with its sweep, or the deletion of a rule |
| `rows`, `queue`, `saved` | unresolved `pending_interaction` rows, `pending_interaction_reply`, `saved_permission` |
| `proc` | the process: up, down, or at the replies it found queued |

The bridge holds the lock of the map over its read of the lineage and its write of the row, so
`LockFree` guards every other step that looks at the map. The sender of an ask moves with it:
from the channel to the bridge, to the map, to the related set of the request that took it. A
request that ends early (`Fail`) drops the senders it holds, and their calls end as unavailable.
`Halt` is the end of a process: memory goes, rows stay, and calls that were open are
closed by the recovery of the log. `swept` is a ghost. A read of the
lineage that fails (`DecideBlind`, `SweepBlind`) leaves an ask pending by design, and takes
its tree out of `swept`. Folded together: the order of the channel, the events published beside
an answer, and how a resource matches a key. A reply to a row of an earlier process comes in
through `Respond` of an ask that was listed before; the list of carried-over rows is not kept.

Definitions whose names end in a word after an underscore and whose comment starts with
MUTANT are wrong variants of the definition below them. A run must fail when one of them
is put in its place; they are part of no specification.

## 3. Runs

`tlc -config X.cfg M` checks one. States are distinct states. Type invariants and
`JournalForward` are proved (section 4); of them a run checks only the one of `SpawnAdmission`,
which bounds the budget.

| Run | States | What it checks and shows |
| --- | --- | --- |
| `turn_gate` | 191,410 | Two tasks and a controller over a lead and a child session: `SingleActiveTurn`, `NoLostNotify`, and `AtomicGate` implemented (`ImplementsGate`); every queued claim is answered (`QueuedResolves`) and a drain empties the gate (`DrainCompletes`). |
| `spawn_admission` | 162,793 | A root's own request and one of a resident compete for one unit: `SpawnedOnce`, `NoUnitLost`, `NoUnitGained`; under fair scheduling every row ends (`RowTerminates`) and every debit comes back (`DebitReturned`). |
| `spawn_takeover` | 1,080,342 | A resident that is taken over again and again, a request that is too deep, a background workflow and one failing store call: `DebitRecoverable`, `NoStrandedRow`, `StaleNeverAdvances`. |
| `handoff_restarts` | 1,077,864 | Root and member over two restarts, a crash, a stop and a startup pass that times out: `DrivenOnce`, `OpenHasTurn`, `StartupDelivers`. |
| `handoff_faults` | 3,659,742 | Two restarts with one failure anywhere, a Workflow run, an archive and a drain: `OneLiveResume`, `CloseHasResume`, `GateReopened`, `CallsSurviveHandoff`, `StaleMovedOn`. |
| `handoff_live` | 85,762 | `HandoffResolves`, `CancelledCloses`, `ResumeDelivered` under fair scheduling. |
| `projection_cache` | 924,130 | Two reads next to appends, a transaction, deletes of a tree, evictions and restarts of two builds: `SnapshotAnchored`, and the refinement `CacheTransparent`. |
| `ephemeral` | 258,173 | Two clients and two checks of the reaper on one session, with two faults: `ClearedIsKept`, `PromptLands`, and `UnusedIsDropped` under fair scheduling. |
| `team` | 423,421 | The lead alone, a member alone and both: `BusyExact`, `NothingSkipped`, `StoppedIsQuiet`; `MailHeard`, `ReportExecutes` and `TeamSynthesizes` under fair scheduling. |
| `permission` | 647,954 | Two calls of a subagent that ask for the same thing and two clients: `YoloReleased`, `PendingIsDurable`, `SavedWasHeard`; an ask reaches the user or its call ends (`AskReaches`) under fair scheduling. |
| `handoff_prompt`, `team_report` | – | Each violates one property that a comment or a document of the repository states. See section 6. |

### Bounds, and why they are enough

*TurnGate.* Two callers, one controller, two sessions, two requests. Two tasks are
enough for a conflict over a session, a lead with a child for nested claims, and one
controller for every race of a drain with a release, since the controller's steps are
interleaved with both callers'. `user_cancel` and `handoff` stand for the causes: only
a handoff drain can be cleared.

*SpawnAdmission.* A budget of one makes every second request overload, so that
reconciliation runs. `o1` belongs to the root, `o3` to actor `a1`, `o4` is too deep.
Two runs of the process allow a crash at every point and the recovery after it; the four
epochs of `spawn_takeover` allow a takeover of a taken-over actor, a release and a new claim,
the two of `spawn_admission` one takeover. One fault reaches every error path alone. The run
with the liveness properties has no faults, because a listing that fails leaves an accepted
row open until the next recovery, which is what the code does.

*Handoff.* `MCHandoff` names how often each kind of environment step may happen.

| Limit | prompts | main wakes | member wakes | restarts | stops of the server | crashes | timeouts | faults | Workflow runs | archives |
| --- | --- | --- | --- | --- | --- | --- | --- | --- | --- | --- |
| `LimitRestarts` | 1 | 0 | 1 | 2 | 0 | 1 | 1 | 0 | 0 | 0 |
| `LimitFaults` | 2 | 0 | 0 | 2 | 1 | 0 | 0 | 1 | 1 | 1 |
| `LimitLive` | 1 | 1 | 0 | 1 | 1 | 1 | 0 | 0 | 0 | 0 |

Two restarts are needed for a second checkpoint of a session with a row from the
first, and a crash or a timeout for a resume that is interrupted; two prompts for a
session that moves on between a checkpoint and its resume. `handoff_faults` has no crash: a
drain whose sweep fails leaves the same open messages to the next process, crashes are in the
other two runs, and the theorems hold with any number of them. Cancels of a user, stops of
a member, unarchiving and tool rounds are not bounded. `StartupDelivers` is checked without main
wakes: a root's main actor that wakes during the pass makes it skip the session, which
`ResumeDelivered` and the run `handoff_live` allow for.

*ProjectionCache.* Two sequence numbers, a transaction of one row, a root with one child, a
cache of one entry, snapshots after every row. A base goes wrong when a number is given out
twice: one row that is folded inside a transaction, rolled back and written again with
another payload, or one row deleted with its session and read back from a snapshot; both fit.
Two readers let one persist or put what the other has just made stale. With a capacity of one
every second session evicts. Readers, builds and payloads are symmetric; no temporal
property is checked beside the refinement, which is one of safety, so the reduction is sound.

*EphemeralSessions.* One session, two clients with a request and a stream each, two checks,
four events: create, mark and two writes, so that a check can be made stale by one write and
overtaken by another. One departure of a last watcher, two faults.

*ResidentTeam.* Each behaviour has one of six scenarios, which trade mails, acts of the user
and faults against one another: the lead alone with two mails, an act and a fault, or one mail,
two acts and a fault; a member alone with one mail and two acts, or one act and a fault; both,
with an act or a fault (their mail is then the member's report and the broadcast of a failed
turn). A fault is a kill, a failed turn, a lag or a hold, each at most once. One waiting
callback of a released lease for each session (`MaxReleased`): a second one would do what the
first does. `team_report` has a member with a report and one mail.

*PermissionPlane.* Two asks of one session and one key, so that an answer to one releases the
other, in a subagent, so that the mode of the tree is not that of the asking session; two
clients, which answer, switch and delete next to one another. `Budget` bounds together what
the environment does beside calls and answers: switches, interceptions, cancels, failed store
calls, disconnects, deletions, crashes and handoffs. Two of them allow a switch or a cancel next to a
failure, and a failure or a deletion before a restart. The proofs hold for every budget.

The cfgs say `CHECK_DEADLOCK FALSE` in the parts where the environment is bounded: when
prompts, restarts and crashes are used up, an idle server waits for the next one.
That nobody waits for ever inside the system is what the liveness properties say.

### Fairness

- `TurnGate`: tokio polls every task that can go on, so each step of `acquire`,
  `release`, `Bind`, `Fire` and the waits is weakly fair, and a turn that runs ends. For
  `QueuedResolves` the last one is the assumption behind the gate's own queueing; no
  cancel and no drain has to happen.
- `SpawnAdmission`: the supervisor, registration tasks, sweeps, recoveries and startup
  are weakly fair. Requests, root turns, cancels, takeovers, crashes and faults are not.
- `Handoff`: the steps of a turn between two awaits, deadlines, the controller and the
  driver are weakly fair. A model round and a tool call are not: they may last for ever,
  and the liveness properties hold all the same because of deadlines and cancels. A
  process that is down need not come back.
- `EphemeralSessions`: the steps of a reap, the handlers, the ends of turns and the sweep are
  weakly fair. What clients do, faults and restarts are not. `UnusedIsDropped` excepts the three
  cases of `lapse` (section 2), the race without a failure included.
- `ResidentTeam`: one weak fairness condition on the union of the steps that nothing can hold
  off (`Progress`). It only says that the system does not stop while one of them can be taken,
  which is weaker than fairness of each task, and it suffices. A turn ends, as in `TurnGate`; a
  handoff that was given up lifts its hold.
- `PermissionPlane`: the steps of a call, of the bridge and of a request that is under way are
  weakly fair. No client has to answer, so `AskReaches` asks only that the user can be
  asked. Nothing is fair about switches, faults and the process.

## 4. Proofs

`tlapm M.tla` checks a module. All theorems hold for any sets of sessions, tasks,
actors and operations and for any values of the bounds; the assumptions on constants
are the named `ASSUME`s of the modules (sets are disjoint, null values are not members,
counts are natural numbers), which TLC evaluates in the runs.

**TurnGateProofs.** `TypeCorrect`. `OneTurn` (`SingleActiveTurn`): the property says
that a lease, wherever it is held, carries the id of the gate's entry, and in this form
it is inductive with the types and `WantOK` (a task that claims has a session to claim).
The id match in `release` is what carries it. `NoWakeupLost` (`NoLostNotify`): a step either
changes nothing a sleeper waits for, or leaves someone who owes a `notify_waiters`, or empties
the set of sleepers; one lemma each. `DrainFindsAll` (`DrainReachesAll`): nothing enters a
closed gate, and a cause is dropped only together with its turn; `ImplementsGate` contains
this, so no run checks it on its own. `GateIsAtomic` (`ImplementsGate`): the gate refines
`AtomicGate`, in which an operation is one step and there are no ids, tokens or wake-ups. The
mapping reads who holds a session from the leases of the tasks, the code decides by the table of
entries; `SingleActiveTurn` is what makes the two agree in every step. `Lift` may happen under
a drain in `AtomicGate` because `lift_quiesce` looks and clears in two critical sections.

**SpawnAdmissionProofs.** `TypeCorrect`, which includes that a budget stays within
`0..per_run_budget`. `JournalEffect` says what any step may do to one row, and from it
follow `JournalMonotone` (`JournalForward`) and `FencedProgress` (`StaleNeverAdvances`).
`AtMostOnce` (`SpawnedOnce`) strengthens to: an operation that has been spawned has a
row beyond `accepted`. `NoDebitLeaked` (`DebitRecoverable`) is inductive with the types.
`RowsNotStranded` (`NoStrandedRow`) needs `ClaimInv`: no row names an epoch above its
actor's claim, and a pending recovery belongs to an active claim of this process and to
the epoch just before the current one. Without it, a recovery could miss rows it should
abort, or be left pending on a released claim. `BudgetNotLost` (`NoUnitLost`) and
`BudgetNotGained` (`NoUnitGained`) are about a sum: what is left, what the operations of a
root hold and what a workflow holds, against `per_run_budget`. `BudgetStep` lists what a step
may do to the budget (one critical section of its mutex, a workflow's reservation or refund, or
the loss of the process), in terms of the governor's operators, and each of them keeps the
account of every root. "Not lost" is inductive with the types; "not gained" needs `GainInv`: a
root without background workflows holds no units for one.

**GovernorProofs.** The sums themselves: `MapThenSumSet` over a finite set of operations is a
natural number, does not depend on the order in which the set is taken apart, and grows and
shrinks by the element that enters or leaves (`SumPut`, `SumTake`). The library's induction
over finite sets has an operator parameter, so order-independence is shown on a counterexample
of least size (`Smallest`, `SumsAgree`). On top of it one lemma for each operator of the
governor says what it does to an account.

**HandoffProofs.** The "writers" lemmas list which actions write the log, the rows and
the turns, and "effect" lemmas say what they may do to one entry; the invariants then
look at effects, not at fifty actions. `TypeCorrect`. `NoSecondResume` (`OneLiveResume`).
`ResumedOnce` (`DrivenOnce`) strengthens to `DriveInv`: a driver between ack and start
works on a row that is taken and not driven, and nobody else can drive it.
`LogAndRowsAgree` (`CloseHasResume`) strengthens to `CloseInv`: a turn inside its
message has one that no checkpoint closed, and the end it will record is never a handoff;
otherwise its late close could overwrite one, or add one without a row.
`NoCallErrored` (`CallsSurviveHandoff`). `ServesOpen` (`GateReopened`) strengthens to
`GateInv`, which follows the gate through the stages of the controller.

Three theorems need to know which process runs which turns. `ProcInv`: a process that is
down or repairs the log has none, the session in the driver's hands is under its lease, and
before the doors open nobody is queued and no turn hands off. `RootInv`: requests, root turns and
resume rows belong to top-level sessions. `CtlEffect` and `MoveEffect` say what a step may do to
the controller and to one turn. Then:
- `StaleIsStale` (`StaleMovedOn`): `StaleInv` keeps the answer of the read true until the ack,
  for a session that the read found neither archived nor with a running or interrupted run.
  The lease is dropped in between, but the gate is open there, so a turn that slips in does not
  hand off, and nothing else makes a session end at a handoff again (`EndStep`).
- `NoOrphanMessage` (`OpenHasTurn`, while no store call has failed): only a turn that starts opens
  a message (`OpenShrinks`), a turn leaves its message only when it closed it or with its
  process (`LeaveEffect`, `LeaveCloses`), and while the log is repaired the sessions with an open
  message are still listed (`OpenInv`). The condition is needed: a failed close is dropped by
  the code, and its message waits for the next startup.
- `StartupDrains` (`StartupDelivers`, in behaviours without store faults and wakes of main actors):
  `DeliverInv` says that until the doors open every live resume is on the list of the pass or in
  its hands, and that nobody else has a turn of such a session, so none is skipped.
  A main actor that wakes first does hold the turn, and the pass then skips its session: that
  is why the hypothesis excludes it.

**ProjectionCacheProofs.** `CacheImplementsLog` (`CacheTransparent`): every step of the cache
is a step of `EventLog` or a stutter. The invariant behind it is `IndInv`: rows are sorted by
sequence number, and every base that can still be folded onto a log, in the cache, in a
snapshot or in the hands of a read, is *sound*: if the log has its last row, it is the log up
to that row, and it is no newer than the numbers given out. That is exactly what the anchor
check of `fold` relies on, and it is what a rolled-back transaction would break if its fold
stayed in the cache. `SnapshotsAnchored` (`SnapshotAnchored`) and `TypeCorrect` need no more.

**EphemeralProofs.** `ClearedKept` (`ClearedIsKept`) and `PromptsLand` (`PromptLands`) rest on
`LogInv` (a cleared session has no mark), `CallInv` (the request that will mark a session is its
creator, and nothing was there to clear), `CheckInv` (what the reaper read again under the slot
still holds while the log ends where it ended, which the delete's condition asks for),
`SlotInv` (a slot is held by the prompt or the reap that works under it) and `AdmitInv`
(a prompt that found its session under the slot still finds it).

**ResidentTeamProofs.** `TypeCorrect`, one lemma for each action, which also says which actions
leave presence, busy flag, cursor and stop of the slots alone. `StopHolds` (`StoppedIsQuiet`) is
inductive with the types: a stopped slot gets no new lease for a wake, the stop leaves it only
after aiming at its turn, and `Bind` makes no token live again. `NoMailSkipped` (`NothingSkipped`) strengthens to `ReadInv`: the claim
of a running wake covers only mail its turn was given, and a handle that is not registered has
an empty inbox. `BusyCounted` (`BusyExact`) strengthens to `BusyInv`: the slot of a running wake
stays busy when the team is killed, only a present slot is busy, a task has no slot before it
starts, and the lease of a wake is held in its planning and its turn only; the count itself
follows from the cardinality of finite sets. The only assumption on the team is that it is finite.

**PermissionProofs.** `TypeCorrect`, `YoloReleasedAlways` (`YoloReleased`), `PendingDurable`
(`PendingIsDurable`), `SavedHeard` (`SavedWasHeard`) and `AnsweredOnce`. The invariant follows
the sender of an ask: `PlaceInv` says that it is in one kind of place only (channel, bridge, map,
or the related sets of requests), `EarlyInv` that a call that has not asked is in none,
`GoneInv` that the ask of a saved rule, of an answer under way and of a reply that a start
works on is in none either, so that nobody can answer it again, and `DownInv` that a process that
is down has nothing in memory. `HeardInv` adds that a request that will save a rule sent the call
its "always", and `YoloInv` that the ask the bridge is about to keep is of no swept tree. Most
steps only take asks out of places (`Receding`, one lemma for all of them); the few that move
an ask to its next place are looked at one by one. Without `GoneInv` a second answer could reach a
call after a rule was saved for the first.

Only model-checked: liveness, which is outside the prover's reach, as is `ENABLED`. Every
invariant, action property and refinement that a passing run checks is a theorem.

## 5. Properties worth a second look

- `DrivenOnce` is at-most-once. A process that dies between ack and start loses the
  continuation; the code chooses that (`restart.rs`), and `StartupDelivers` says
  "no row is live", not "every row was driven".
- `NoStrandedRow` excepts actors whose recovery failed after a takeover (`gaveUp`):
  `resident.rs:2027` finalizes the new epoch only.
- `NoUnitGained` excepts roots with background workflows: a workflow that outlives the
  root's turn refunds into a budget that was seeded anew (section 6).
- `ClearedIsKept` is about the mark, not about the use, which the code does not keep in every
  case (section 6). What the code guarantees is that a use that clears a mark wins over every later reap.
- `MailHeard` excepts what the code gives up on purpose (a killed team, a user's stop, a failed
  lead) and two cases it does not: the lead after a lag, and a member that was refused its lease
  by a hold that is then lifted (`Stranded`). Both are in section 6.
- `TeamSynthesizes` asks for work under way in the team: work that is only counted
  and never run is not summed up. It excepts an archive of a stopped member and a lifted hold,
  after which the code does not look at quiescence again.
- `StaleMovedOn` excepts what the code excepts (`is_handoff_resume_candidate`): a session that is
  archived, or whose Workflow run is running or interrupted, when the driver reads it. Its row is
  consumed although its transcript may still end at the handoff. For every other session the
  window between the drop of the lease and the ack is guarded twice, by the open gate and by
  the checkpoint's refusal while a row is live; one guard alone would do.
- `StoppedIsQuiet` excepts a turn whose token was bound between the clone and the firing of the
  cancel (`token` is "missed"): the code loses that cancel (section 6). What it does say is
  that a stop aims a cancel at every turn that raced it, before or after its binding, and that
  one fired before the binding survives it.
- `CloseHasResume` takes a transaction for ended when its call is: a commit that sqlx completes
  after the future of the checkpoint was dropped is not modelled.
- `YoloReleased` starts with a completed sweep (`swept`): see the dropped switch in section 6.
- `UnusedIsDropped` excepts the cases of `lapse` (section 2), one of which is no failure.

## 6. Disagreements

Each has a run that TLC must find violated, and an entry under `findings`.

| Run | The repository says | The code does |
| --- | --- | --- |
| `handoff_prompt` | the successor continues the session without a new prompt (`turn.rs:1352`) | a prompt appended in the quiesce window is refused a turn and makes the resume stale |
| `team_report` | a message that commits before the archive aborts it (`docs/architecture/subagent-orchestration.md:181`) | the gate is checked once, before the handoff is written; mail that arrives later is counted as consumed |

Seen while modelling, and not kept as runs. Turns and restarts:

- `orchestrator.rs:279` says a refund does not disturb debits; a workflow that outlives the
  root's turn refunds into a budget that was seeded anew.
- `restart.rs:85` against line 193: a turn that checkpoints after the re-drive pass of an
  aborted restart has listed the rows is left idle with a live resume.
- `serve.rs:1204` says that every turn has closed before the successor starts; a last straggler that
  ends between `wait_idle` and `active_sessions` (`restart.rs:121`) makes the deadline path reopen
  the gate and the caller start the successor.
- `turn_end.rs:4` says exactly one `MessageFinished`; a drain deadline between the read at
  line 304 and the append gives two.
- `turn_gate.rs:320` says a cancel that fired the lease's token is carried over by
  `bind_cancel`; a cancel that cloned the token at line 192 and fires it after the
  binding fires a token nobody holds any more. The turn then ends by itself, with the
  cause recorded. `ResidentTeam` has this step (`Bind` of an aimed token), so a wake that races
  the user's stop can run on; `StoppedIsQuiet` excepts exactly that.
- `docs/configuration.md:1176` calls `per_run_budget` the maximum total members spawned
  under one run; the debit is returned when the members are registered
  (`crates/hya-app/src/runtime.rs:2160`), so it bounds registrations under way.
- `engine/admission.rs:249`: a row that is completed after the sweep listed it ends the
  sweep with an error, before the root's budget is released.
- `resident.rs:2027` against `resident_claim.rs:121`: see `gaveUp` above.
- `restart.rs:150` against `crates/hya-store/src/handoff.rs:283`: a Workflow run may be
  admitted after the second look at the runs, and the successor interrupts it.
- `restart.rs:200` against lines 85 and 201: a session that checkpointed and has a
  running Workflow is no candidate, so the re-drive pass of a handoff rejected because of
  that run consumes its row as stale, although its transcript did not move on.
- `restart.rs:268` against `docs/protocol/README.md:296`: archiving is said to be only a flag, under
  which a running turn keeps running and finishes. The turn of an archived root checkpoints in
  a handoff like any other, but its row is consumed as stale and the turn is not continued.

Ephemeral sessions:

- `ephemeral.rs:299`: a client that opens a stream between the check of the watchers and the
  delete watches a session that is gone; `docs/protocol/README.md:339` says that a session
  another client shows is not deleted under it.
- `ephemeral.rs:299` and `crates/hya-store/src/lib.rs:503`: the use of a child does not clear the
  root's mark, and the drop takes the whole tree; `docs/protocol/README.md:351` says that a
  session that is used is never deleted by the server.
- A create handler that is dropped before it marks the session leaves an unused session that
  nobody drops.
- `set_session_ephemeral(true)` reads and appends later, so it can mark a session that has
  just been used.
- A rename, a title or a fork that races the delete starts a new log for the id.

Teams (`resident.rs` unless named):

- `recover` sets `pending` without counting work, so an acknowledgement with an earlier mark
  clears it; the comment at line 1655 says that no wake is lost. `MailHeard` excepts the lead
  after a lag.
- A task that is refused its lease because a handoff holds the gate parks until "that turn's
  lease is released" (line 594); `lift_quiesce` (`turn_gate.rs:258`) releases no lease and
  notifies only queued claims. `Stranded` excepts it.
- The archive of a stopped member does not look at quiescence again. Neither does a prompt that
  a late cancel of the user takes back after it lifted the stop, nor a failed activation of a sidecar.
- A wake of the lead commits no `inbox_through` (`steer.rs:127` relies on it), so a lead's turn
  can be given the mail of its wake again in a tool result.
- `MailConsumed` is committed before the tool result that carries the mail (`turn.rs:2341`); a
  cancel in between loses it. In the model it counts as shown.
- An HTTP archive that is dropped midway leaves `archiving` set; a report put back after the
  gate refused it waits for a wake that may never come; a slot registered after a kill is never
  finalized; a revival resets the cursor and races the removal of the old slot. These lie in
  parts the model leaves out or excepts.

Permissions (`pending/permission.rs` unless named):

- `docs/protocol/api-reference.md:2248` says that `applied` is false when the request was already
  resolved elsewhere. Between the removal of an ask (line 301) and the update of its row (line
  312) a second client's answer is taken for one to an earlier process: it is queued for the
  next start and reported as applied. The rows of related asks and of asks a switch to
  yolo released are never resolved, so for those the window does not close.
- `docs/architecture/event-model.md:412` says that no ask of a `yolo` tree stays pending. A PATCH that is
  dropped after the mode was appended and before its sweep (`v1/session.rs:449`) leaves the asks
  of the tree pending. `Fail` models the drop; `YoloReleased` excepts it.
- `docs/protocol/README.md:1154` says that a deleted rule stops applying immediately. The grant is
  installed by the task of the call when it wakes (`crates/hya-tool/src/permission.rs:1023`), so a
  rule deleted before that is revoked first and granted after, with no row left to delete.
- `serve.rs:1893` says of a reply it could not deliver that it was already fenced and will not be
  replayed. When no open call is found (line 1797) it has not been claimed yet, and every later
  start meets it again; a successor of a handoff refuses to start on it.
- A switch back to manual between the append of yolo and the sweep: `allow_tree_once` does not
  read the mode again and allows asks of a tree in manual mode.
- A request to delete a rule that is dropped between the deletion of the row and the revocation
  leaves the grant until the process ends.

## 7. Plan, and what is not modelled

1. *Next modules.* `RestartJournal`: the stages between restart client, old and new
   generation, with the database lock, health wait, rollback and park, composed with
   `Handoff` at `Release`.
2. *Extensions.* Revival, sidecars and the teardown of a root in `ResidentTeam`, on top of
   `ActorClaims`; channels with their quotas and receipts; questions to
   the user beside permission asks; the updater's journal and lease.
3. *Proofs.* What the liveness properties rest on, as far as it is safety: that a cancelled
   turn, a queued claim and a pending row always have somebody who will move them on
   (as `NoWakeupLost` says of the gate).

Not modelled, and not planned: generated API types (`crates/hya-api/src/gen`, a fifth of the
repository's lines), clients and SDKs, wire formats of providers, MCP and relay, packaging,
configuration and catalogs (`runtime_registry.rs`, `config.rs`, `hya-bundle`), the editing of
text (compaction, revert) and the effects of tools. They hold no state that two tasks race
for, or their state lies outside the process. Their failures appear in the models as failed
rounds, lost sidecars and failing store calls.
