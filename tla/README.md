# GuardianMesh in TLA+

GuardianMesh pairs a parent's device with a child's device, collects telemetry
from it, evaluates policies over it, runs a queue of remote actions, and lets
the parent look at the child's screen with the child's consent. This directory
models the parts that carry the program's own logic in TLA+, checks them with
TLC, and proves the properties that matter most with TLAPS. `PROJECT.json`
lists components, runs, the source lines behind every definition, the hazards
of the code and the theorems.

## 1. Inventory

Source paths are relative to `src/guardianmesh/`. All parts of one device share
a SQLite database; a statement outside `db.transaction()` is a commit of its
own, and most operations make several. A `guardian ...` command is a process
that lives as long as the command. The transport server, the Orion executor and
bus, and the web console are threads of longer-lived processes.

| Part | State | Operations | Interacts with | What is hard | What makes it correct |
| --- | --- | --- | --- | --- | --- |
| screen sessions (`screen/`) | wrapper objects in memory, rows of `screen_sessions` and `screen_authorizations`, indicator, frame queue | request, approve, deny, start, ingest, drain, stop, revoke, lifecycle sweeps | trust records; command line, web console, Orion's stop handler and reconciler, Atlas' recovery | every process works on a copy it loaded; two commits per operation; a failing write is swallowed; crashes | nothing is shown without the child's approval; the indicator tells the truth; an ended session keeps no frames |
| screen frames (`screen/frames.py`) | sequence tracker, bounded queue | ingest, pop, drain, clear | screen session | loss, repetition, reordering; full queue | each frame at most once, in order, all accounted for |
| Aegis capture (`aegis/`) | consent records, capture sessions, pipelines, one provider, one indicator | request, grant, deny, revoke, start, tick, drain, stop, expire | screen sessions | one provider and indicator for all captures; several dialogs for one screen session; two threads on a pipeline | no capture starts without a consent given since the last stop; a stopped pipeline keeps no frames |
| Orion queue and executor (`orion/queue.py`, `executor.py`) | rows of `orion_actions`, worker thread, stop event, failure count | enqueue, sweep, execute, retry, cancel, recover | handlers call the other parts; Atlas expires rows at start-up | unconditional status writes from several processes; crash after the effect | an action takes effect once at most, is retried a bounded number of times, and is settled in the end |
| Orion bus (`orion/bus.py`) | handlers, queue, attempts per event, numbers per device, worker | publish, deliver, retry, start, stop | the coordinator starts and stops it with the executor | a snapshot is delivered outside the lock; retries come back to a queue that filled meanwhile; a join that times out | no copy lost uncounted or delivered twice, bounded redelivery, order per device |
| Orion coordination (the rest of `orion/`) | none of its own | start, stop, reconcile, handle | bus and executor, screen sessions | writes to rows other processes hold copies of | see screen sessions |
| pairing (`pairing/`) | rows of `pairing_sessions`, `pairing_nonces`, `trusted_devices` | create, resend, verify, challenge, submit, cancel, revoke | mail provider; everything else asks for trust | whole-row writes from copies held across a mail delivery; check and use of a challenge in two statements | trust only after the passcode and an approval signed with the key that is trusted, however commands overlap; one after the other: denial wins, bounded guesses, closed stays closed |
| transport, "Nexus" (`transport/`) | per connection a thread and a session (keys, numbers, message ids); sockets and inboxes; rows of `transport_sessions`, `transport_peers`, `transport_messages` | dial, handshake, send, receive, route, heartbeat, goodbye, stop, reconnect, disconnect | trust; telemetry and alerts behind the router | a thread per connection, a peer row shared by old and new connections, replay, revocation in flight, stop in the handshake, a socket replaced before its session | no replay; no nonce twice; at most one message after revocation; no connection on record that is not there; stop drains |
| telemetry, "Pulse" (`telemetry/`) | rows of `device_sequences`, `device_health` and `telemetry_events` | take a number, emit, refresh, process, pause, resume, retention | transport, trust, policy | several threads process one device; the number is committed before the data; a pause or a revocation in flight | no snapshot stored twice; at most one per worker after a pause or a revocation; only a resume ends a pause |
| policy and alerts, "Sentinel" (`policy/`) | rows of `policies`, `policy_rules` and `alerts` | evaluate, create or update an alert, acknowledge, resolve, dismiss, retention | telemetry, router, console | look and write are two accesses without a unique index | open alerts of one cause do not pile up |
| Atlas (`atlas/`) | backup files and their rows | back up, verify, restore, diagnose, recover, prune | all tables | a backup reads table by table; file and row are written apart; restore beside live commands | every row has its file; a restore leaves the tables consistent; recovery never revives what ended |
| storage (`storage/`) | SQLite connection, migrations, audit rows | execute, transaction, migrate, record | everything | `executescript` commits the transaction around it; two processes migrate at once | after the migrations every table is there |
| identity (`identity/`, `security/`) | rows of `identities`, key files | create, activate | Atlas restores the rows | rows and files apart; several commands at once | one active identity at most, no row without keys |
| settings (`core/config.py`, `console/web/settings.py`) | `config.json`, `console_ui_settings.json` | load, update, save | `guardian init`, request threads of the web console | a temporary file with a fixed name and no lock | the file reads as last saved |
| command line, console (`cli/`, `console/`) | browser sessions | call the above | everything | which process does what | the environment of the models |
| device collectors, Android companion | none, a Kotlin library | read counters | | I/O; nothing in the Python program calls the library | |

## 2. Modules

Modules with state that meets nowhere are composed in one MC module, whose
initial state chooses which of them runs: `MCFrames` (AegisCapture, FrameBuffer),
`MCOrion` (OrionQueue, OrionBus), `MCNexus` (Nexus, NexusLink) and `MCAtlas`
(Atlas, Settings).

### ScreenLifecycle, ScreenView, ScreenConsent, MCScreenView

`ScreenLifecycle` has the states and the transition relation of
`screen/models.py`. `ScreenView` is the controller with everything under it. A
process is a member of `Procs`; `mem[p][s]` is its wrapper of session `s` (state,
indicator, waiting frames), `sessRow` and `authRow` are the two tables, `auth`
the authorizations a process has loaded, `pc` the second database access it still
has to make. An action is a controller method up to its first commit; `SaveAuth`
makes the second, `Exit` is the end of a process wherever it stands. `Put` is
`ScreenSession._persist`, whose write may fail and be swallowed (`DbFaults`).
Sweeps that the program offers and nothing in it calls (expiry of sessions and
authorizations) take part when `Sweeps` is set. The other writers of these rows
are here too: `OrionStop` is the handler of STOP_SCREEN_SESSION, `Reconcile` the
reconciler, `RecoverSelect` and `RecoverWrite` Atlas' recovery, `ScreenCommand`
and `WebConsole` what the command line and the presenter do with the controller.

`ScreenConsent` is the promise: asked, granted, live, over, frames only while
live. `ScreenView` implements it under the mapping `Phase` of the database rows.

### AegisCapture

`records` is the consent gate, `sessions` the controller's sessions, `pipes` every
pipeline object ever built, of which `registered` are those the controller can
still stop. The controller's lock makes its operations one step each; `Tick`,
`DrainBuffer` and `DrainCount` are the two threads beside it. `consented` is the
history: the screen sessions a consent was given for since the last stop, denial,
revocation or expiry.

### FrameBuffer

`FrameSequenceTracker` and `BoundedFrameQueue`. A frame is its number; the link
may do anything to it. `delivered` and `accepted` are histories.

### OrionQueue, OrionPromise, MCOrionQueue

The rows of `orion_actions`, the submitters (with the gap between the checks and
the INSERT), the executor's thread (`worker[w].at` says which access comes next),
start, stop and its join, crashes, failing writes, the operator's cancel and
retry, and Atlas' recovery. `Kind` says what an action asks for, `Malformed` which
submissions name no target, `Subsystems` which controllers the handlers were
given: a handler without its controller fails. `OrionPromise` is what a submitter
is promised.

### OrionBus

`busThread[t]` is a thread that delivers: a worker, the thread in `stop()`
(`control`) or a publisher in the deterministic mode. `Take` is the snapshot under
the lock; `Deliver`, `DeliveryReturns`, `DeliveryFails`, `WriteAttempts` and
`Requeue` are what follows without it. `Sorted` is what the sort makes of a
snapshot: a permutation of it in which no event comes before an earlier one. `Join` may give up, and `StartBus` then
tells the old worker to go on.

### Pairing, MCPairing

A command is a copy of the row and the place where it stands. `Begin` is
`get_session_or_raise`; the other actions are the write that ends an operation,
or one of the four writes of `submit_child_authorization`. The actions `PairStart`
to `PairRevoke` are the branches of `cmd_pair`. Expired passcodes, expired
challenges and the resend cooldown are left open at each use. There is one parent.

`answers` are the decisions that were signed, and a command may submit any of them
any number of times. A `Decision` says which session and child it speaks of, which
challenge it answers, whose public key it carries and who signed it, and none of
these need fit the challenge. What is compared is what the code compares: `Found`
the challenge with the session of the caller, `Verifies` the signer with the key in
the decision. The child and the key that come to be trusted are the decision's.

### Nexus, NexusLink

`Nexus`: `ses[s].at` is the place of a connection's thread, and the rest of
`ses[s]` its `TransportSession`. Every registry write is a step. `sent[s]` are the
frames the client has put on the wire, with their message ids; `ReadFrame` may
take any of them, any number of times. The router's handlers are reduced to what
the thread can see of them: they return, raise, or have a GOODBYE to handle.

`NexusLink` looks at the same program from the client, with sockets that deliver
in order or break, pieces of frames, handshakes and keys, and at the pair of
memory client and memory server that `guardian transport connect` uses. A client
is used by one thread, as it has no lock, and no two handshakes draw the same
randomness. A key is the pair of ephemeral keys and a direction.

### Alerts, Telemetry

`Alerts` has the policies and alerts of one child as sequences in the order of
`created_at`. A worker is a thread or command of the parent; `job[w].at` is its
next database access. An operator reads an alert (`Press`) and writes its status
(`WriteStatus`). `Telemetry` extends it with the way of a snapshot from the child's
number to the evaluation: `TakeNumber` and `Emit` at the child, `Receive`,
`CheckPaused`, `Advance` and `Store` are the accesses of `process_envelope`, and
`ReadSummary` hands over to `EvaluateTrusted` of Alerts with what `Triggers` says of
the followed `Rule` and the snapshot. `Refresh` is `guardian telemetry refresh`,
`Tick` the scheduler's. What was emitted may arrive in any order and any
number of times. One rule is followed; the others have deduplication keys of
their own, and everything that can happen between two steps can happen between
two rules.

### Atlas

The disk of one device: which tables exist, the rows of the tables that a
restore can bring into conflict with each other or with files, key files and
backup files. A command is a member of `Processes` and may die between any two
commits. `CreateTable` is one statement of a migration script.
`AtlasIntegrityVerifier` is translated into the predicates the first property is
made of.

### Settings

One settings file at a time. A file is a number and `target` and `draft` are the
names, so that a writer keeps the file it opened when the names move. A file's
text is whole, empty or torn.

The modules meet in what they share: trust (`Pairing.trust`, `ScreenView.trusted`,
`Nexus.trusted`, `Alerts.trusted`) may change at any time in the modules that only
read it, so each is checked under every behaviour of the part it depends on.

## 3. Runs

| Run | Instance | What it shows |
| --- | --- | --- |
| ScreenShared | 2 processes, 1 session, overlapping, failing writes, sweeps | whatever order copies are loaded and written in: the indicator of a copy is on exactly while it is ACTIVE, nothing gets past the child's decision unapproved, frames wait only in an ACTIVE copy |
| ScreenCommands | 2 processes, 2 sessions, one command at a time, crashes between commits | the database and the buffers refine `ScreenConsent`; one decision per session; the two rows never contradict each other |
| ScreenStaleCopy (violation) | 2 processes, 1 session | a stopped session becomes ACTIVE again through another process's copy |
| ScreenOrionStop (violation) | 1 process, 1 session | Orion's stop handler ends the copy and leaves the row ACTIVE |
| Frames | 2 captures, dialogs and pipelines, 2 screen sessions; 6 numbers, window 2, queue of 2, three strategies | a capture starts only on a fresh consent, nothing waits in a stopped pipeline; each frame once, in order, all accounted for |
| OrionExecutor | 3 actions of three kinds, one malformed, 2 submitters, 2 interruptions, no command or recovery, fairness | refines `OrionPromise`; overshoot of the size limit is bounded; everything settles |
| OrionCoordinator | 3 actions, 2 with one key, 2 submitters, operator and recovery; 2 events of a device, 2 handlers, 2 workers, fairness of the bus | executed at most once, bounded attempts, expired never runs; copies accounted for, bounded deliveries, order, the queue drains |
| PairingCommands | in sequence: 1 process, 2 sessions, 2 challenges, 2 decisions, 2 attempts, crashes; overlapping: 2 processes, 1 session, 1 challenge, 2 children, a decision for either with either key | trust is earned, in sequence and with overlap; in sequence denial is final, guesses are bounded, closed sessions stay closed |
| PairingChallenge (violation) | 1 process, 2 children, 1 challenge | trust comes to a child, or with a key, that was not challenged |
| Nexus | 2 connections of one child, 3 frames, window 1, 2 ids remembered, fairness; 2 handshakes, 2 frames encrypted per session | no frame or message accepted twice, one late message per revocation, no row CONNECTED without a thread, stop drains; no key and nonce together twice, frames accepted in their own session only |
| Sentinel | 2 workers, 1 operator, 1 policy by hand, remote alerts, 2 snapshots in any order and repeated | stored once, one late snapshot per worker, only a resume ends a pause, at most one open alert per worker and key, those reopened by a late acknowledgement aside |
| Atlas | 2 commands, 2 identities, 1 policy, 2 backups; 2 writers of a settings file | a diagnosis after the migrations finds nothing, rows have their files, one active identity, policies keep their rules; settings are kept |

**Bounds.** Two processes are enough for every race here, since an access
touches one copy and one row. Two sessions tell whether one disturbs the other.
Two challenges allow two different answers; two attempts allow a count that is
neither fresh nor exhausted. `MaxAnswers` counts decisions: two allow an approval and
a denial, and one can already be submitted by two commands at a time. `MCPairing`
has two instances, in sequence and overlapping, which share nothing: the initial
state chooses which of them runs. In FrameBuffer six numbers exceed window and queue
together, so a frame can fall out of either while others wait. In AegisCapture two
captures of one screen session share its consent, and a buffer of one is full
after one frame. In Nexus three frames with window 1 give a frame inside the
window, at its edge and behind it, and ids are forgotten after two;
`OneLongConversation` explores two connections together while both are short. In
NexusLink the second handshake is the reconnect, and two frames let one of the old
session follow it. `MaxInterruptions` counts crashes, stops and lost writes: with
two, a crash can hit the recovery from another. In OrionBus a queue of one is full
when a retry comes back; `Together` names which of two handlers, two workers and
the deterministic mode are explored together. In Alerts the bounds stop new work
at two alerts or one policy made by hand, and what is under way then still ends,
so that three alerts of one key and three policies occur. In Telemetry, two
snapshots and two workers give every order of two numbers, each with a repetition;
`AlertsPart` and `PulsePart` are the two parts of the product with Alerts that are
explored. In Atlas two commands give every race between two of migration,
creation, activation, backup and restore, with crashes of either; `OnePart` says
that identities and policies are explored apart, since only a restore touches
both. In Settings one key with two values tells a lost update from a kept one.
Symmetry is used only in runs without liveness properties, over what nothing
distinguishes. `Frames` looks at states through a VIEW that merges the states of
live capture sessions, which no guard or property tells apart, and
`PairingCommands` through one without the histories `denied` and `wrong` of the
overlapping commands, which no guard and not their invariant reads. Deadlock is not
checked in Frames (the numbers run out), OrionCoordinator (the actions and events
run out) and Atlas (a torn `config.json` stops `guardian init` for good, and
identities run out).

**Fairness.** `OrionQueue.FairSpec`: the host starts the executor again after a
crash or a stop, the operating system runs its thread, handlers return, the
join of `stop()` returns, and the clock passes deadlines. Interruptions are not
fair and are bounded. `OrionBus.BusFairness`: the operating system runs the bus's
threads and handlers return; nothing has to wake the worker, since its wait has a
timeout. `Nexus.Fairness`: the operating system runs the server's threads, and
`read_frame` has a timeout of 30 s, so it returns whatever the client does; nothing
is asked of the client or the link.

## 4. Proofs

Every theorem is about any number of processes, sessions, actions and so on. The
only assumptions are the named ones in the modules (model values differ from each
other, limits are positive naturals) and those a theorem states itself.

`ScreenView_proofs`, with overlapping commands, crashes and failing writes:

* `TypeCorrect`: `Spec => []TypeOK`.
* `CoreInvariant`: `CoreInv`, a conjunction about every copy and row. The three
  properties are not inductive alone: an indicator stays right because a copy
  that was torn down was emptied and switched off in the same step, and a row is
  past consent only because the copy that wrote it was, and the other way
  round when it is loaded. So copies, rows and the loaded authorizations are
  carried together. `PutKeeps`, `TearDownKeeps` and `NoPutKeeps` are the cases
  the actions fall into.
* `IndicatorTheorem`, `ConsentTheorem`, `FramesTheorem` follow from it.
* For commands issued one after the other whose writes do not fail, and which may
  die between their commits (`Sequential`, the setting of ScreenCommands;
  ScreenStaleCopy shows what a process with an older copy does to a session):
  `SequentialInv` adds that at most one process is amid a command, that a copy
  says what its row says, unless Orion's stop ended the copy alone (`Current`), and what the two rows and the
  history of decisions say of each other (`SessionRows`). `OneDecisionTheorem` and
  `DecisionRowsTheorem` follow.
* `ScreenConsentKept` is the refinement of `ScreenConsent` under `Phase`: each
  command moves the phase of one session by a step of the promise or not at all, and
  `Exit`, the second write and the sweeps take every phase to itself or to its end.

`Pairing_proofs`, for overlapping commands:

* `TypeCorrect`, with `Linked` (a command submits a decision that was signed, and
  once past the lookup its challenge exists and is one of its session) as the
  strengthening.
* `TrustTheorem`: `Spec => []TrustIsEarned`. It claims what the code secures: the
  passcode of the session was entered, and the owner of the recorded key has signed,
  as that child, an approval of a challenge of that session. It does not claim that
  this child or this key was challenged: `PairingChallenge` shows the opposite, and
  `AdapterTheorem` that it does follow if every decision is made as the only adapter
  that answers makes it (`AnsweredByAdapter`). The argument follows the passcode: a row that awaits the child, a copy that does, and
  a command that has found its challenge each imply that the passcode was verified,
  and a command that establishes trust holds a verified approval (`RowsEarned`,
  `CopiesEarned`, `AnswersEarned`). Since rows are overwritten from stale copies,
  rows and copies must be carried together. `SteadyStep` says that challenges keep
  their session and child, and that decisions and the history only grow; every
  lemma builds on it.

For commands issued one after the other (`OneAtATime`; for two that
overlap see section 5), any of which may die half way:

* `PairingInv` adds that the command under way holds the row as it stands
  (`CopyIsCurrent`), and per session that no attempt was forgotten, that a denied
  session is closed and that trust comes only from one that was paired and not
  denied (`SessionInv`). Each step moves one session forward (`Moved`): attempts
  grow, and what is closed stays so. `DenialTheorem`, `GuessesTheorem` and
  `ClosedTheorem` follow.

`Telemetry_proofs`, with everything Alerts does in between:

* `TelemetryInvariant`: `IInv`, in three parts. `Shape` has the types that matter.
  `Ownership` is why a snapshot is stored once: a number above the last accepted
  one is not stored, and a worker about to store has a number that is accepted,
  not stored, and its own. `Lateness` says that a worker past the look at
  `is_paused` or trust has stored nothing since the pause or revocation.
* `StoredOnceTheorem`, `OneLateTheorem` follow; `PauseTheorem` is the action
  property that only a resume ends a pause. The lemma `AlertsRelease` covers every
  step of Alerts at once: it leaves each worker's job alone or without a snapshot.

* `DuplicatesTheorem`: `DuplicatesInv` counts, for one policy, the alerts that stand
  open together with the workers about to insert another; the sum never exceeds the
  number of workers. Whoever is about to insert has looked and found none open, so
  either nothing stands, and the workers alone are counted, or one worker turns into
  one alert (`Moves`). Alerts reopened by a late acknowledgement are left aside, as
  in the property.

`Orion_proofs`, the executor. With one thread at a time, `OneThread` (with two, at
most once fails, see section 5):

* `IInv` = `TypeOK`, `Counts` (a handler has been called once at most per attempt
  counted, and a PENDING action has taken no effect), `OneOfAKey` (of the actions
  with one idempotency key one has a row), `ListInv` (what the thread has listed it
  has not run yet, what it runs it has not recorded) and `Commands` (what a cancel
  or a recovery is about to write).
* `AtMostOnce` and `BoundedRuns` follow.
* `PromiseKept` is the refinement of `OrionPromise` by `Unattended`, the executor
  left to itself: the promise does not know the operator's commands.
* `ActionsComeToAnEnd`, of `Unattended` as well: every write takes an action on
  (`Far`) or, after a failure, back to PENDING with one more retry counted. A crash, a
  lost write and the sweep take back nothing that a row says.

With any number of threads beside each other:

* `OrionTypeCorrect` and `ExpiredStaysUnrun`, by `SharedInv`: the types, that what a
  thread has listed or runs has a row (`Listed`), and that a row says EXPIRED only of
  an action past its deadline, which the executor looks at before it calls a handler.
* `BoundedQueue` has an invariant of its own, `Headroom`: rows and submitters past
  the size check together stay within the limit plus the submitters.

`Orion_proofs`, the bus, with any number of workers that overlap, publishers in
either mode, retries, evictions, refusals and stops:

* `BusTypes`, with `WellPlaced`: a thread has a snapshot exactly while it delivers.
* `CopiesTheorem`. `Balance` is the argument: the copies of an event that the threads
  have in hand are the cardinality of a set of pairs of a thread and a place in its
  snapshot, so a step of one thread changes it by that thread's share, and each
  action balances what it makes, delivers, loses and moves.
* `OrderTheorem`, by `OrderInv`: a snapshot is sorted (`SnapshotsSorted`); what waits
  for its first delivery, in the queue or a snapshot, comes after all of its device
  that was delivered (`DeliveredFirst`); what a thread took for it comes before what
  is in the queue (`TakenFirst`), since the queue was emptied with it and receives
  only new numbers and events that were delivered before. In deterministic mode the
  queue holds copies only of what was delivered or is with the publisher
  (`PublisherFirst`). The last three need that one thread delivers at a time, which
  `together` records.
* `DeliveriesTheorem`, by `MadeInv` and the books: an event is delivered no more often
  than copies of it were made, and, with one thread delivering, the attempts written
  back pay for every copy after the first. The attempts a second thread read before
  would be written back twice.
* `SnapshotCanBeSorted`: `Sorted` is never empty, so `Take` never blocks. The induction
  on the length is a shortest counterexample (`WFMin`).
* `SnapshotsComeToAnEnd`: whatever the others do, a thread's snapshot is left alone or
  gets shorter, in events, handlers or places of one call, and each step of its own
  thread makes it shorter. `RunningBusIsServed`: while no `start` or `stop` holds the
  lock, the bus's worker is neither stopping nor off, by `WorkerInv`.

`AegisCapture_proofs`: `AegisTypeCorrect`, `ConsentStaysFresh`, `StopDropsFrames`.
Freshness is not inductive alone: to answer a dialog adds the screen session it was
opened for, so `AegisInv` adds that the record which decides for a screen session
is one that was asked for it (`DecidesForItself`).

`AegisCapture_proofs` also has FrameBuffer, for every window, queue size and strategy:
`FramesInOrder`, `FramesCounted`, `NewestWait`. `Arrival`, in which the property is
stated, is a CHOOSE; `BufferInv` speaks of places in the sequence of accepted frames
instead (`Placed`, `Follows`), which needs that no number is accepted twice
(`Distinct`), which needs that the tracker remembers every accepted number until it
is cleared (`SeenIsKept`), and that a cleared queue stays empty. The queue is an end
of the accepted sequence, unless the strategy refuses the newest; `NewestWait` says
so, and is proved without a run of its own.

`Nexus_proofs`:

* `NoReplayAccepted`: `ReplayInv` is about what a session has accepted together with
  the frame in its thread's hand (`Taking`). No frame of it replays an earlier one
  (`Once`), and while the thread may still accept, its guard knows every number that
  has not fallen out of the window and the ids of the last frames (`Remembers`).
* `RevokedIsRejected`: `LateInv`, a thread past the look at the trust record has
  recorded nothing since the revocation.
* `NothingStaysConnected`: `GhostInv`, a thread that is about to write the peer's row
  on its way out has ended its session's row.
* `StoppedThreadsEnd`: while the server stays stopped, a thread is left alone or comes
  nearer its end (`Ahead`), and each of its own steps brings it nearer.
* `NexusTypeCorrect`, with `Typed`, which also says that a frame in hand was sent.

`NexusLink_proofs`, for any number of handshakes, reconnects and broken sockets:
`NonceTheorem` and `FramesTheorem`. `KeysInv`: a session at the server is wiped or
holds the two keys of one ephemeral key and its own handshake, an ACK on its way tells
which, and the client's session is the counterpart of the server's of the same id.
`SealedInv`: what was encrypted with the keys in use has a number below the counter,
and keys still to be derived have encrypted nothing.

`Atlas_proofs`:

* Settings: `SettingsTypeCorrect` and `SettingsKept`. `Alone` says what a writer with
  the temporary open knows of it while nobody else has opened it; `OneAtATime` that
  writers who do not overlap load what was saved last.
* Atlas, without any assumption: `PoliciesTheorem`, `ActiveTheorem`, `RowsTheorem`,
  `DiagnosisTheorem`. `PoliciesInv` is about the database alone: a restore that would
  break a foreign key is rolled back, and one that brings policies without their rules
  is recorded. The other three are not inductive over the database, since rows
  travel: a process reads them, a backup file takes them over, a restore puts them
  back; so each invariant is about all three places. `ActiveInv` says of each that one
  identity at most is active. `RowsInv` says of each that a listed row has its file,
  and that an identity or backup under creation is listed nowhere. `MigrationInv` says
  that a recorded version has its tables, that a command past its migrations found
  every version, and that a backup holds all versions or none, so that a restore never
  brings back a database half migrated.

Every invariant and action property of the runs is a theorem, or an instance of one
(`OverlappingTrustIsEarned`). Model-checked only are
the liveness properties (`EverythingSettles`, `StopDrains`, `QueueDrains`), which are
beyond TLAPS, as is ENABLED, and the findings, which are counterexamples. The
variants the liveness properties rest on are proved, as action properties
(`ActionsAdvance`, `SnapshotsShrink`, `ThreadsWindDown`); that the next step is
enabled and taken is TLC's part.

## 5. Where code and documentation differ

Shown by a run: see the findings (`StoppedStaysStopped`, `EndReachesTheRow`,
`TrustIsOfTheChallenged`).

Read off the models, without a run of their own:

**Screen sessions.**
* `docs/VISTA.md:168` says that revoking trust tears down an active view;
  `TrustManager.revoke_trust` does not call `revoke_session`, the only teardown
  for it, and the session stays ACTIVE. Orion's reconciler, which should, finds
  nothing to do in its trust rule, has no controllers by default
  (`orion/coordinator.py` 44-94), writes REVOKED where a session expired, and
  reports again what it reported before.
* `docs/VISTA.md:166` says the lifetime is enforced at every transition;
  `start_session` (`screen/controller.py:298`) starts any APPROVED session without
  a look at the clock.
* `docs/SCREEN_PRIVACY.md:151`: the indicator lives in the process that started
  the view and dies with it, while the row stays ACTIVE (`Exit` of ScreenView).
* `docs/CONSOLE.md:97`: the web console shows a STOP control for every active
  session, but its controller never loads a session from the database, so the
  control can stop none (`WebConsole`).
* `docs/SCREEN_PROTOCOL.md:137` calls frames strictly monotonic; the tracker
  (`screen/frames.py:73`) admits late ones within its window. Its set of seen
  numbers is never pruned, although its docstring (`frames.py:41`) bounds it.
  `BoundedFrameQueue.push` returns False for a frame it added after a drop.

**Aegis.**
* `docs/AEGIS.md:193`: the indicator is one for all captures; stopping any of them
  clears it, and a second capture cannot start while it shows, yet has its
  pipeline running by then, which the controller does not know and cannot stop.
* Denying or revoking a consent, and its expiry, stop no pipeline; a consent whose
  time has passed can still be granted while nobody has swept it.

**Orion.**
* `docs/ACTIONS.md:76`, at most once: holds with one thread. If the join of
  `stop()` gives up while a handler runs and `start()` follows, two threads work
  side by side and it fails (a second member of `Workers`).
* `cli/main.py:342` says that the retry command re-queues a FAILED action; it calls
  `mark_running` (`cli/commands.py:3537`), and the executor lists only PENDING rows,
  so the action is not executed again (`Retry`).
* `docs/ACTIONS.md:250`: a cancel is overwritten when the executor has listed the
  action already (`orion/executor.py:113`). `docs/ACTIONS.md:83`: the backoff
  time is written and never read. `docs/ACTIONS.md:90`: the failure cap turns off
  retries, not the executor.
* `docs/ACTIONS.md:228`: the handler of RECONNECT_TRANSPORT can never succeed.
  `OrionConsentValidator` is built and never called.
* Bus: `orion/bus.py:24` promises a delivery at most once; in deterministic mode
  the caller delivers an event and leaves it in the queue for the worker, and a
  failure of one handler sends the event to all again. `bus.py:28` promises that
  stop drains; what comes back as a retry during the drain stays. After a join
  that timed out two workers deliver, in no common order, and may count one retry
  for two.

**Pairing.**
* `pairing/models.py:70` says that terminal states have no way out;
  `pairing/manager.py:260` assigns EXPIRED to a CANCELLED or DENIED session whose
  lifetime has passed, and the UPDATE of `revoke_trust` (`trust.py:219`) makes any
  closed session REVOKED, its AND binding tighter than its OR.
* What ties a decision to the challenged child and its key is only the adapter that
  answers in `pair authorize` (`LocalTestAuthorizationAdapter`,
  `pairing/authorization.py` 199-230); a caller of `submit_child_authorization` with
  another adapter has no such tie (PairingChallenge). Neither the session nor the
  parent a decision names is compared with the command's.
* `DenialIsFinal`, `GuessesAreBounded` and `ClosedStaysClosed` are properties of
  commands issued one after the other. With `OneAtATime` FALSE TLC violates two of
  them: two verify commands write back one attempt count (`manager.py:308`; maximum 5
  attempts in `docs/PAIRING.md:117`), and the attempts lost have no bound, since a
  waiting resend writes back an old count; a delivery that returns after a cancel
  opens the session again (`manager.py:184`; no way out of a terminal state in
  `models.py:70`). Two submissions may both find a challenge unused
  (`authorization.py` 152 and 178; marked atomically in `docs/PAIRING.md:136`).
* PAIRED is written before the trust record; `cancel` accepts a PAIRED session and
  leaves the trust record; `docs/PAIRING.md:116`: the passcode is not cleared when
  the attempts are used up.

**Nexus.**
* The thread of an old connection writes DISCONNECTED over the peer's row although
  a new session lives, and over REVOKED; the next message puts it right. A new
  connect leaves the client's old session row CONNECTED, and stopping the memory
  server leaves the peer CONNECTED.
* `except TimeoutError` (`transport/server.py:396`) never sees
  `TransportTimeoutError`, so 30 s of silence end a session. A client's read that
  times out amid a frame goes on in the middle of it and drops what it finds.
* A killed server leaves CONNECTED rows, and so does every
  `guardian transport connect`, whose connection ends with the command; it needs
  the peer's private key on the same machine. `guardian transport disconnect` ends
  no session, and `reconnect` makes a new `ReconnectManager` per command, so neither
  the backoff nor the maximum of `docs/NEXUS.md:93` is ever applied.

**Telemetry and alerts.**
* A failure between the number's transaction and the data's loses that snapshot
  for good, and a worker with an older number may store after one with a newer, so
  `device_health` need not show the newest snapshot.
* `guardian telemetry refresh` stores the parent's own readings under the child's
  id, and needs the child's key locally. A HEALTH_UNKNOWN rule is never triggered
  by a snapshot, and the durations of OFFLINE and DEGRADED rules are not looked at.
* `docs/ALERTS.md:51`: no duplicates holds for evaluations one after the other; two
  workers that overlap may each insert an alert, and a recovery then resolves only
  the newest. A late acknowledgement reopens an alert resolved meanwhile. The
  alerts of a deleted policy, and those the child raises itself, are resolved by
  nobody but a parent. Nothing calls the retention of `docs/ALERTS.md:60`.

**Atlas, storage, identity, settings.**
* `docs/OPERATIONS.md:149-150` says that restore refuses to overwrite active state;
  it deletes and replaces the rows of every table for which the backup has some,
  keeps those of the others, and loses the manifests of later backups.
  `docs/ATLAS.md:87-89` says that nothing revoked is resurrected; trust records and
  device sequences are restored to what they were.
* A backup reads its tables one after the other. One that was torn by a concurrent
  command verifies, and may be refused by a foreign key or restore policies without
  their rules.
* `recover_aegis_sessions` selects the state 'CONSENT_GRANTED' where sessions have
  'SYSTEM_CONSENT_GRANTED', so it passes those over.
  `docs/OPERATIONS.md:172-186`: nobody calls `ensure_defaults`, so
  `guardian atlas retention --apply` deletes nothing.
* `executescript` commits the transaction around it (`storage/migrations.py:645`), so
  a migration is not atomic; that every statement says IF NOT EXISTS saves it.
* `save_keypair` swallows a failing write of the private key
  (`security/secrets.py` 68-73): the identity has a row and an unusable key. Two
  `guardian init` at once both create an identity; activating one that a restore
  has removed meanwhile leaves no identity active.
* Two writers of a settings file lose updates or leave it torn, and a torn
  `config.json` makes every `load_config` raise. The setting
  `session_timeout_minutes` has no effect.

## 6. Plan

Done: screen sessions, frames, Aegis capture, Orion queue and bus with their
coordinator, pairing, Nexus with its clients, telemetry with alerts, Atlas with
migrations and identities, settings.

Proved: every invariant and action property of the runs, and the variants of the
liveness properties. Left out: the relation of the histories of Nexus and NexusLink to
each other.

## 7. Not modelled

* Arithmetic of key agreement, encryption, signatures and hashes: a frame that
  decrypts was encrypted with that key, a decision that verifies was signed by the
  owner of the key it carries.
* Formatting, logs, rendering, the read-only commands and requests.
* Operating system counters and the mail provider, beyond that a delivery may fail.
* The screen codec and the bridge of screen frames to Nexus, which keep no state;
  normalisation, encoding and rate limits of captured frames.
* Rows that are written and only listed: `aegis_sessions`, the reconciler's reports,
  Atlas' health, recovery and capability records, audit rows. That a failing audit
  write may end an operation after any commit is covered by the crashes between
  commits.
* The scheduler's thread and the queues of telemetry, the peer health of Nexus, the
  expired-token sweeps nothing calls: only tests use them.
* A loss of power: a settings file that was moved into place is taken to be on the
  disk, although nothing calls fsync. Environment variables that override the
  configuration.
* The Android companion, a library of its own that nothing in the Python program
  calls.
