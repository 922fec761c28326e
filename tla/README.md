# Verification of the Linux VST bridge

TLA+ models of the concurrent core of the bridge, the TLC runs that check them
on small instances, and TLAPS proofs of the results that matter for every size.
Paths are relative to the repository; `B/` stands for
`native-vst3-proxy/backend/src/`, `W/` for `windows-factory-probe/source/` and `S/`
for `crates/service/src/`.

## 1. The system

A Linux DAW loads a native VST3 proxy. The proxy talks through shared memory and
loopback sockets to a Windows host process under Wine or Proton, which loads the
vendor's plug-in. A per-user service installs setups, publishes proxies and
admits instances; a Python supervisor launches and retires the Wine processes.

| Component | State it keeps | Operations | Hard behaviour |
|---|---|---|---|
| Instance registry (`B/instances.rs`) | slots: entry pointer, reader count with a CLOSED bit, owner flag; serial | insert, lease, drop of a lease, update, remove | lock-free leases against removal; slot reuse; a stuck lease and the 20 s bound |
| Direct audio hand-off (`B/direct_audio.rs`, `B/direct_audio_session.rs`, `W/delivery_mailbox.h`) | request and reply bytes and flags, two futex words, terminal code, control flag, audio claim | publish, receive, cancel, drop, claim; receive, send on the Windows side | two processes, deadlines, late answers, cancellation by four actors, death of the peer |
| Terminal status record (`B/terminal.rs`, `W/terminal_status.h`, `bridge-manager/runtime/session.py`) | progress counter and two slots, three failure records, commit word | progress, failure (three producers), read | torn copies, bounded retries, simultaneous failures, death between words |
| Native work queue and wake (`B/queue.rs`, `B/completion_wait.rs`) | ring, indices, high-water mark, sequence, eventfd | push, pop, notify, wait | full ring, last index, wake racing the drain and the poll |
| Native delivery worker (`B/queued.rs`, `B/lib.rs`, `B/startup.rs`) | epochs, tickets, retained startup edits, control mailbox and barrier, pending start, first fault | transition, process, control, save, restore, fail, recover | a save racing edits and their replay, a pending start racing audio, first fault of several |
| Output pool and history (`B/output_pool.rs`) | slot flags, frame window | publish, copy, release, append | slot ownership across worker and callback |
| State and recovery (`B/state.rs`, `B/recovery.rs`) | capture in progress, confirmed snapshot with its barrier and revision | capture, confirm, snapshot, recover | AUDIO that passes a capture; a transport that dies around one |
| Editor and GUI (`B/gui.rs`, `B/editor_surface.rs`, `W/editor_session.h`, `W/gui_channel.h`) | revision words, window handles | open, attach, resize, close | callbacks that re-enter |
| Windows processing host (`W/mapped_processing.cpp`, `W/component_instance_session.cpp`) | sequence state, epoch, owner failure, hand-off words | setup, start, process, stop, state calls | owner thread and render thread share the vendor's object |
| Notification transport (`W/notification_transport.h`, `native-audio-client/src`) | two sockets, output lanes, input slot, pending wake | pair, pump, read, write, cancel, death callback | lost and coalesced hints, back-pressure, partial frames |
| Publication (`S/publication.rs`, `S/lib.rs`) | registry, intents, results, revisions, discovery links | register, publish, unpublish, roll back, reconcile, resolve | a crash between any two durable steps; unsynced links; a foreign link; a lock dropped for a copy |
| Setup owner service (`S/owner.rs`, `S/capacity.rs`) | leases and their kernel generation, keepers, failed admissions; on disk specifications and reports | admit an instance or an inspection, stage and retire keepers, release, reconcile at start | owners, supervisors or kernels that die; ceilings counted on leases; an operator entering a setup |
| Operator jobs (`S/owner/operator_cli.rs` and `executor.rs`, `maintenance.rs`, `environment_install.rs`, `uninstall.rs` under it) | request and receipt of each job, latest pointer, executor identity, reservation of a setup, record of a vendor run | request, dispatch, execute, stop, close check, recover; finish after a death | a death between any two of these files; reconcilers racing dispatch |
| Locks and storage (`S/operator_lock.rs`, `S/transport_storage.rs`) | lock files with a writer marker, session directories | bounded wait, take, remove | starvation by readers |
| Supervisor and custody (`bridge-manager/runtime/session.py`, `ownership.py`) | process identities, cgroup, ledger | launch, track, signal, clean up | recycled process numbers |
| Appliance host (`rpi0`, `rpi1`) | callback gate, rings, retirement words | enter, pause, resume, retire | a callback racing a pause |
| Clients, window, descriptors, tools, evidence | presentation and formats | | none of its own |

How they meet: the DAW's audio callback takes a lease in the registry, then
either publishes a request in the direct mailbox and waits for the reply there,
or pushes it into the work queue for the native worker. Starts, stops, setups
and state calls always go through the worker and the control socket. Any party
that fails cancels the mailbox (which wakes both waiters), raises the instance's
first fault and, when the instance ends, writes the terminal record that the
service reads afterwards. Before any of this the DAW asks the service for an
admission: the service starts the setup's keeper and the instance's supervisor
and keeps a durable lease. Jobs of the window reserve a setup, which excludes
admissions to it, run the vendor's installers in units of their own and publish
proxies through `Publication`. The properties that make each part correct are the
ones of section 3; `PROJECT.json` lists the hazards line by line, those that no
property covers yet included.

## 2. Modules

| Module | Models | Composition |
|---|---|---|
| `Registry` | `B/instances.rs` | run directly; `RegistryProofs` |
| `DirectAudio` | delivery v4 of the mailbox, both processes, with the parts of `B/queued.rs` and `W/mapped_processing.cpp` that drive it | run directly; `DirectAudioProofs` |
| `TerminalRecord` | the record, its three producers and its readers | `MCTerminalRecord`; `TerminalRecordProofs` |
| `Fifo` | what a bounded queue promises | abstract specification |
| `WorkQueue` | the ring and its wake | `INSTANCE Fifo` with a refinement mapping; `WorkQueueProofs` |
| `Delivery` | the queued path of `B/queued.rs`: callback, owner thread, transport worker; `B/startup.rs`, captures and recovery | `MCDelivery` gives the delivery modes and symmetry; `DeliveryInvariant`, `DeliveryProofs` |
| `Publication` | `S/publication.rs`, and register, unpublish, reconcile and resolve of `S/lib.rs` | `MCPublication` gives symmetry of processes; `PublicationProofs` |
| `Admission` | `S/owner.rs`, `S/capacity.rs`, the supervisors of `session.py`, an operator's reservation | `MCAdmission` gives the setup and symmetry of clients; `AdmissionProofs` |
| `Operations` | the operator's jobs and what finishes them | run directly; `OperationsProofs` |

The level of the shared-memory modules: one action is one atomic access to shared
memory, or one system call, with the private work around it. In `Publication`,
`Admission` and `Operations` one action is one durable step on disk, one start of
a process or one critical section that neither waits nor starts anything; in
`Delivery` it is the stretch of one thread between two accesses to what another
thread can change. What sits between
two accesses (arithmetic on samples, encodings, diagnostics) is left out. Reads
and writes are taken in program order. The code's release and acquire pairs, and
the locked read-modify-writes in front of every wait, give that order for the
protocols modelled here.

Definitions whose comment begins with "Mutant of X" or "Fault for testing" are not part of any specification. They are the
plausible bug in X that shows that a property can fail.

### Registry

`entry`, `users`, `closed` and `owner` are the fields of `Slot` (`closed` is the
top bit of the users word, so both change in one access). An entry is identified
by its id, `heap` holds the allocated ones, a pointer is an id or `Null`. Insert,
lease and exclusive calls are written access by access: `InsertAcquire`,
`InsertLoad`, `InsertSerial`, `InsertCreate`, `InsertStore`, `InsertOpen`,
`Release`; `LeaseAdd`, `LeaseLoad`, `LeaseCheck`, `LeaseDrop`;
`ExclusiveAcquire` to `ExclusiveOpen`, with `ExclusiveTimeout` for the 20 s
bound, which may come at any moment of the wait. `SerialLimit` is the last
serial; insert refuses beyond it as the code does.

### DirectAudio

The four actors are the callback, the Windows render thread, the native owner
(worker and death watch) and the Windows owner. `pc[a]` names the access an
actor makes next. Of a futex word only "did it move since the waiter's snapshot"
matters, which is `moved[w]`; an increment and the wake that follows it are two
steps (`NotifyBump`, `NotifyWake`), and `duty[a]` holds what an actor still owes.
`requestBytes` and `replyBytes` hold whose call the bytes belong to, so a stale
answer is visible. `late` becomes true at any moment of a call
(`DeadlinePasses`). The host's side is what `Processor::setProcessing` and
`Callback::transition` allow: start and stop alternate, calls come in between,
and a setup while not running drops the endpoint and claims it again. A start is
one step because `processing_ready_epoch` holds the first call back until the
worker has the acknowledgement. A stop is four: sent, taken by the Windows owner,
handed to render, taken by render. `PeerDies` stops both Windows threads wherever
they are, without the wakes they owe.

### TerminalRecord

A context is the number of its publication and a row is `Width` copies of it
moved word by word, so a torn row holds two numbers. The producers share
`ContextLoad`, `ContextCopy`, `ContextRecheck` (three attempts), `RecordWord`,
`RecordStatus`, `RecordCommit`. They differ as in the code: the native worker
reports once and gives up after three attempts, the Windows owner and the
supervisor keep their first failure pending and try again at the next call. Any
of them may be killed at any step. `observed` is a history variable.

### WorkQueue

`PushLoad`, `PushStore`, `PushHigh`, `PushPublish` are the lines of `push`,
`NotifyBump` and `NotifyEvent` those of `notify`, which may also fail and set
`failed`. The worker snapshots, pops, drains, compares and polls. `MaxIndex` is
`u64::MAX`. The mapping to `Fifo` is `Contents`, the values between the two
indices; a push maps to `Enqueue` at its index store, a pop to `Dequeue`.

### Publication

One class: `registry` is its entry in `registry.json` (and a counter for all
other classes, `sibling`), `pending`, `archived`, `results` and `recoveries` are
the files of a transaction, `retained` and `lineage` the immutable revisions and
their `parent` chain, `link` the discovery link the DAW scans, `temp` the
`.lvb-<id>` name beside it. A revision, the path of its bundle and the transaction
that made it are one number; `Legacy` is the bundle of `register`. `mem[p]` is
what a call holds in its local variables: its copy of the registry, its intent,
the revision its caller expects.

A call takes `registry.lock` (`Begin...`), decides what an interrupted call left
(`Recover...`, `Restore...`, `Finish...`), makes its plan and its intent
(`Plan...`), and goes on with `ArchiveIntent`, `WriteIntent`, `CreateCandidate`,
`Activate...`, `Finish...`. A managed publication drops the lock for
`CopyCandidate` and takes it again in `Reacquire`. `register`, and `unpublish` of
an entry it made, keep no intent (`Register...`, `Unlink...`, `MarkRemoved`).
Checks of profile, census and performance are `PlanRefused`, which may happen to
any call; every error path returns without undoing anything, as `?` does.

`Crash` ends one process between two steps. `PowerFails` ends all of them, and
the directory of the link becomes one of `survivable`: what it was at its last
sync or at any change since. Registry, records and the removal of the intent are
written and synced by one helper each and are one step; so are a staged pointer
and its sync. The exchange and its sync are two, because the code has work
between them. The auxiliary `undone` becomes true when a power failure takes back a link
that no intent is left to tell of (section 5). `UserChangesLink` puts another link (`Foreign`), an entry that is
no link (`Alien`) or nothing at the public name, at any moment. `BundleDamaged`
changes the bytes of a retained bundle. A host of the class is admitted in two
steps, `Resolve` without the lock and `Admit` with it.

### Delivery

A stamp is the time order of the host's calls: every edit and every restore takes
the next one, and the plug-in's value of a parameter is the stamp it last took.
That makes "older" and "newer" visible without values. `cb` is the audio thread's
`Callback` (epoch, tickets, retained parameters, its place in `process`), `ctl` the
owner thread inside a save (op 16) or a restore (op 18), `w` the transport worker.
`requests` and `results` are the queues that `WorkQueue` models in detail, `mbox` is
the control mailbox with its barrier, `shared` the words of `Shared`, `session` what
the worker knows of the session, `snap` the confirmed snapshot. `peer` is the
Windows host as far as the worker can tell: it acknowledges starts, reads state and
applies AUDIO, in any order the protocol leaves open.

`Retain`, `Ready`, `Flush`, `Flushed`, `Submit`, `Drain`, `Drained` are the stretches
of `process_outputs_until_traced`; `SetProcessing` is the transition. A host calls
`setState` and `setProcessing` only when the busy guard of `processor.cpp` lets it
(`Free`). The worker's loop is `BeginCapture`, `EndCapture`, `ComponentState`,
`Take...`, `Transition`, the pending start (`PendingStart` to `FinishStart`), AUDIO
(`StartedInAudio`, `CaptureInAudio`, `Publish`) and `Synced`. `Fault` is a failure
from outside, after which the threads only leave; `Recover` is `recover_state`. A
check of the bridge's own that fails sets `fault` to "own". `Modes` are the
deliveries: same-callback without an overlapped start, buffered with one, and
offline.

### Admission

`worker[c]` is a thread that serves one DAW request or one inspection: `Request`,
`AwaitKeeper`, `Publish` (session and lease), `FinalStage`, `Spawn`, `Expose`,
`Unready`, `Finish`; `Refuse` stands for every refusal and deadline, with what
`PendingAdmission::drop` does. It keeps `registryLock` from the reservation to the
spawn. `blocked` is `AdmissionCleanup`, `keeper` the service's `KeeperOwner`; both
are lost with the service. `spec`, `lease`, `generation` and `report` are on disk,
`proc[s]` is a session's supervisor and its Windows host, `native` the DAW's end.
`Proven` is the evidence for which `reconcile_lease_in_kernel` retires a lease.
`Acquire`, `Enter`, `RetireVendor` and `Release` are the operator's reservation.

Faults: `Kill` (a supervisor dies and leaves its host), `Crash` with `KillGroup` and
`Start` (the service dies, systemd empties its control group and starts it again),
`PowerFailure` (another kernel), and writes that fail.

### Operations

One setup. For each job: `kind` and `target` (request.json), `receipt` (result.json),
`executor` (service-executor.json), `held` (maintenance.json) and `run`, the record of
a vendor run with its unit: whether it is `recorded`, whether its specification was
written, whether it is shown closed (`retired`), whether its unit is `alive`, a
program of it outlived the unit (`stray`), or its setup is `due` a check. `latest` is
the pointer the window reads, `writer` who is between a receipt and that pointer.
`lock` holds the dispatch, canonical, environment and worker locks.

`Request` to `Launch` are the handler, `Start` to `Final` the executor's thread, with
the four kinds of work (installer, uninstaller, scan, close check), `StopRun` and
`Recover` the other two actions. `Job...` is `finish_operation` and
`finish_terminated_worker`, run by the executor itself, by `Recover`, by the starting
service (`Startup`) or by the package manager (`Gate`); `Scan`, `Visit`, `Repair` and
`Settle` are the two reconcilers. `Crash`, `PowerFailure`, `GateDies` and `RunDies` may
come between any two writes. What the code itself leaves to a later start or to the
user is recorded in `lapse`: a confirmation overwritten by `finish_with`
("reopened"), a dead queued job that a scan skipped because dispatch was busy
("missed"), and a package manager that died at the job ("gate").

## 3. Runs

| Run | Instance | Shows |
|---|---|---|
| `registry` | 2 threads, 2 slots, 2 serials, fairness; 73 994 states | `TypeOK`, `NoUseAfterFree`, `ExclusiveAccess`, `NoLeak`, `StaleHandlesStayDead`; `CallsReturn`: a call ends although a lease is never returned |
| `direct_audio_safety` | 2 playbacks of 2 calls; 4.6 million states | `SlotOwnership`, `NoStaleReply`, `NoLostWake` |
| `direct_audio_epoch` | 2 playbacks of 1 call | `EveryStartAccepted` is violated (section 5) |
| `terminal_record` | 2 words, 4 publications, 2 statuses; 3.96 million states | `CommittedIsWhole`, `CommittedIsFirstFailure`, `ReadIsCommitted`, `CommittedKept` |
| `work_queue` | capacity 3, 2 values, last index 7, fairness; 129 167 states | `RingSafety`, `RefinesFifo`, `NoWorkStranded` |
| `delivery` | 2 parameters, 3 modes, 3 stamps, 5 requests, 2 starts, 1 save, 1 failure; 3.68 million states | `SaveCovers`, `UncapturedDisclosed`, `NoOwnFault`, `StartSeesRequests`, `PendingHasSync`, `NoStaleEdit` |
| `publication` | 1 process, 2 transactions, 1 death, 2 power failures, 1 damaged bundle, fairness; 819 959 states | `SettledAgreement`, `RecoveryDecides`, `ExactRollback`, `RecoveryEnds` |
| `publication_user` | 2 processes, 2 transactions, 1 death, 1 change by the user, 1 sibling commit; 816 016 states | `SettledAgreement`, `ActiveLinkStable`, `NoLostUpdate`, `ForeignKept` |
| `publication_exact` | 1 process, 3 transactions, 1 death | `ExactUnpublish` is violated (section 5) |
| `admission` | 2 workers, 1 setup, 1 class, ceilings of 1, 3 sessions, 2 faults; 2.7 million states | `HostsWithinCeiling`, `MaintenanceExclusive`, `KeeperKept`, `OneKeeper`, `NoOrphanLease` |
| `admission_live` | the same with 2 sessions, fairness; 191 thousand states | `AdmissionDecides`, `ExitSettles` |
| `operations` | 2 jobs of any kind, 2 faults; 2.8 million states | `SetupExclusive`, `FinishedIsDead`, `NothingStranded` |

Why the bounds are enough. Registry: a race needs a reader and
an owner, one of which reuses the slot afterwards, and a stale handle needs two
serials in one slot; the second slot lets an insert pass over a contended one, and
the proofs of section 4 cover any number of threads. DirectAudio: a stale answer needs
the call after the one that expired, and an old endpoint a second playback.
TerminalRecord: a slot is overwritten after two publications, three lost attempts
need four; two words suffice to tear a row. WorkQueue: three slots with seven
indices wrap twice and end at the last index in mid-ring. Delivery: a stale edit
needs two values of a parameter and one of another between them, five requests hold
start, replay, audio, stop and start again. `NoStaleEdit` was also checked once with
six requests (10.4 million states), where two replay packets are followed by a newer
edit. Publication: two power failures or a death and a power failure interrupt
a call and its recovery; the second process is only needed while the first has
dropped the lock. With all bounds at one and two transactions, one process (4.3
million states) and two (4.4 million) were checked once for the proof.
`RecoveryEnds` was also checked once with three transactions (1.7 million states),
which is where its exception for a damaged prior comes from: add back a removed
revision whose bundle is then damaged, and candidate and prior are the same damaged
bundle. Admission: ceilings of one make the second worker compete with what is left
of the first; three sessions are a keeper, an instance and the replacement of either;
two faults hit a step and the recovery from it. Operations: a job and the job that
stops, checks or recovers it, or that wants the same setup, with a death of each.

Deadlock is checked for the queue, the registry and the publication. The other
models stop on purpose: when their bounds are used up, or every party has ended.

Fairness. A thread that can take its next step of the code takes it; nothing is
assumed of the vendor's code, the DAW, `create` and `finish`, the passing of a
deadline, or spurious wakes. `registry` includes the timeout of an exclusive call:
its loop tests the clock on every turn. `work_queue` leaves out the worker's 4 ms
cadence, so that nothing rests on it. `publication` assumes that a call that has
begun goes on, that hosts of a class retire, and that a reconcile is begun again and
again while the lock is found free: every start of the service reconciles
(`reconcile_service_startup`, `S/owner/package_authority.rs`), and so does every
publish, rollback and unpublish of a managed class. `admission_live` assumes that the
waits of an admission end at their deadlines (the keeper's, the supervisor's
readiness), that worker threads run, and that systemd empties the control group of a
dead service and starts it again; supervisors and DAWs may do nothing for ever.

`NothingStranded` states progress without fairness: where the job is not settled, a
step of `Progress` is possible. The steps of `Progress` are the service's own, no
sequence of them returns to an earlier state (every one moves a place in the code
forward, shrinks a list, or brings the service up), so a service that goes on running
comes to rest, and does so settled.

## 4. Proofs

A `...Proofs` module EXTENDS the module it is about. Its theorems hold for every value
of the constants that satisfies the module's named ASSUME, which every run of the
module evaluates. Each rests on one inductive invariant `IInv`: it holds initially
(`InitEstablishes`), every step keeps it (`NextPreserves`, which collects one lemma for
each part and, below it, one case for each action; `InitInv` and `NextInv` for
`Delivery`), and it implies the properties. TLC
found every conjunct of every `IInv` true in all states of an instance like the one in section 3
before it was proved.

| Module | For every | Theorems: property of the runs |
|---|---|---|
| `RegistryProofs` | finite set of threads, capacity, serial limit | `TypeCorrect`, `MemorySafety`: `NoUseAfterFree`, `MutualExclusion`: `ExclusiveAccess`, `GenerationSafety`, `LeakFreedom`: `NoLeak`, `StaleHandleSafety`: `StaleHandlesStayDead` |
| `TerminalRecordProofs` | width, number of publications, set of statuses | `TypeCorrect`, `RecordIntegrity`: `CommittedIsWhole`, `RecordAttribution`: `CommittedIsFirstFailure`, `ReadIntegrity`: `ReadIsCommitted`, `RecordPermanence`: `CommittedKept` |
| `WorkQueueProofs` | capacity, set of items, last index | `RingIsSafe`: `RingSafety`, `RingRefinesFifo`: `RefinesFifo` |
| `DirectAudioProofs` | number of playbacks and of calls | `SlotHasOneOwner`: `SlotOwnership`, `RepliesAreFresh`: `NoStaleReply`, `WakesAreOwed`: `NoLostWake` |
| `OperationsProofs` | number of jobs and of faults | `ReportedIsOver`: `FinishedIsDead`, `SetupIsExclusive`: `SetupExclusive`; `WorkersStartAlone`, `JobsHaveOneFinisher`, `ReportsAreFinal`, `ShownIsReported` |
| `PublicationProofs` | set of processes, number of transactions, of siblings' commits and of every kind of failure | `SettledAgrees`: `SettledAgreement`, `RecoveryCanDecide`: `RecoveryDecides`, `RollbackIsExact`: `ExactRollback`, `ActiveLinkIsStable`: `ActiveLinkStable`, `NoUpdateIsLost`: `NoLostUpdate`, `ForeignIsKept`: `ForeignKept` |
| `AdmissionProofs` | set of workers, setups and classes, ceilings, number of sessions and of faults | `LeaseHasOwner`: `NoOrphanLease`, `KeeperIsKept`: `KeeperKept`, `KeeperIsUnique`: `OneKeeper`, `MaintenanceIsExclusive`: `MaintenanceExclusive`, `HostsStayWithinCeiling`: `HostsWithinCeiling` |
| `DeliveryProofs` | set of parameters, packet size, set of delivery modes, number of edits, starts, requests, saves and failures | `PendingIsReplayed`: `PendingHasSync`, `StartsAreWoken`: `StartSeesRequests`, `SavesCover`: `SaveCovers`, `SnapshotsDisclose`: `UncapturedDisclosed`, `PluginNeverGoesBack`: `NoStaleEdit`, `BridgeNeverFaultsItself`: `NoOwnFault` |

Registry. `GenerationSafety` is of `LeasePinsGeneration` (a lease in hand keeps its slot
at the generation it was taken for). `IInv` adds:

- `CountInv`: the users word is exactly the number of calls between their
  increment and decrement, refused ones included. The drain loop and the
  non-negativity of the counter rest on it; it is why the proof needs
  cardinalities.
- `OwnerInv`: the owner flag is a lock.
- `GateInv`: an empty slot is closed, and a drained slot has no admitted reader.
- `PointerInv`: what each pointer in hand points to, by place in the code.
- `IdentityInv`: ids are minted once from a growing serial, live in their own
  slot and die once; it needs the arithmetic of `IdOf` (`SerialRow` and the
  lemmas after it).

TerminalRecord. `IInv` adds `ProgressInv` (the published
slot is whole; the other holds a prefix of the next row), `CopyInv` (a copy is
right as far as it got unless the counter has moved on, so an unchanged counter
makes it whole), `PendingInv`, `CommitInv` (the winner has retired and left a
whole record) and `ReaderInv`.

WorkQueue. Neither thread sees the other's index at the moment it acts, so the
property alone is not inductive: `RoomInv` says that the index a push judged its room
from is not ahead of the real one, `StoredInv` and `TakenInv` what a push and a pop in
progress have in hand. That two indices less than a ring apart fall into different
slots is `NearbyIndicesDiffer`, the arithmetic that both theorems turn on. For the
refinement, publishing the write index is the `Enqueue` of `Fifo` and publishing the
read index its `Dequeue`; every other step leaves `Contents` alone, the store into the
free slot included (`StoreStutters`).

DirectAudio. Two invariants, proved apart. `OwnerInv` follows the bytes: the slot holds
a request, a call being rendered or a reply and never two of them (`SlotInv`); where in
the code a request is outstanding, and that one still outstanding after its call left
the slot was cancelled, so no stop completes and the session accepts no other call
(`CallInv`, `LifeInv`); that what the slot holds is the waiting call's (`AnswerInv`).
`WakeInv` follows the words: a condition that comes true behind a waiter's check moves
the word before the waiter can sleep, or somebody still owes the increment
(`CallbackWakeInv`, `RenderWakeInv`); after the death watch has cancelled it is its own
notification that counts (`WatchInv`).

Operations. `DeathInv` is about threads: the executor's record says whether a worker
lives, the receipt follows the request under the dispatch lock up to the launch, what a
reconciler has on its list is dead, and a thread finishes its own job or one whose
worker is gone. `SetupInv` is about the setup: the environment lock covers an action
from entry to last receipt, what `finish_with` has read of a run still holds when it
writes (`FinishInv`), vendor programs run under the reservation of their own job
(`HoldInv`), and none of another job beside a run, a transfer or a check (`QuietInv`).
The assumption adds that the two reconcilers, the jobs and `None` differ.
`ClaimInv`, inductive beside `IInv`, is about the worker locks: a worker's own while it acts,
another thread's only when the worker is gone, and held by whoever finishes another's
operation. From it no two threads finish one operation (`OneFinisher`), and a launched worker
finds its lock free and its receipt open (`StartsAlone`), which is why `Start` has no action for
the early returns of the code. `ReceiptsStay` and `ShownIsOver` are about receipt and latest
pointer: final receipts stay, and the pointer, a second write, never shows an operation as
over that is not. TLC agreed to all four on the instance of `MCOperations` (2 798 069 states).

Admission. Steps that look at keepers are first reduced to what they may do to a keeper
record, a lease and a process (`Turn`, `Looks`, `Starts`; lemmas `ObserveEffect` to
`VendorEffect`, then `StepKinds`). `IInv` then says

- `ProcInv`: stages, reports and kernel generations agree, so that what
  `reconcile_lease_in_kernel` and `retired_keeper` take as proof is one;
- `LeaseInv`: a lease stands for every instance and keeper of which something runs.
  With `CeilingInv`, the ceilings on leases with room for the admission that holds
  registry.lock, it bounds the hosts; with `HeldInv`, no lease of a reserved setup, it
  makes maintenance exclusive;
- `RecordInv` and `KeeperInv`: the keeper that runs is the one on record, a record that
  failed has left nothing behind, and so a new one is alone;
- `LockInv`: under registry.lock the setup stays unreserved and the keeper unasked, on
  which `HeldInv` and `KeeperKept` rest;
- `SessionInv`, `UnstartedInv`, `BlockedInv`, `DownInv`: whose session is whose, and that
  one given up before its start has nothing that runs.

The assumption says that `None` is none of the values it stands beside.

Publication. Neither the agreement of registry and link nor the decision of a recovery is
inductive: both rest on where each call is and on everything a power failure may leave,
not only on what is visible. `IInv` says

- for the call that holds registry.lock: which operation and which intent it may have at
  each step (`LockInv`, `CopyInv`, `CallInv`, `PlanInv`, `OutcomeInv`, `SavedInv`), that its
  copy of the registry is the registry, and that it has asked for leases (`LeaseInv`, on
  which `ActiveLinkStable` rests);
- for every entry, ancestor and intent anybody still knows, those in the memory of a call
  that copies without the lock included: each revision it names was activated unless it is
  the transaction's own, an identity is used once, and one not yet given out is free
  (`EntryInv`, `CopiesInv`, `LineageInv`, `SoundInv`, `UniqueInv`, `FreshInv`, `PrivateInv`,
  `ActiveInv`). That is why a candidate abandoned in a copy never counts as completed;
- for every directory in `survivable`: what it names is complete (`CompleteInv`), what it
  holds before the pointer is staged, after the exchange, while the prior is restored and
  while the call finishes (`StagingInv`, `ExchangedInv`, `RestoringInv`, `FinishingInv`),
  and once no call is there to know: with an intent pending (`PendingInv`) and without
  (`SettledInv`, `TakenBackInv`); and that until a process dies it holds nothing but
  what is visible, unless a call is between its exchange and its sync (`SyncedInv`).

The steps are proved in groups (recovery, restore, finish, plan, preparation, activation,
the operations of `lib.rs`, the environment), each against each part that it can disturb.
The three action properties are proved from `IInv` by the same cases.

Delivery. `IInv` (`DeliveryInvariant`) is about one line of requests, `Upcoming`: what the
worker has put back, then the queue. An edit crosses it from the callback to the plug-in,
and a save draws its barrier through it. `IInv` says

- of the line: it leads from the session's epoch to the callback's by starts and stops that
  alternate (`LineInv`, with `WorkerInv` for the request in hand), its tickets end at the
  callback's count and the results continue below them (`TicketInv`). From these two come
  the CORRELATION check, the epoch of AUDIO and the stopped session under a restore:
  `NoOwnFault`;
- of retained edits: they keep their epoch pending (`KeptInv`), nothing is retained behind
  an acknowledgement (`AckInv`), nothing is replayed before the start is acknowledged
  (`ReadyInv`), and a pending epoch that retains nothing has its acknowledgement under way
  (`PendingInv`): `PendingHasSync`;
- of stamps: they do not decrease from the plug-in through the worker and the line to
  what is retained (`OrderInv`): `NoStaleEdit`; and the newest accepted one is at one of
  these places (`HeldInv`);
- of saves: what a save has to hold is in the line at or before its barrier, in the
  plug-in, captured or answered (`CoverInv`): `SaveCovers`. A request is put back only for
  a save (`DeferredInv`), a capture stays behind the barrier and what passes it moves
  `lastEdit` (`CaptureInv`, `LastInv`). `SnapInv` then has `Shown` for the snapshot where
  `HeldInv` has `Held` for the line: `UncapturedDisclosed`;
- of the calls: the mailbox holds the owner's call and a restore shuts the callback out
  (`CallInv`, `CallbackInv`), nothing moves between a failure and its recovery
  (`FaultInv`), requests other than AUDIO carry nothing (`BareInv`), and a block has room
  for all its packets within the bound (`RoomInv`). `BoundsInv` and `StampInv` keep counts
  and stamps within theirs.

Fifteen variables, many of them records, and some thirty-five actions make more pairs than can
be proved one by one. So an effect lemma says for each action what it does to every field, a
lemma for each field says which actions move it (`...Moves`), and the lemma for each
conjunct (`...Kept`) splits into the step that leaves alone what the conjunct reads, one
case, and the actions that move it. `Invariance` collects them; every property follows from it in
a few lines, `TypeOK` of `NoOwnFault` by `TypesBounded`. TLC checked `IInv` beforehand with the three
modes of `MCDelivery`, with one parameter (1 354 275 states) and on smaller bounds with two.
The first attempt showed two arms of a CASE in `Served` that overlap; TLC takes the
first that holds, a proof may use neither, and they are disjoint now.

Only model-checked: the liveness properties and `NothingStranded` (fairness and ENABLED are
out of the prover's reach).

## 5. Findings

### A playback without a block

`AudioSession::process` adopts a new epoch only when it is one after its own, and
its epoch moves only when a block is processed. `Callback::transition` counts an
epoch at every start, and `Processor::setProcessing` lets a host start and stop
repeatedly without a setup. Start, stop before any block, start: the session is
two behind, the first call is refused with `Ownership`, and the instance is
faulted with CORRELATION. `docs/components/BRIDGE_CONTRACTS.md` lines 45-47 count
start among the legal transitions that prepare a new stream epoch. The run
`direct_audio_epoch` ends in the trace that shows it.

### An exact removal may remove another publication

`unpublish_exact` is to "remove one exact current publication" (`S/lib.rs` line
1320). `unpublish_scoped` compares the expected revision first and completes
interrupted transactions afterwards, inside `remove_revision`. After a publish of
B over A died behind its exchange, the removal of A completes B and removes B.
Rollback compares after its recovery and is exact (`ExactRollback`). The run is
`publication_exact`.

### Limits that the properties leave out

These are in the models and bound what the properties say.

- `unpublish` of an entry without a managed revision removes the link without looking
  for a pending intent (`S/lib.rs` line 1336). If a managed publication over that
  entry was interrupted, the link is then neither the prior nor the candidate, and
  every later reconcile refuses with `foreign_publication`. This is why
  `RecoveryDecides` and `RecoveryEnds` speak of intents over a managed prior.
- `publish_entry` and the `unpublish` of an entry it made look at the public name
  and then rename over it or remove it, so what a user puts there in between is
  lost. `ForeignKept` leaves these two steps out; for the transactions, which the
  comment of `rename_link` and `docs/AP14.md` speak of, it holds.
- A recovery commits on a link it reads and does not sync (`reconcile_revisions` goes
  straight to `finish`). If a process dies between the rename of a first publication and
  its sync, the recovery finds the link in place, saves the registry as published, has no
  temporary pointer to remove and so nothing that would make it sync the directory, and
  clears the intent. A power failure may then take the link back, on a file system that
  keeps no order between two directories, and nothing is left to say so, although
  `bridge-manager/README.md` line 90 counts publications among what remains durable at a
  machine restart. `PublicationDurable` states that sentence;
  `tlc -config MCPublicationDurable.cfg MCPublication` ends in the trace (19 steps). It is
  no run of its own. `SettledAgreement`, `RecoveryDecides` and `RecoveryEnds` speak of
  behaviours without it (`undone`), and `SettledAgreement` adds that it is the only one:
  with no intent pending a power failure can take nothing back as long as no process has
  died, and at most the link of a first publication afterwards.
- A power failure may take back an exchange that displaced the user's entry, but keep the
  user's later change, so `ForeignKept` speaks of the steps of programs.
- An inspection starts its Windows host right after its readiness line. When the
  deadline kills its supervisor at that moment the host may survive while the lease is
  removed; `MaintenanceExclusive` speaks of instances and keepers. An instance has no
  binding at that point and starts no host.
- `finish_with` of an installer or uninstaller run reads the record and writes it back
  without `onboarding.lock`. A "Check that it closed" in between is lost; the record
  only becomes stricter and the user checks again. A scan that does not get the
  dispatch lock within two seconds skips queued jobs, and a package manager that dies
  at its work leaves it to the next start. `NothingStranded` leaves these three out.
- A request that is interrupted before its dispatch keeps the receipt `unconfirmed` for
  ever; `docs/FAILURE_CLASSES.md` line 3787 says so. `Settled` does not count it.

## 6. Not modelled

The map covers a few percent of the repository's lines, because most of them hold no
protocol: windows, views and wording (`manager-ui`, `crates/window`, the projections of
`operator_cli.rs`), the interpretation of vendors' installers, checks and staging of
files, encodings, fixtures, tests and recorded evidence. Of the code that keeps state
over several steps these parts are left out:

- package transitions over several classes and the stable command link of
  `publication.rs` and `package_authority.rs`, whose files are others than the ones
  modelled;
- the journeys above a job: automatic installs, vendor applications, renderer and
  runtime selection, preparation, the deletion of a setup. They use the receipts,
  reservations and runs that `Operations` has, and add checkpoints of their own;
- the writer-waiting marker of `operator_lock.rs`, so that bounded waits appear as
  "may be refused", and the removal of session directories;
- audio presentation (late output, fades, history, the output pool), notes and curves,
  the context words of the first fault, delivery v2 and v3 with their notification
  sockets;
- custody by process identity (`ownership.py`) and the appliance host;
- window-system and Wine calls, and what the vendor's code does.

Sockets appear as the death of the peer. Wrap-around of the 32-bit wake words is not
modelled: a waiter would have to miss exactly 2^32 notifications during one wait.
Weak memory is not modelled; section 2 says why that is sound for these protocols.

## 7. Plan

1. Done: `Registry`, `DirectAudio`, `TerminalRecord`, `WorkQueue`, `Fifo`, `Delivery`,
   `Publication`, `Admission`, `Operations`, and the proofs of all of them.
2. Package transitions and `install_command`: the durable record of several classes
   that move together, above `Publication`, and the hand-off of a reservation to it.
3. `OutputPool` beside `Delivery`; `Notification`, the hint channel and delivery v3,
   composed with the mailbox.
4. `OperatorLock`: liveness of a waiting action against any number of readers.
5. `Custody` and the appliance's callback gate.
6. Proofs: the modules of 2 to 5; of `Operations`, that every dispatched job that is dead is
   on a list or will be scanned, which is what `NothingStranded` says without ENABLED.
