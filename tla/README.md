# A verification project for OhMyKeymint

OhMyKeymint is a Keystore and KeyMint service for Android in one process: a
port of the keystore2 daemon (`src/src/keymaster/`), a KeyMint TA that runs
in-process (`src/ta/`, `src/common/`), and what surrounds them (configuration,
keyboxes, remote provisioning, an injector, a web UI). This directory models the
parts in which threads, callbacks, restarts and time meet, checks them with TLC
on small instances and proves the most important results with TLAPS for every
value of the constants.

Line numbers are those of the sources under `src/`. `PROJECT.json` maps every
definition to the lines it stands for.

## The system

Clients call the service over binder, each call on a thread of its own. A call
loads a key entry from the database under a *key id guard*, asks `Enforcements`
whether the operation is allowed, and begins it in the TA. The resulting
`Operation` is owned by the client's binder object and weakly referenced by the
`OperationDb`, which prunes operations when the TA runs out of slots. Background
work (garbage collection of key blobs, lock notifications) runs on `AsyncTask`
workers, and a watchdog thread reports calls that take too long.

| Component | State | Operations | Interacts through |
|---|---|---|---|
| Operations (`operation.rs`) | outcome, last usage and slot of each operation; weak references in `OperationDb` | create, update, updateAad, finish, abort, drop, prune | outcome mutex, database mutex, TA slots |
| Security level (`security_level.rs`) | none of its own | create_operation, import_wrapped_key, generate, import, upgrade and re-encrypt a blob | guard, reservations, TA, database |
| Limited-use keys (`enforcements.rs`, `db.rs`) | reservations in flight, durable count | reserve, commit, drop | reservation mutex held across the transaction |
| Enforcements (`enforcements.rs`, `database/perboot.rs`) | token receivers, tokens since boot, deferred states of operations | authorize_create, add_auth_token, timestamp requests | channels, one mutex per operation |
| Authorization and lock state (`authorization.rs`) | which users are locked | unlock, lock, expiries, addAuthToken | AsyncTask, super keys |
| AsyncTask (`async_task.rs`) | two queues, worker state, shelf | queue_hi, queue_lo, queue_hi_if_running, worker loop | mutex and condition variable |
| Key database (`db.rs`) | key entries, aliases, blobs, grants, key id locks | store, load, rebind, migrate, unbind, grant, set_blob | SQLite transactions, guards, notify_gc |
| Garbage collector (`gc.rs`, `global.rs`) | notified flag, batch, processed ids | notify, step, clean-up at start | AsyncTask, database, deleteKey |
| Super keys (`super_key.rs`, `boot_key.rs`) | keys in memory per user and boot level | unlock, lock, wipe, (re-)encrypt | database, lock notifications |
| KeyMint instances (`keymint_device.rs`) | one instance per security level, its mutex, end of early boot | make, call, reconfigure | lifecycle lock, instance mutexes, configuration lock |
| TA (`ta/`) | keys in blobs, operation table, use counters, presence | generate, import, upgrade, delete, begin, update, finish, abort | behind the instance mutex |
| Secure deletion data (`keymint/sdd.rs`) | secrets by slot, a cache per instance, one file | new secret, delete, reset | the file |
| Patch levels and boot key (`security_patch.rs`, `plat/vbmeta.rs`, `config.rs`) | configuration, properties, saved defaults, saved key | start, web UI request, reload, OTA | flock, property service, instances |
| Injector (`injector/src/hook`) | maps of published objects, frames and results per thread, connections per descriptor | hooked ioctl, close and dup; publication worker | Binder driver, libbinder |
| SOTER identities (`soter-ta/`, `injector/src/soter_watch.rs`) | configuration, a ledger of keys, counters and sessions per identity, the bridge's snapshot and channel | web UI changes, broker answers, calls of SoterServer | flock of the directory, two socket pairs |
| Watchdog (`watchdog/`) | records, back-off, thread state | arm, disarm, report | mutex and condition variable |

What is hard here, and hard to test: an operation that a client uses while
another thread prunes it and a third one takes its slot; a use of a limited-use
key that is reserved, consumed and given back by different threads; a worker that
exits while a job is queued; blobs that are superseded, orphaned and collected
while row ids are given out again, notifications are in flight and the process
dies; deadlines that pass while a thread decides how long to sleep; a file that is
truncated before it is written; a token that comes before or after the operation
that waits for it; a super key that goes between the encryption of a blob and its
storage; a Binder object that must outlive a reference nobody has taken yet, at an
address that is used again. `PROJECT.json`
lists these hazards at the lines where they bite, with the properties that would
catch them.

## Modules

| Module | Models | Used by |
|---|---|---|
| `Pruning` | the malus and the choice of a candidate, stated without a loop | `PruningFold`, `KeystoreOperations` |
| `PruningFold` | the loops of `OperationDb::prune` as folds | `Algorithms`, `AlgorithmsProofs` |
| `KeyParameters` | which keys can be made, which operations begin on them, and which tags an HMAC verification takes | `Algorithms`, `AlgorithmsProofs` |
| `KeystoreOperations` | operations, reservations, create_operation, import_wrapped_key | `MCKeystoreOperations`, `KeystoreOperationsProofs` |
| `BeginLoop` | the begin/prune loop of create_operation, with clients that never stop | `Daemon` |
| `KeyDatabase` | key entries, blobs, grants, guards and the collector | `MCKeyDatabase`, `KeyDatabaseProofs` |
| `JobQueue` | abstract specification of a task with two queues | `AsyncTask` |
| `AsyncTask` | the background worker | `Daemon`, `AsyncTaskProofs` |
| `Watchdog` | watch points and the watchdog thread | `Daemon`, `DaemonProofs` |
| `KeyMintDevices` | the shared KeyMint instances and their locks | `Daemon`, `DaemonProofs` |
| `SecureDeletion` | the secure deletion data, its caches and its file | `KeyMint`, `KeyMintProofs`, run `sdd_shared_file` |
| `PatchLevels` | patch levels and boot key from configuration to instances | `KeyMint`, `KeyMintProofs` |
| `KeyMintTa` | the TA's keys, operations and counters | `KeyMint`, `KeyMintProofs` |
| `AuthTokens` | authorization of operations and the tokens they wait for | `Authorization`, `AuthorizationProofs` |
| `SuperKeys` | super keys, lock state and the blobs under super encryption | `Authorization`, `AuthorizationProofs` |
| `SoterIdentities` | the local SOTER identities, their broker and the bridge to it | `Authorization`, `AuthorizationProofs` |
| `SyntheticOperations` | the operations the injector publishes in the host process | `Injector`, `InjectorProofs` |
| `PendingReplies` | how a hooked Binder thread matches replies and results | `Injector`, `InjectorProofs` |
| `BinderFds` | which Binder connection a descriptor stands for | `Injector`, `InjectorProofs` |
| `Algorithms`, `Daemon`, `KeyMint`, `Authorization`, `Injector` | the components of one part of the system side by side | the MC module of the same name, the proofs |

`Algorithms`, `Daemon`, `KeyMint`, `Authorization` and `Injector` put components together that
share no state: each extends one of them and instantiates the others. A behaviour
is a behaviour of one component, chosen at the start by `which`, while the others
stay in their initial states: the states explored are the sum, not the product, of
the components' states, and a property of one component is checked in all of its
behaviours. Each property there is that of its component under the same name. The
MC modules give the constants their values, and the proofs extend the same modules,
so that a run and a theorem speak of one definition. The proofs are about the
component's own specification (`Devices!Spec => []EarlyBootOver`), not about the
choice of `which`.

### Pruning and PruningFold

`Pruning` says which operation is the candidate: the one with the highest malus
(and, among equals, the longest unused) that is worse than the caller's own
malus, else the caller's own oldest operation. `AgeMalus` is the logarithm to
base 6 written with powers. `PruningFold` has the code's loops over the list of
`PruningInfo`, with the running best and the running oldest sibling, and checks
that they compute exactly that.

### KeystoreOperations

One process per operation: the thread that creates it and then its client. `pc`
is the place in `create_operation` (`loaded`, `begin`, `prune`, `get`, `try`,
`pruning`, `begun`), in a client call (`update`, `finish`, `commit`, `committed`,
`abort`), between calls (`open`) or in `import_wrapped_key` (`import`, `store`).
A strong reference is a `pc` in a client state or a pruner's `held`; whoever lets
go of the last one runs `DropOperation`. The outcome mutex is held by a thread in
a call or in `pruning`.

Abstractions: the prune information is gathered in one step (each read of another
operation is re-validated under its mutex in phase 3, which is what
`PruneHitsScored` is about); a key upgrade inside begin is a stutter, since it
only touches the blob; a second call on an operation in use is answered
OPERATION_BUSY and changes nothing; monotonic time moves at every stored reading
and by `Tick`. Failures of KeyMint, of the commit of a use, of authorization and
of re-encryption are alternatives of the actions.

### BeginLoop

The question whether the begin/prune loop ends needs clients that go on for ever,
which a clock with a bound and operations that are used once do not have.
`BeginLoop` has the same steps on a state that stays finite without bounds: each
client has one operation at a time and makes another when that one is gone; the
stamp of the last usage is reduced to whether it is still the one that a pruner
gathered (`same`), which is all that a prune compares; and since ages only decide
which operation is the candidate, any gathered one may be. Slots of the TA that
nobody refers to any more (see `ta_slot_leak`) are counted in `leaked`.

### JobQueue and AsyncTask

`JobQueue` promises: a queued job is performed once, in the order of its queue,
high before low priority, and eventually. `AsyncTask` has the mutex-protected
state, the callers (`Queue`, `Refuse`, `SpawnThread`, the mutex kept while the
last worker is joined) and the workers (`TakeShelf`, `BecomeIdle`, `RunIdle`,
`Wait`, `Pop`, `Perform`, `TimeOut`, `Leave`). The refinement mapping is
`busy <- Busy`: the job of the current worker.

### KeyDatabase

Every transaction is one step. That is right for the `IMMEDIATE` ones, and for the
deferred one of `load_key_entry` because the database uses a rollback journal: the
shared lock a reader keeps until its end stops a writer's commit. Between
transactions threads interleave freely: between waiting for a guard and looking
the key up again, between loading a blob and storing its upgrade, between a commit
and its `notify_gc` (`owed`), between the statements of a collector step, and
between `deleteKey` and the transaction that deletes the row. `Crash` loses what
is in memory; `CleanupLeftovers` is the first use of the database after it.

A blob is named by its key and the number of blobs made before it; it owns the
secure deletion slot of that name. Row ids follow SQLite (highest plus one, so ids
of deleted rows come back). CERT and CERT_CHAIN are one subcomponent. Making a
blob in KeyMint and storing it is one step. `UnbindKeys` stands for all
transactions that remove a set of live keys through `remove_key_rows`: unbind_key,
the last use of a key, terminate_uuid, retire_stale_keybox_bound_entries,
unbind_auth_bound_keys_for_user and the LSKF reset.

### Watchdog

The thread keeps the mutex from waking up to waiting, so a round is one step.
Time does not pass while the thread is due, which says that it is scheduled
within a second; without that no statement about deadlines could hold. Arming a watch
point that is armed replaces its record, as the code does with a warning.

### KeyMintDevices

Threads walk through `shared_keymint_wrapper_inner` (look, lock the lifecycle, look
again, make, publish), through requests under the mutex of an instance, through
`early_boot_ended` (store the flag, then tell the instances there are) and through
`apply_runtime_config_update`, which takes the lifecycle lock, both instances and
the configuration. Making an instance may fail at several places; what was made is
then dropped.

### SecureDeletion

Each security level has a manager with a cache; all use one file. A save truncates
the file (`Truncate`) and then writes it (`Saved`), and the process may die in
between or the write may fail, after which the code restores its cache. Reading
decodes one buffer of the file, so a file that outgrew the buffer is seen cut off
(`Decoded`). A blob carries the factory secret, slot and secret it was encrypted
with, and decrypts if the manager has the same (`Decrypts`).

### PatchLevels

Dates are 10 * month + day, so that the rules that touch the day can be told apart.
The start of the daemon and the web UI's command are sequences of steps under the
operation lock, each of which may fail or be killed; a user edits the configuration
at any time and the watcher reloads it; `rest` stands for the fields of `[trust]` that
a reload does not apply, so that an edit of one of them keeps the whole table waiting
for a restart (`WaitsForRestart`). A write of the two properties that fails half-way is
rolled back, and each part of the rollback may fail (`PairWrite`). Network, partitions
and property service are the values they deliver. The boot key of the configuration is
`auto` or `random` from the start: a user who edits it asks for another key.

### KeyMintTa and KeyParameters

`KeyMintTa` has one request per step, as the code has (the instance is behind a
mutex). It keeps which blobs were handed out, which slots are in use, the operation
table with the token and presence state of each, the use counters of this boot, and
as history what each operation gave out. `KeyParameters` is a function from the
request for a key, and from the parameters of begin, to acceptance and the mode that
is built: the checks in `tag.rs` and `begin.rs` are sets and implications over small
records. An HMAC verification carries the range of lengths that begin made for it
(`TagLengths`, from the minimum of the key in bytes up to, and without, `digest_len` as
the code has it, in bits), and `FinishVerify` compares a signature of any length with it.

### AuthTokens and SuperKeys

In `AuthTokens` an operation is created in the steps of the code (authorize, begin,
finalize), and `addAuthToken` inserts in the table, takes the receiver out of the map
and gives it the token in three. Time is in half seconds so that rounding matters.
In `SuperKeys` a method of the manager is one step, as it runs under one lock; the
two halves of a lock notification, and super-encryption and storing of a blob, are
two. A key blob in use keeps its super key alive, which `lookup_key` then still
finds. `Serial` says that notifications come one at a time, as they do from
system_server.

### SoterIdentities

The web UI changes `identities.json` and the ledgers, the broker answers calls from
them; both hold the lock of the directory. An answer is one step (`Answer`): under the
lock it reads the configuration and the ledger, applies the CPU-ID of the caller, runs
the transaction and writes the ledger, and only then does the answer leave. A change
that touches two files is two steps, and its process may die between them
(`ChangeStops`). The bridge (`forward`, `Receive`, `GiveUp`) sends one call at a time;
what it refuses changes nothing and is no step. After a restart of SoterServer the
broker of the old process may still answer (`requests` outlive `hosts`). A key carries
the CPU-ID it was generated under, which the code does not keep, so that
`KeysFollowCpu` can speak about it.

Two things the model shows as the code has them. `removeAllUidKey` removes the
caller's entry, so that its counter starts again at 1, although the text
(`src/soter-ta/src/state.rs:91`) calls it "strictly increasing per uid on the wire":
`CountersUnique` is about a key and its counter. And the broker passes
`Platform::default()`, in which there is no fingerprint mark: `finishSign` answers -26
every time, so that sessions stay until the caller's keys are removed or its CPU-ID
changes, and the 512 of a ledger are shared by its callers.

### SyntheticOperations, PendingReplies and BinderFds

The injector runs inside another process and answers requests there. The driver and
libbinder are modelled from how the hooks use them and marked external.

`SyntheticOperations`: an operation is its generation; its address may be that of an
earlier one. The reply goes from `built` over `installed` and `sent` or `lost` to
`done`, in parallel with the driver's node (`queued`, `delivered` in a read buffer,
`observed` by the hook, `held` by libbinder, `gone`) and with the probe that asks the
driver for the node. `Drop`, `Retire` and `Destroy` are the three ends of an
operation. Time is left out: every probe may be due.

`PendingReplies`: one thread. `host` and `wait` are what libbinder is doing, `kstack`
and `todo` what the driver knows of the thread, the rest are the hook's books. A
write holds at most one transaction or reply, its last command, because libbinder
flushes after each. What a request's kind is (passed on, mirrored, answered here)
is a constant: the rules that decide it are about parcels. Inbound requests are
synchronous: a one-way request pushes no frame, is not answered and owes no result
(`src/injector/src/hook/rewrite/request.rs:92`, `intercept/ioctl/read.rs:72`), so it is
left out.

`BinderFds`: `close` and `dup` run under the registry lock, and what they owe
(`forget`) after it; an ioctl looks its connection up (`token`), begins under the
lock, and ends. A `close` that fails takes the registry entry with it all the same.
When the driver answers EBADF to an ioctl, the hook takes the descriptor's entry out
while the call is still counted (`Invalidate`), and retires the connection if no other
descriptor has it. What each thread remembers of a descriptor from its last call is
left out, so that any call may fail with the one EBADF this causes.

## Runs

| Run | Instance | Shows |
|---|---|---|
| `algorithms` | every list of up to three operations of two owners, ages around the steps of the malus; all combinations of key requests and begin parameters listed in `MCAlgorithms` | `FoldFindsCandidate`: the loops find the declared candidate; `NoPruningBack`: no ping-pong; `BeginSound`: what begin accepts can be built, with the right half of a Curve25519 key, and a tag that an HMAC key signs is not refused for its length when it verifies |
| `operations` | three operations of two owners and a wrapped import, a key with two uses and one with one use whose blob is encrypted again, one TA slot, one operation with a token per call | `ReservationsCounted`, `NoOversubscription`, `UsageLimitKept`, `NoReservationLeak`; `SlotsAccountedFor`, `PruneHitsScored`, `CallsOnActiveOnly`, `OutcomeOnce` |
| `database_guards` | two clients, two aliases, a grantee, a key under ECDH encryption and a certificate-only key | `NamesResolve`: one live key per alias and no grant without its key; `GuardedIsLatest`: the blob loaded under a guard stays the latest |
| `database_restart` | a key with two blobs and a certificate-only key, three rows, one restart, under fairness | `LiveUsable`, `DeletedWereTried`, `Collected` |
| `daemon_threads` | two notifications, a sync, a step that requeues and up to four workers; two watch points; four threads on two KeyMint instances; three clients of two owners with two TA slots, two of them on one key, with no bound on what they do; under fairness | `SyncSound`, `ImplementsQueue` (refinement of `JobQueue` with its liveness), `OverdueReported`, `EarlyBootOver`, `CallsReturn`; `GuardReleased`: a thread keeps its key id guard for ever only if other clients are served for ever |
| `keymint_state` | four slots of which a read sees two; two builds, four edits, two web UI requests, a boot key that is found or drawn; three kinds of keys, two operations | `DeletedStaysDeleted`, `KeysSurvive`, `InstancesFollowRuntime`, `DefaultsKept`, `BootKeyStable`, `OutputsSound`, `SlotsOwned` |
| `authorization` | two keys, two operations, two tokens; one user with two passwords and a biometric, two keys; one SOTER caller of two packages, two identities, one override, two changes, three calls, two processes | `WaitingIsReachable`, `TokenFits`, `BlobsRecoverable`, `LockHolds`, `RoutedHasMaterial`, `AnswersSound` |
| `injector` | two operations at two addresses with one publication allowed, under fairness; three nested requests and three calls of a thread; two threads on two descriptors and two files | `ObjectsReachable`, `CleanedUp`, `RepliesMatch`, `BooksBalance`, `ConnectionsSound` |

Four runs show where the code does not do what its text says; `PROJECT.json` quotes
the lines:

| Run | The text | The code |
|---|---|---|
| `hmac_verify_length` | begin remembers the acceptable tag lengths; a MAC is not longer than the digest | the upper end is the digest length in bits and is compared with bytes: a signature longer than the tag passes the check of its length, and the tag is sliced past its end |
| `ta_slot_leak` | giving up an Operation ends its KeyMint operation | after a failed auth check in the TA the operation stays there |
| `reencrypt_deletes_slot` | a live key is usable | re-encryption stores the same blob; collecting the old row deletes the secure deletion slot of the new one |
| `sdd_shared_file` | the manager's data is a cache of the file | with two security levels each writes its own cache over the other's |

Other disagreements met on the way are in the models and have no run. The candidate
of last resort is a caller's own oldest operation, forced or not (`Pruning`).
Clearing a namespace leaves blobs Current until a later start (`KeyDatabase`). The
watchdog's text (`src/watchdog/src/lib.rs:247`) says that overdue watch points are
reported at least every second, while the back-off goes up to 30 seconds; and a round
that is too soon sets `last_report` to `None` (line 134), so that the next round
reports however soon it is. `DefaultsKept` leaves out a snapshot taken in a boot in
which a date edited by hand was written to the property with nothing saved, and
`BlobsRecoverable` a blob whose super key was dropped between the two halves of
`store_new_key`: each comment says so, because the code does not keep the property
there. `KeysSurvive` leaves out what a torn save lost, for which the code has no second
copy; of such saves `DeletedStaysDeleted` is what is kept. That `KeysSurvive` fails with
two instances is seen in `sdd_shared_file` only, since `keymint_state` has one.

Every property of a passing run has a mutant of the mapped code that breaks it;
they stand next to what they mutate (`Mut...`).

### Bounds, and why they are enough

- Three operations: one that is pruned, one that prunes, and one that takes the
  slot or prunes concurrently; with a single TA slot every begin after the first
  has to prune. Two uses of a key against two operations and an import make the last
  use contested, and a key with one use is used up by one. `MaxTouch` lets
  an update touch a candidate after it was scored, before or after another operation
  was created, and `MaxTime` lets an operation's age cross the first step of the malus;
  the other steps are for `algorithms`, and the theorems hold for every bound.
- One SOTER caller with three calls: make a key, export it, export it again or lose
  the answer; two changes take an override back and forth, or add an identity and use
  it; a second process calls after a timeout closed the channel of the first. Callers
  of one ledger meet only in its session and caller limits, which are not in this
  instance.
- Four workers: a worker, the one it hands the shelf to, and two more for the jobs
  that arrive after each exit; there are as many jobs as calls that can spawn.
- Two keys and three rows let ids be given out again, a key be rebound, and a
  batch hold more than one blob; `OrphanLimit` 1 leaves orphans for another start.
  `MaxOwed` bounds how many threads are between a commit and their notification;
  the boot and the start-up are not bounded by it.
- Two watch points: one that is overdue and one that wakes the thread. The
  timeouts are scaled down and keep their order.
- Four slots with a buffer of two let the file outgrow its buffer; five secrets are a
  factory secret and one for each slot, with a reset in between fewer.
- Two builds are one OTA; the edits are one of each intent (`auto`, a date, a single
  field, `latest`), the last of which also changes a field that waits for a restart.
  The boot key is the one that the property or the partition has or a random one,
  which differ: a start that finds the first may follow one that drew the second.
- Three clients in `BeginLoop`: one that loops, one it prunes and one that makes its
  candidate busy, takes its slot or prunes as well; with two TA slots one can leak and
  the others still meet. The lengths of signatures in `algorithms` and
  `hmac_verify_length` are those around the minimum and the lengths of the digests.
- Two TA operations can have each other's tokens presented and outlive the deletion or
  upgrade of their blob; one counted key makes the table of counters full. A begin that
  is refused changes nothing and is left out, so a full table needs no third handle.
- One user is enough for super keys, which are per user; six rows let each kind be
  made anew after a reset. Two passwords: the current one and one that is
  wrong, or was or will be the current one.
- Two generations at two addresses let an address be used again, and a limit of one
  publication refuse the second; three nested requests have one of each kind in the
  middle of the stack.

Symmetry is used for threads and keys of one kind, and never with liveness. The
deadlock check is off in the suites and `sdd_shared_file`, where the system may
stop: bounded inputs run out, and a suite's algorithm ends.

### Fairness

- `daemon_threads`: weak fairness of the worker, of a caller inside `spawn_thread`,
  of each thread inside a call of a KeyMint instance, and of each thread inside
  `create_operation` or a call on an operation; mutexes are held for finite critical
  sections only.
  In `BeginLoop` clients between calls are not fair: they may stop, or go on for ever,
  and nothing bounds how often they create, touch, finish and drop operations. So
  `GuardReleased` is progress of the system and not of each thread: a guard is kept for
  ever only if operations are created or updates answered for ever. The code gives no
  more: a pruner that always finds its candidate busy or replaced by other clients'
  work goes round again, with the guard held, as often as they do that.
- `database_restart`: weak fairness of the worker, of a thread that owes a
  notification, of the end of the boot and of the restart after a crash. Clients
  are not fair.
- `injector`: weak fairness of the threads that send a reply, return from an ioctl
  and take references, of the worker of the probes, and of the release and
  destruction of what nobody has. Strong fairness of the query: it may fail any
  number of times, but not for ever; the code tries again with a growing delay.
  The client owes nothing. A connection that is closed ends the obligation, since
  what libbinder had taken over is lost with it.

## Proofs

Each theorem is about a component's own specification, for every value of its
constants that satisfies the assumption named here; the runs evaluate the same
assumptions on their instances. The properties are seldom inductive by themselves:
each proof has an invariant that is, checked by TLC before it was proved, a lemma per
action or group of actions, and a last step that combines them.

| Theorems | Assumption | What is proved |
|---|---|---|
| `AlgorithmsProofs`: `LoopIsTheRule`, `NoOneIsPrunedBack` | `PruningAssumption`: times and the length of the list are naturals | `FoldFindsCandidate`, `NoPruningBack` |
| `AlgorithmsProofs`: `BegunCanWork` | `ParametersAssumption`: the fields of a request and of the parameters, lengths are naturals | `BeginSound` |
| `KeystoreOperationsProofs`: `TypeCorrect`, `ReservationsExact`, `NeverOversubscribed`, `LimitKept`, `NoLeak`, `NoSlotLeaked`, `PrunesScored`, `CallsActive`, `OutcomeFinal` | `OpsAssumption` | the properties of `operations` |
| `AsyncTaskProofs`: `SyncsSound`, `ShelfSurvives`, `RefinesQueues` | `AsyncAssumption` | `SyncSound`; what jobs leave on the shelf is there for the next worker; the safety part of the refinement of `JobQueue` |
| `DaemonProofs`: `EarlyBootEnds`, `UpdatesAlone`, `OneRequestAtATime` | `DevicesAssumption`: the watcher is a thread of its own | `EarlyBootOver`; a configuration is applied while no request runs and no instance is made; one request at a time per instance |
| `DaemonProofs`: `OverdueIsReported` | `WatchdogAssumption`: timeouts are positive, the shortest back-off is not longer than the longest | `OverdueReported` |
| `KeyDatabaseProofs`: `TypeCorrect`, `NamesSound`, `GuardsSound`, `NothingDroppedUntried`, `UnlockedKeysUsable`, `LiveKeysUsable` | `DbAssumption` | `NamesResolve`, `GuardedIsLatest`, `DeletedWereTried`; `LiveUsable` for keys that are never encrypted again |
| `KeyMintProofs`: `DeletionIsFinal`, `KeysAreKept` | `SddAssumption`: one instance | `DeletedStaysDeleted`, `KeysSurvive` |
| `KeyMintProofs`: `InstancesFollow`, `BootKeyNeverChanges`, `DefaultsAreKept` | none; `PatchAssumption`: random keys are not the markers of the configuration; `PatchAssumption` | `InstancesFollowRuntime`, `BootKeyStable`, `DefaultsKept` |
| `KeyMintProofs`: `OutputsAuthorized`, `NoSlotLost` | none | `OutputsSound`, `SlotsOwned` |
| `AuthorizationProofs`: `RoutingSound`, `BrokerSound` | `SoterAssumption` | `RoutedHasMaterial`, `AnswersSound` |
| `AuthorizationProofs`: `WaitersAreReachable`, `AuthorizedByFittingToken` | `TokensAssumption`: a timeout is a number or none | `WaitingIsReachable`, `TokenFits` |
| `AuthorizationProofs`: `LockIsKept`, `StoredKeysRecoverable` | none; `SuperAssumption`: each key has an owner | `LockHolds`, `BlobsRecoverable` |
| `InjectorProofs`: `ConnectionsAreSound` | `BinderAssumption`: finitely many threads | `ConnectionsSound` |
| `InjectorProofs`: `OperationsAreReachable` | `ObjectsAssumption`: a generation, an address is not 0 | `ObjectsReachable` |
| `InjectorProofs`: `RepliesAlwaysMatch`, `BooksAlwaysBalance` | `RepliesAssumption`: no request is one of the markers 0 and -1 | `RepliesMatch`, `BooksBalance` |

`SddAssumption` is what the code needs: with two instances the property fails, which
the run `sdd_shared_file` shows. In the same way `LiveKeysUsable` assumes that there
are no keys made on a locked device (`Locked = {}`), because `reencrypt_deletes_slot`
shows what happens to them; `UnlockedKeysUsable` has no such hypothesis and says the
rest about every other key. `SlotsAccountedFor`, and with it `NoSlotLeaked`, lets an
operation that is over keep its TA slot if it is authenticated per call or its key's
blob is encrypted again; `ta_slot_leak` shows the first exception, and
`ReencryptFails` is the other. One guard of `SuperKeys` is used: `store_new_key` works on
a row of its own, so that two clients never store the same key.

Why the properties hold:

- *The choice of the candidate.* `FoldLeft` is a recursive function on sets of
  positions. It is first shown to exist (`IterThere`), so that its value on `1..n` is the
  state of the loop after `n` rounds (`RoundByRound`). The loop invariant says that
  `best` is the weakest of the first `n` operations that the caller can prune, and
  `oldest` the oldest of its own, or that there is none (`BestOK`, `OldestOK`). Both
  inductions look for the first `n` that fails, since the library's induction rules
  cannot be instantiated. The rule is then stated by positions (`CandidatePositions`)
  and has one solution at most (`OneBest`). Nobody is pruned back because a new
  operation that is its owner's only one has the malus 1, and no caller is stronger
  than that.
- *Parameters.* The checks of begin rely on those of key creation for two things only
  (`KeyOK`): the shortest GCM tag of a key, and the type of a Curve25519 key with its
  purposes. The tags of an HMAC key verify because the range begins at the minimum that
  signing checks too, and ends past the digest; that it ends far past it is what
  `hmac_verify_length` shows, and no theorem claims the opposite.
- *Operations.* `HeldWhilePruning`, `HeldWasOpened`, `PruningMarked`: a strong
  reference of a pruner exists only in the last phases, is to an operation that was
  opened, and in `pruning` to one whose outcome is Pruned. `Indexed`, `StampsFresh`,
  `CandStamped`: an operation is in the slot its index names, stamps of last usage are
  unique and in the past, and a candidate's stamp was that of its operation; that is
  why comparing `last_usage` detects both a touch and the reuse of a slot.
  `ActiveBeforeEnd`, `ReservedLimited`, `ActiveReserved`, `EndReleased`: which
  operations own a reservation, by `pc` and outcome. With `ReservationsCounted` they
  tie the table to the threads, and with `NoOversubscription` each commit finds a use
  left. Counting steps rest on lemmas about the cardinality of a set with one element
  more or less. For the slots of the TA, two more parts: an operation has one pruner
  (`OnePruner`), so that the one that aborts it is the last to rely on the slot, and
  abort sets the outcome before it calls KeyMint (`AbortMarked`).
- *AsyncTask.* There is one worker at a time, the last one spawned (`OneWorker`,
  `StateKnows`, `SpawnLocked`); a high priority job that was queued is in its queue,
  performed or done (`QueuedKnown`), and what was queued before a sync is ahead of it
  (`BeforeAhead`). The refinement goes action by action: what changes neither queue nor
  the job in hand is a stutter of `JobQueue`.
- *KeyMint instances.* Whoever makes an instance or applies a configuration has the
  lifecycle lock (`LifecycleHeld`), the watcher has the mutex of each instance there is
  (`WatcherHolds`), and the end of early boot is told to the TEE before StrongBox
  (`TeeFirst`), under the lock that a maker of an instance needs to publish it.
- *Watchdog.* The thread never waits past its timeout (`InTime`), and each record is in
  one of four situations (`Awaited`): armed since the thread looked, when it is due at
  once; to come when it looked, so that the wait ends at its deadline; reported; or too
  soon to be reported at its deadline, which forgets the last report, so that the next
  round, one back-off later at most, reports it.
- *Key database.* The newest row of an entry is Current (`NewestCurrent`), a blob is in
  one row (`BlobsApart`), and a Current row's slot is there (`CurrentHasSlot`); what the
  collector holds is garbage that is still in its row (`CollectsGarbage`), although
  row ids are given out again, because a row whose id is in the batch is not deleted
  by anybody else.
- *Secure deletion data.* Secrets are drawn in order, so a slot that is used again has
  another secret (`SecretsDrawn`, `DeletedGone`); until a save is cut short, cache and
  file agree and hold what was handed out (`KeptInv`).
- *Patch levels.* A property that differs from the build's is backed by a snapshot of
  this build, or was written for a hand edit (`Unsaved`); the web UI's steps and the
  daemon's exclude each other by the lock (`WebStep`, `DaemonLocked`). A boot key that
  was served is the one that a new start would use (`WouldUse`), except where the
  configuration asks for a random one at every start.
- *TA.* Handles and slots are drawn in order (`HandlesDrawn`, `SlotsDrawn`), an
  operation carries its key's kind of authorization (`AuthFollowsKey`), and what it
  gave is recorded for its own key (`OutputsOfOwnKey`).
- *SOTER.* A listed identity has its material, and a half-done change holds back the
  other half (`HalfDone`). While the channel is open it carries the call of the one
  thread that waits, or its answer, and nothing else (`ChannelQuiet`, `ChannelOwn`). A
  key pair is in one ledger for one caller and its counter there is not behind any blob
  that left (`KeysApart`, `CounterAhead`).
- *Auth tokens.* What the deferred state of an operation says about its key and token
  (`Fits`), and that a receiver, in the map or taken out of it, is of an operation that
  waits or waited for a token of its own (`ReceiversFit`).
- *Super keys.* What is in memory is the user's rows, the biometric copy included
  (`MemOK`), ids of rows are unique over users (`IdsUnique`); a blob that is stored,
  about to be stored or about to be written back is encrypted with a row of its owner,
  unless the rows went in between (`BlobSound`, `StoringSound`, `UsingSound`).
- *Binder connections.* The count of a connection is the cardinality of the set of
  threads inside it (`Counted`), the registry has it exactly until it is unused
  (`RegistryExact`), and all descriptors of a connection are one file (`OneFile`,
  `PinnedFile`, `TokenFile`).
- *Published operations.* An address has one living generation (`OneLives`), the maps
  have that one or none, and its publication goes with the initial reference
  (`MapsAlive`); this is why what is left over from an earlier object at the address
  finds nothing of its own to remove. The place of a reply, the driver's node, the
  publication and the probe each say how far the others are (`ReplyOK`, `NodeOK`,
  `PubOK`, `ProbeOK`): a publication is finished only when the node is held, a probe
  that found no node stays right because a node never comes back.
- *Replies.* A thread on a connection in use is in one of nine situations
  (`Situation`): at rest, at work, with a command to write, or with the result of one
  to read. Requests and calls alternate on libbinder's stack, so that frame `j` is the
  request at depth `2j - 1` and the call above it is entry `j` of `sync` (`Depths`,
  `Deep`). One result at most is owed, first in the driver's queue, and it is the one
  the hook waits for (`Result`); requests of a call are delivered behind it. Only the
  newest frame can be claimed, and then its reply is prepared (`FrameOK`,
  `PreparedOK`); hence the newest frame that is not claimed is that of the request
  being served, also when its command is written again. The buffers owed to the driver
  are of requests that are served, unread or about to be freed (`Buffers`).

Only model-checked:

- liveness, since fairness is out of the prover's reach: `GuardReleased`, `Collected`,
  `CallsReturn`, `CleanedUp` and the liveness of `JobQueue`.

All other properties of the passing runs are proved.

## Not modelled

About nine tenths of the tree have no state worth a model, and the share of lines the
map covers stays far below a third for that reason:

- cryptography, key blob formats, CBOR and ASN.1, certificates and attestation
  (`boringssl/`, `common/`, `ta/src/cert.rs`, `ta/src/rkp.rs`), wire types and derive
  macros: sequential computation on data a model would have to abstract away;
- the binder interfaces, parcels and conversions of the services, of the injector
  (which requests it takes, what it puts in a reply) and of `keymint_device.rs`;
- keybox and configuration parsing, device identity, the emulated properties and the
  spoofing helpers (`pif-spoof/`, `keybox.rs`, `config.rs`, `webui_http.rs`,
  `gms_cache.rs`): files and text in one thread;
- remote provisioning: one request at a time, about encodings;
- permissions, SELinux, metrics and the audit log: no decision depends on their state;
- the injection itself (ptrace, remote calls, unwinding): machine code of another
  process, and the repetition of copies after memory faults in the hooks;
- tests, generated AIDL code and build scripts.

The models are sequentially consistent: races of relaxed atomics are not in them.
Boot level keys, the local verification of auth tokens and the choice of secure clock,
the scopes of the SOTER hook in SoterServer and the migration of keys between
implementations have state and are next in the plan.

## Plan

1. *Done:* operations, pruning and reservations with proofs; background worker and
   its abstract queue; database and collector; watchdog.
2. *Done:* authorization, super keys and lock state; TA keys and operations and the
   rules for parameters; secure deletion data; patch levels; KeyMint instances; the
   injector's operations, replies and descriptors; the SOTER identities.
3. *Done:* proofs of the safety properties of `AsyncTask` with its refinement,
   `KeyMintDevices`, `KeyDatabase`, `SecureDeletion`, `PatchLevels`, `KeyMintTa`,
   `SoterIdentities`, `AuthTokens`, `SuperKeys`, `BinderFds`,
   `SyntheticOperations`, `PendingReplies` and `Watchdog`; of the loop of `prune`, and
   of `KeyParameters`.
4. `KeyDatabase`: split creation in KeyMint from storing, add failing transactions, and
   an abstract key store it implements.
5. `BootKeys` (the key of a boot level only moves forward), `TokenVerifier` (which
   clock and HMAC key a token is verified with), the SOTER hook, and the composition
   of `KeystoreOperations` with `KeyMintTa`, whose operation table is its `km`.
