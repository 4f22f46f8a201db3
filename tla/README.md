# TLA+ models of ayuna-pykit

ayuna-pykit is a Python monorepo of four packages: `core` (executors, async
helpers, JSON-RPC, logging, settings, file operations), `secrets` (a local vault and
three cloud ones), `dostore` (object stores) and `creds` (cloud credentials). Most
of its lines are sequential wrappers. What is hard about it is concentrated in a few places
where threads, an event loop, several processes or a remote service meet; these are what
the modules here model, check with TLC and, as far as it goes, prove with TLAPS.

Paths below are relative to the repository, without the leading `src/`.

## 1. Inventory

| Component | State | Operations | Interacts with | What is hard | What makes it correct |
|---|---|---|---|---|---|
| `AioThreadPoolExecutor` (`core/ayuna_core/utils/aiotpool.py`) | work queue, futures, `_idle_semaphore`, `_threads`, `_shutdown`, `_broken`, the module's `_shutdown` and `_threads_queues` | `submit`, `_adjust_thread_count`, `_worker`, `_initializer_failed`, `shutdown`, `weakref_cb`, `_python_exit` | the clients' threads, the garbage collector, the interpreter's exit | None as a wake-up in the same queue as the work; workers that take no lock; three ways to end | no item lost, run twice or left behind a wake-up; futures decided once; shutdown and exit end |
| `gather_awaitables`, `gather_coroutines` (`core/ayuna_core/basefuncs.py`) | a waiter, a counter, a timer, the callbacks of the tasks | one call of either; `completion_cb`, `_release_waiter`, `_finalize_awaitables`; what `asyncio.wait` does for the second | the event loop, the JSON-RPC dispatcher | callbacks, timeout and cancellation all release one waiter | released once; what was waited for is reported; nothing runs on unnoticed |
| JSON-RPC dispatcher (`core/ayuna_core/jsonrpc`) | the registry, and per call the batch, `awaitables`, `results` | `process_rpc`, `_dispatch_single`, `_prepared_response` | `gather_awaitables`, the registered methods | one bad item among good ones, shared ids, notifications | one response for each request that wants one |
| `AsyncPubSyncSub`, `SyncPubAsyncSub` (`core/ayuna_core/utils/aioqueue.py`) | a two-sided queue, `__is_consuming` | `publish`, `run`, `close` | the loop's one thread, an executor | synchronous calls that wait on the loop's thread | one consumer; a closed bridge is drained; close returns |
| `LocalSecrets` (`secrets/ayuna_secrets/local.py`) | `_secrets`, `_fernet`, `_pbkdf2_salt`, the YAML file | `_load_secrets`, `store_secret`, `delete_secret`, `_save_secrets` | other processes on the same file, the file system | a save empties the file first; memory changes before the file | a save is read back; encrypted values stay decipherable |
| `AWSSecrets`, `GCPSecrets`, `AzureSecrets` (`secrets/ayuna_secrets`) | `_secrets_cache`, a copy of the remote JSON document (AWS, GCP) | retrieve, store, delete, list | the remote service, other processes on the same document | a stale copy written back; the copy changed before the document; check-then-set | no store overwrites unasked what the session has seen; a change reaches no other secret unless the copy was stale |
| Object stores (`dostore/ayuna_dostore`) | `_thread_executor` (the standard library's pool), Azure's lazily made clients, the objects of a bucket or directory | get, put, delete, exists, count, close | the loop, the pool's threads, the remote service | check before write in a thread; a cancelled caller whose thread goes on; concurrent first use; close() that blocks the loop | nothing overwritten unasked; what was reported written is there; closed means quiet |
| Multi-process logging (`core/ayuna_core/logging`) | `__mproc_ctx`, the queue, the listener process | `ayuna_app_init`, `start`, `_monitor`, `handle`, `emit`, `stop` | child processes, signals, `atexit` | the sentinel crosses a pickling queue; a full queue; an interrupt in the listener | records keep their order, none that the queue took is lost unnoticed; stop returns |
| `SingletonMeta`, `RiSingletonMeta` (`core/ayuna_core/basetypes.py`) | `__instances`, one lock per metaclass for all its classes | the call of a class | threads, constructors that call others, `Telemetry` | nested construction; constructors that raise; re-initialisation outside the lock | one instance; a call returns its own settings whole; every call returns |
| Case conversion (`core/ayuna_core/utils/strconv.py`) | a buffer shared by a loop and its markers | the eight conversions | | markers that read ahead; special paths for upper-case texts and for ends | no letter lost, repeated or moved; a converted text is left alone |
| Scans of directories (`core/ayuna_core/fileops.py`) | the lists or the generators of one scan | `recursive_dir_content`, `file_paths_from_dir`, `dir_paths_from_dir`, `total_files_in_dir` | other processes that change the tree | a loop over a list that it extends; a directory gone before it is opened | what was there all the time is found |
| Other file operations, base functions, settings, credentials, dates, archives, digests, tokens | little or none | sequential functions | | check-then-act in `fileops.py` (see the object stores) | results of pure functions |

`PROJECT.json` lists every hazard of this code that was found at its line, with the
property that watches it or the reason why there is none.

## 2. What is modelled

### `AioThreadPool`, `Executor`, `MCAioThreadPool`, and their proofs

`AioThreadPool` is the executor with its worker threads, the threads that submit and shut
down, the garbage collector and the interpreter's exit. A step is one operation on
something shared: a `get` or `put`, a transition of a future, a semaphore operation, a
flag, the entry of a critical section. `submit` is two steps (`SubmitPut`: the
locks, the refusals, the put; `AdjustThreadCount`: the semaphore or a new thread, the
locks released), because workers take the item between the two. `_shutdown_lock` is
`lock`; what runs under `_global_shutdown_lock` alone is a step of its own.

| State | Code |
|---|---|
| `queue` | `_work_queue`, items and `None` (`WakeUp`) |
| `future` | the state of each `concurrent.futures.Future`; `BROKEN` is FINISHED with `BrokenThreadPool` |
| `idle` | `_idle_semaphore` |
| `worker`, `held` | the position of each thread in `_worker`, and `work_item`; `unborn` until started |
| `shut`, `broken`, `collected` | `_shutdown`, `_broken`, the weak reference is dead |
| `caller`, `wait` | the calls of `shutdown` |
| `unstarted` | the items whose `submit` raised because `t.start()` did; the code keeps no such set |
| `interp` | the exit: main thread ended, `_python_exit` raised the flag, woke the threads, joined them |

A worker's step reads `executor_reference()` and acts on it at once: `Release`,
`Check`. `Collect` cannot happen while a call is under way or while a worker holds the
reference (`failed`, `drain`, `notify`). `_threads` is the set of the threads ever started,
as in the code, where none is ever removed. `Faults` selects what the surroundings
do wrong: a client cancels futures, an initializer raises, a coroutine raises a
`BaseException`, `t.start()` raises inside `submit` (`ThreadStartRaises`), whose item then stays
in the queue.

`Executor` is what the pool promises, with no threads and no queue: work is accepted
while it is open, a future is decided once, `shutdown(wait=True)` returns after the
last. `KeepsPromise` says that the pool implements it under the mapping
`open <- ~(shut \/ broken \/ Exiting)`, `returned <-` the waiting calls that are back.

### `GatherAwaitables`

One call of `gather_awaitables` or `gather_coroutines` (`function`) on one event loop. `ready` is the loop's queue of ready handles: the callback of
a task that ended, the timer, the wake-up of the caller. The loop runs the head
(`CompletionCallback`, `ReleaseWaiter`, `Finalize`); tasks end, time passes and the caller
is cancelled between any two handles. A timer's handle that is cancelled after it became
ready is not run, as in asyncio. The second function leaves the waiting to `asyncio.wait`,
whose callbacks, counter and timer are the same; the two part where the caller is cancelled:
`gather_awaitables` swallows it and reports (`Finalize`), `gather_coroutines` is left by the
exception while its tasks run on (`WaitCancelled`).

### `JsonRpcDispatcher`

`process_rpc` over `GatherAwaitables`, whose variables it shares and whose actions it
calls: some of the keys of the gathering are the request ids (`Ids`). A behaviour is either one
of `process_rpc`, or (`phase = "direct"`) one of a caller that uses the two functions itself,
with any keys, conditions and timeouts. Empty and single payloads are answered
directly; a batch is read item by item, with nothing else running, since the loop
of the code has no `await`. An item is a request (method known or not, with an id or a
notification), something the model of a request rejects, or something that is no mapping.
`spare` follows the tasks nobody awaits: notifications, calls whose id was used again,
calls of a batch that raised. A method ends with a result, raises (which `rpc.discover` may, the
only one that is not wrapped) or is cancelled; both of the latter become an error response.
`RespondRaises` and `SingleRaises` stand for a result that
cannot be written as JSON and for a cancellation that is not caught.

### `PubSubBridge`

Both classes; `direction` says which one a behaviour is about. `loop` is who holds the
thread of the event loop. A coroutine holds it until it awaits; a synchronous
`get`, `put` or `join` that has to wait holds it while it waits. `unfinished` is the
queue's count for `join`. The janus queue itself is external.

### `BaseSecrets`, `LocalVault`, `CloudVault`, `Secrets`

`BaseSecrets` has the keys, the processes (`Sessions`) and `typid`, from which `create` picks
the class; `Secrets` puts the classes together, one per behaviour.

`LocalVault` is processes on one YAML file. Opening reads the file once; a change is made
in memory, then `open(path, "w")` empties the file (`Truncate`) and the dump fills it
(`Dump`). Cryptography is the pair of a value and the key it is under; a key is a
password with the salt it was derived with. An empty file is an empty vault, as
`yaml.safe_load(file) or {}` has it. A second dump on a file that another session filled
in the meantime may garble it. A dump that fails, or that a crash interrupts, leaves what it
had written (`Cut`): nothing, text that is refused, or some of the entries with or without the salt,
which open as a vault. `writer` and `synced` remember whose save was the last
and whether it succeeded undisturbed.

`CloudVault` is the other three, with each request to the service a step of its own. AWS and
GCP read the document once (`Fetch`), change their copy (`StoreInCache`, `DeleteInCache`) and
write all of it (`Update`); the copy keeps the change when the update fails. Azure asks
(`Check`) and changes (`SetSecret`) in two requests, takes an empty string for no secret, and
keeps a deleted name occupied until it is purged (`Deleted`). `missed` are the sessions whose
copy may differ from the document, `held` the keys that have held a secret ever since
the session last looked; both are history that only the properties read.

### `BaseDoStore`, `PooledStores`, `AzureBlobStore`, `DoStore`

`BaseDoStore` has what the four stores share: the objects (`bucket`), the calls with their
requests and positions (`call`, `pc`), the queue of the pool, and `close`, which holds the
loop's thread (`executor = "draining"`) until the threads are done. `PooledStores` is the
local, S3 and Google stores: a call queues its work, a thread checks and writes, the loop
delivers the result. A local write is `OpenFile`, which empties the file, then `FillFile`;
two writers can garble the file, and a file deleted while it is open is written in vain
(`FillOrphan`). `AzureBlobStore` has no threads: `_ensure_initialized` and `close`
interleave at their awaits, over the attributes `service`, `container` and `initialized`;
`clients` are the service clients that are open. `DoStore` puts them together; `kind` says
which class `create` made.

A cancelled caller is back at once, unless a thread or the service has the request: then the
call is `deserted` and goes on. Of results only `written` is kept, the puts that
report success. `kept` and `rivals` are history: puts without overwrite whose key has held an
object since they began, and for each put the other changes of its key that overlapped or
followed it, those of deserted calls included. `astray` are the initialisations that failed to
make the container, were cancelled, were overtaken by another, met a `close` or began after
one; the code leaks the clients of these.

### `MprocLogging`

The main process, workers that log, and the listener process, over one process queue: `slots`
is its semaphore, `buffer` what each process has put, `pipe` what its feeder thread has
written. Feeding pickles: what arrives is a copy (`copy`), which is why `_monitor` never
recognises its sentinel, compared by identity. `Emit` drops a record that cannot be pickled or
meets a full queue. A worker that ends flushes its buffer, one that is killed loses it, and if
its feeder was writing into the pipe, the pipe's lock is never released (`jammed`): nothing
is fed any more, by anybody.
An interrupt makes the listener put a sentinel itself. `accepted`, `handled` and `lost`
follow the records that a handler is waiting for.

### `Singletons`

Threads with stacks of calls, since constructors call other classes (`makes`). Looking without
the lock (`Look`), taking it and looking again (`LookAgain`), the two halves of `__init__`
(`Construct`, `Constructed`, which publishes and releases) and the return are steps. The locks
are not re-entrant. A class of `RiSingletonMeta` that is there already is initialised again
without the lock (`Found`). A raising constructor unwinds the thread's whole stack.

### `CaseConverter`, `DirScan`, `Utilities`

`CaseConverter` has the preparation of a text, the markers and the loop as operators, over
seven characters that stand for their kinds; a behaviour converts a text, and what comes out of
it once more. `DirScan` has the four scans as a stack of open directories over a tree, of which
another process removes or makes entries between any two steps. Its trees have any size; `SmallScan`
of `Utilities` bounds those that TLC scans. `Utilities` puts these two
and `Singletons` side by side, one per behaviour: they share nothing.

## 3. Runs

All runs set `CHECK_DEADLOCK FALSE`: each of these systems may stop, its clients having
nothing more to do or, in some, having deadlocked; the properties say which stops are wrong.

| Run | Shows | Bounds |
|---|---|---|
| `pool_faults` | safety of the pool under all faults | 4 items, 2 threads, 2 shutdowns, symmetric. Four items let a thread be reused while one waits and another is refused; two threads hand a wake-up on; two shutdowns drain each other's wake-up |
| `pool_fair` | refinement of `Executor` and liveness, futures cancelled | 2 items, 2 threads, 2 shutdowns, daemon threads |
| `pool_drain` | **violation**: the drain of a broken pool swallows the wake-up of `shutdown` | 2 items, 2 threads, 1 shutdown |
| `rpc` | responses of every payload; direct calls of both gathering functions, safety and termination | 3 keys of which 2 are ids, batches of up to 3 items: shared ids, and a bad item before, between and after good ones; direct calls of up to 3 tasks, all three conditions, with and without timeout, any subset done before |
| `bridge` | both bridges, with cancellation and a published `None` | 3 messages in a queue of 2, two calls of `run` |
| `bridge_close` | **violation**: `close` while `run` consumes never returns | 1 message, 1 run |
| `secrets` | each kind of secret store, with crashes and failures that leave part of a file, and refused requests | 2 keys, 1 value, 2 processes, 1 password and 1 raw key, 4 salts (`Open` waits for an unused one). Two keys show a change reach another secret, two processes a stale copy |
| `vault_salt` | **violation**: a session without password drops the salt | 2 processes, 1 password |
| `dostore` | objects, pool and clients of each kind of store, through cancelled callers, puts that race and lost answers | 1 key, 3 calls, 2 threads. Two calls can meet in every pair of places, with a third to cancel, delete or close between; calls are numbered in the order they begin, which loses nothing |
| `logging` | order and delivery of records, with kills (also of a feeder in the middle of a write), interrupts and raising handlers | main process and 1 worker, 2 records each, a queue of 2 slots, which fills |
| `log_stop` | **violation**: `stop` joins a listener that never recognises its sentinel | main process and 1 worker, 1 record each, no fault |
| `utilities` | one instance, whole settings and returning calls; every conversion of every text; every scan of every tree | 2 threads, 4 classes (2 of each metaclass), 1 outer call each, constructors that nest one deep; texts of up to 4 characters, converted twice; trees of 3 entries (three levels deep, where a listing repeats itself) with 1 change |

Each property of a passing run has a mutant: a plausible bug in the named definition, for
which TLC finds that property violated under the run's own bounds.

### Fairness

- Pool: weak fairness of every thread's next step, of a submit that holds the lock, of a
  shutdown under way and of the exit. The operating system schedules threads, and
  coroutines are assumed to end. Nobody has to submit, cancel, shut down or drop
  the executor. `Get` is a blocking read, so weak fairness of it asks only that a
  thread that waits at a queue that stays non-empty is served; with several readers
  the one that loses is served from what the other leaves behind.
- Gathering: the loop runs its ready handles, and timers expire. Tasks awaited directly need
  not end: `Returns`, a part of `Settles`, is conditional on a timeout, a cancellation or the end
  of the tasks.
- Dispatcher: in addition methods end, without which a batch has no reason to be answered:
  `process_rpc` sets no timeout.
- Object stores: threads run, services answer or fail, and the loop goes on when its thread
  is free. Nobody has to call or to cancel.
- Bridges: a `run` that can go on does, consumers end, `close` goes on when it can.
- Logging: the listener, the feeder threads and a `join` that can return go on. Nobody has to
  log, start or stop.
- Singletons: each thread's call goes on when it can; constructors end or raise. The locks are
  asked for with weak fairness only: each thread makes finitely many calls.

### Disagreements between code and documentation

The four violation runs are the `findings` of `PROJECT.json`, each with the sentence of
the repository it contradicts. Two more disagreements are in the models without a run of their own:

- In a batch, a notification of an unknown method fails the assertion at
  `core/ayuna_core/jsonrpc/dispatcher.py:458` (`ReadUnknown`, phase `asserted`).
- An idle pool of threads that are not daemons holds up the exit of the interpreter:
  `_python_exit` is registered with `atexit` (`core/ayuna_core/utils/aiotpool.py:69`), whose
  functions run after the interpreter has joined those threads (`Daemon = FALSE`, `PythonExitFlag`). It can be seen with a script that submits one
  coroutine from the main thread, waits for its result and returns without `shutdown`.

## 4. What is proved

For every value of the constants that their assumptions allow:

| Theorem | Module | States |
|---|---|---|
| `Typing` | `AioThreadPoolProofs` | `TypeOK` |
| `WakeUpsStayLast` | `AioThreadPoolProofs` | no item is queued behind a wake-up |
| `WorkersLeaveNoWork` | `AioThreadPoolProofs` | once a thread has taken a wake-up the queue holds no item |
| `WakeUpsMeanLeaving` | `AioThreadPoolProofs` | a wake-up exists only when the pool is closed for good |
| `ItemsHaveOnePlace` | `AioThreadPoolProofs` | `PendingHasOnePlace`: no item is lost or in two places |
| `FuturesDecidedOnce` | `AioThreadPoolProofs` | `DecidedOnce`, an action property |
| `IdleThreadsAreIdle` | `AioThreadPoolProofs` | `IdleCountExact` |
| `PoolKeepsPromise` | `AioThreadPoolProofs` | `KeepsPromise`: the pool implements `Executor` |
| `OneConsumerAtATime`, `UnfinishedIsExact`, `ClosedBridgeIsDrained` | `PubSubBridgeProofs` | `OneConsumer`, `UnfinishedExact`, `ClosedMeansDrained` |
| `CallerWokenOnce`, `CallerGetsWhatItWaitsFor`, `CallerLeavesNothingRunning` | `JsonRpcDispatcherProofs` | `WokenOnce`, `WaitForKept`, `NothingLeftRunning`, of direct calls and of those of `process_rpc` |
| `DispatcherTyped`, `RequestsAnswered`, `NotificationsUnanswered`, `CallsAwaited` | `JsonRpcDispatcherProofs` | `TypeOK`, `EveryRequestAnswered`, `NotificationsSilent`, `WaitsForEveryCall`, of payloads of any length |
| `SecretsTyped` | `SecretsProofs` | `TypeOK` |
| `SavesReadBack`, `VaultReopens` | `SecretsProofs` | `SavedIsReadBack`, `Reopens`, of the local vault |
| `ExistingKept`, `OthersKept` | `SecretsProofs` | `KeepsExistingSecret` and the action property `OthersUntouched`, of the cloud stores |
| `RecordsInOrder` | `MprocLoggingProofs` | `InOrder` |
| `RecordsAccounted` | `MprocLoggingProofs` | no record that the queue took disappears: the safety part of `EveryRecordHandled`, with every fault |
| `OneInstanceOnly`, `ReconfiguredInFull` | `SingletonsProofs` | `OneInstance`, `ReconfiguredWhole` |
| `ScansComplete` | `DirScanProofs` | `ScanComplete`, in trees of any size that change any number of times |
| `WakeUpsReachEveryThread`, `JoinsEnd`, `PendingItemsAreServed` | `AioThreadPoolProofs` | no wake-up is swallowed, no join waits for threads that all wait, no pending item is stranded |
| `CallersAreWoken`, `GatheringGoesOn` | `JsonRpcDispatcherProofs` | the safety cores of `Returns` and `Settles` |
| `NobodyWaitsInACircle`, `SomeCallGoesOn` | `SingletonsProofs` | the safety core of `CallsReturn` |
| `ConsumersGoOn` | `PubSubBridgeProofs` | the safety core of `QueuedIsConsumed` |
| `LostLoopStaysLost` | `PubSubBridgeProofs` | an action property: a loop that is held by a call that waits for it is lost for good |
| `RecordsAreMovedOn` | `MprocLoggingProofs` | the safety core of `EveryRecordHandled` |
| `SentinelEndsNothing` | `MprocLoggingProofs` | an action property: a join of `stop` lasts as long as the listener lives |
| `QueuedWorkIsTaken` | `DoStoreProofs` | what waits for a thread is in the queue, once, and what is there is work for a thread, never a `close` that would wait for itself |
| `DrainNeedsNoLoop` | `DoStoreProofs` | an action property: while `close` holds the loop each step is one of a thread or the service, brings a call nearer its end or takes from the queue, or ends the drain |
| `CallsGoOn` | `DoStoreProofs` | while a call is under way something can be done: the safety core of `EveryCallAnswered` |
| `NothingOverwrittenUnasked` | `DoStoreProofs` | `KeepsExisting`, an action property |
| `WrittenStays`, `QuietOnceClosed`, `NoClientIsLeft` | `DoStoreProofs` | `WrittenIsThere`, `ClosedIsQuiet`, `NoClientLeaks` |

They use the assumptions on the constants stated in the modules and the library's facts on
finite sets, sequences and well-founded orders. No theorem is a liveness property, but several say
what the liveness rests on (**Nobody is left waiting**, below). What the theorems assume beyond that:

- `PoolKeepsPromise` assumes `Faults \subseteq {"cancel"}`: with a failing initializer or a
  coroutine that kills its thread a waiting shutdown may return while a future is left undecided,
  or never.
- `WakeUpsReachEveryThread` and `JoinsEnd` assume `"initializer" \notin Faults`: the thread whose
  initializer fails drains the queue and swallows the wake-ups with the items, which is what the run
  `pool_drain` finds.
- `PendingItemsAreServed` assumes `Faults \subseteq {"cancel", "start"}`: a thread that dies of a
  coroutine's `BaseException` may have been the one that would have come to an item.
- The two theorems on circles are about programs with `Ordered`, as `CallsReturn` is.

All others of the pool hold for any `Faults`. The names that the models give to actors and
messages are assumed to be distinct (`BridgeAssumption`, `LoggingAssumption`).

**Wake-ups.** None of `WakeUpsLast`, `LeavesNoWork` and `WakeUpMeansLeave` is inductive alone.
Their conjunction with `ShutdownFlags` (a call of `shutdown` past its first step has raised
`_shutdown`) and typing is: a submit appends an item only while the pool is open, hence, by
`WakeUpMeansLeave`, while there is no wake-up; a worker that takes a wake-up does so at the
head of a queue that, by `WakeUpsLast`, holds only wake-ups, so that it leaves no item;
closing is irrevocable, so that it stays so.

**Places.** `PlaceInv` adds where an item can be: an item that is queued has not been started
(`QueuePlaces`), one that is held is held by one thread in a position that fits its future
(`HandPlaces`), and a pending one is somewhere (`SomePlace`). Lemmas say how the ways to change
the queue move an item (`ItemMoves`, `HeadMoves`, `NothingMoves`); the action property
follows, since only the one place an item has can decide its future.

**The idle count.** `CountInv` generalises `IdleCountExact` to the moments when a submit is
between the put and the semaphore, where the sum is one too large (`Submitting`). A start that fails adds one for good: the
sum counts `unstarted`, which grows by one each time because an item is submitted once
(`StartedOnce`).

**The promise.** `PromiseInv` says what a returned shutdown relies on: only a call that was asked
to wait joins (`JoinWaits`), a running future is run by a thread (`RunningHeld`), the pool
cannot close while a submit holds the locks (`SubmitOpen`), no thread has failed or died
(`Alive`), and without threads nothing is idle or queued (`Staffed`). With it each step of the pool maps to a step of `Executor` or to a stutter.

**The bridges.** `FlagKept` explains why `__is_consuming` may be cleared under a consumer without
letting a second one in: `close` does so only after putting a break, and holds the loop until
the break is taken. With `HandsKept` (what each `run` holds) and `LoopKept` it gives `OneConsumer`,
and with it `UnfinishedExact` is inductive. `Traced` follows every published message to the queue,
a hand or the consumed ones, so that an exact count of zero means `Drained`.

**The gathering.** `Exact` says that `awt_counter` is the number of callbacks still to run (`Left`):
of tasks that have not ended, and of handles in the loop's queue. `Calls` and `Wakes` say that no
handle is there twice, and `Earned` that a waiter done before its timer has what it was asked for.
The invariant is proved over `JsonRpcDispatcher`, for which `AwaitsIds` says that what a batch
awaits are keys.

**The dispatcher.** The theorems on responses need to know what is there while a batch is read
and waited for. `Awaits`: the awaitables are the last calls of their ids, in the order in which
the dictionary has its keys (`order`). `Served`: each item that was read has its response or its
task. `Caused`: each response so far is that of a bad item or of an unknown method, and two
responses with one id are of two items. `Results` then adds one response for each awaitable, which
makes `Traced`: each id that was asked for has a response, and of two responses with one id each
has a request of its own. The count of null responses is carried along from the first item.
A response is pending only in a batch whose caller was cancelled, and then its call has ended or was told
to stop; this rests on the gathering's invariant, at the call `process_rpc` makes of it.

**Secret stores.** `VaultInv` says which key a session of the local vault has at each moment
(`Keyed`: that of its password and its salt), and what the last undisturbed save has left
(`SavedUnder`): entries under the key of the salt that the file holds, which is the one its writer
still has, also after it was closed and opened again. What an interrupted dump can leave is a file like any
other (`CutIsFile`) and breaks nothing, since no save counts then. `CloudInv` says where in a call a session can be
(`Placed`), that its copy has every secret it is counted as knowing, so that its check cannot let
a store through (`Holds`), and that a copy that misses nothing is the document but for the one
change about to be written (`Current`), from which `OthersUntouched` follows.

**The log.** `OrderInv` orders the stages a record passes: what is handled, in the listener's hands,
in the pipe and in the buffer of its process have numbers that rise in this order and inside each
stage. A stage hands on its first record only, and what is put back is a sentinel.
`AccountedInv` follows each accepted record through the same stages.

**Singletons.** Who makes an instance holds the lock of its class, there is no instance yet
(`MakersLock`), and a thread makes one of a metaclass at a time, the lock not being re-entrant
(`OneMaking`); who takes an instance for made is right (`FoundThere`), since none ever disappears. For `ReconfiguredWhole` it has to be said
what a call that is still alone can rely on (`Alone`): no other call of its class is in
`__init__`, and the settings it has made so far are there. A call that makes an instance is not
marked as found before (`NotYetFresh`).

**Scans.** `Covered` says that some set of directories has been read such that whatever was there
all the time in one of them is taken or ahead, and its directories are read, ahead or about to
be opened. When nothing is left to do, every directory that was there all the time has been read: the one
with the least number that has not would be in one that has (`AllRead`). What is taken was wanted when it was
taken (`Known`). A generator opens a directory once (`OnceEach`). `recursive_dir_content` does
not: a directory that a call below hands up is gone through again. `Levels` bounds the damage, level
by level of the calls: a list has only what lies under its directory, a directory's own directories
are gone through once, and what is in them is handed up then, so that nothing less than three levels
down is repeated.

**Object stores.** `DataStep` classifies every step by what it does to the objects: a call
begins, moves without writing, writes, or deletes. `DataInv` is preserved by the four kinds:
a put that meets an existing object never reaches a place where it would write (`KeptThere`).
Whatever changes the key of a put while it is under way, or after, is among its rivals
(`RivalsKnown`), and what the key holds once a put has said that it was written is its data or
left by one of them (`Settled`, with `FillShown` for files that are still open).
`PoolInv` ties the calls to the pool's queue: who is queued is in it, once (`QueuedOnce`), and
`PlacesFit` says which calls can be where. `ClientsClosed` follows Azure's clients: those that
are open are the store's own or went astray.

**Nobody is left waiting.** Each liveness property asks for fairness, which the prover does not
cover, and for a state in which something can be done, which it does. For each component that
state is an invariant:

- Pool: `Told` says that every thread has been told to leave (a wake-up was put for each, or handed on),
  and then each has ended or a wake-up is under way (`WakeUpUnderWay`: queued, in a thread's hands,
  or about to be put). Threads that leave hand it on, and nothing else takes it but the
  drain of a failed initializer. `Manned` says that as long as no thread has died, an item is queued
  without threads only while its `submit` is about to start one.
- Gathering: `Held` says that a caller whose waiter is done has its `Resume` scheduled, and that one
  whose waiter is pending still has callbacks to come (`Left`), while its timer has not fired and it
  has not been cancelled: whichever of these comes first releases the waiter.
- Singletons: `Nested` and `HeldToMake` say that a lock is held by a thread that makes an
  instance of that metaclass somewhere on its stack. With `Ordered`, a thread that waits while it holds
  waits for the second lock, whose holder waits for none.
- Object stores: `OneJoins` says that `close` is in the pool's shutdown only while the pool is shut
  and its loop is held by that call alone. What it waits for needs no loop: `DrainGoesForward` gives
  each place a `Stage`, and every step of a drain takes a call to a later one, removes one
  from the queue, or ends the drain. Since nothing new comes in, only finitely many such steps are left.
- Bridges: `LoopHeld` says who has the loop. A consumer can go on unless `Blocked`: a call on the loop's
  thread waits for what only the loop's thread would do. `LostLoopStaysLost` says that this is final,
  because neither a publication from another thread nor anything else changes it: it is
  for all constants what the run `bridge_close` shows for `close`.
- Logging: `CopiesOnly` says that the pipe holds only copies, so that the comparison by identity never
  ends the listener. This is why `stop` does not come back (`SentinelEndsNothing`, in general
  what the run `log_stop` shows), and why no record is stranded behind a sentinel either. The one place where a record can stay
  is a buffer, once a killed process has taken the pipe's lock with it (`InBuffer`).

Each property was checked by TLC on a small instance before it was proved.

Only model-checked: the step from these cores to liveness, which needs fairness and `ENABLED` and which the prover does not cover; `Converted`, which is about what a
fold over a text of any length computes, an induction over data that is out of the prover's reach; and,
by their nature, the four violations.

## 5. Plan

What would add most next, in this order:

1. The binding of parameters in `handler` of the dispatcher, as a pure operator with a reference.
2. The reserved key `_salt` and clear values that begin with `ENC:` in the local vault.

## 6. What is not modelled, and why

- The fork handlers of the pool: listed as a hazard.
- Work that asks for the loop from a thread of the object stores' pool: no store has any. Such work
  would deadlock with `close`.
- What the code gives no protection against is in the models and permitted by the properties.
  `PROJECT.json` lists these hazards without a property, with the reason: the exit of a pool of
  non-daemon threads, loops lost to a synchronous publish, lost updates of a vault or a cached
  document, Azure's check before the set, the orphaned tasks of a batch that raised or of a cancelled
  `gather_coroutines`, overlapping re-initialisations. For the others that happen in the models the properties
  bound the damage: `WrittenIsThere` says what racing puts may leave, `NoClientLeaks` which clients
  stay open, `EveryRecordHandled` which records a kill may cost.
- Data: payloads, secrets and results are model values; wording and layout are
  left out, and so are log formatters and filters, which keep no state. Parameter binding, the
  validators of the models and the OpenRPC document are pure functions.
- `list_secrets`, which reads what `retrieve_secret` reads; the reserved `_salt` key and
  clear values that begin with `ENC:`.
- The stores' constructors, counts and existence checks change no state that others see; bulk
  methods are one call after the other.
- Of `fileops.py`, what is a thin wrapper of one call of the file system; of `strconv.py`, the two
  helpers that are single substitutions.
- Credential providers are sequential chains of calls to cloud SDKs. Settings are read once at start-up.
  Dates, archives, digests, tokens and certificates are pure functions or single library calls,
  better tested than modelled.
