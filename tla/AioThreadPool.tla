--------------------------- MODULE AioThreadPool ---------------------------
(***************************************************************************)
(* AioThreadPoolExecutor (core/ayuna_core/utils/aiotpool.py): one executor,*)
(* its worker threads, the threads that submit to it and shut it down, the *)
(* garbage collector and the interpreter's exit.                           *)
(*                                                                         *)
(* A step is one operation on shared state: a queue get or put, a future's *)
(* transition, a semaphore operation, a critical section's entry.  What a  *)
(* thread does under _shutdown_lock is spread over several steps, because  *)
(* workers use the queue and the futures without taking the lock.          *)
(***************************************************************************)
EXTENDS Integers, Sequences, FiniteSets

CONSTANTS
  Items,     \* the coroutines submitted, each with its _WorkItem and its future
  Workers,   \* the threads the pool may start: max_workers of them
  Callers,   \* the calls of shutdown()
  WakeUp,    \* the None put in the work queue
  Nobody,    \* no holder of the lock, no item in a worker's hands
  Faults,    \* what the surroundings may do wrong
  Daemon     \* whether the workers are daemon threads, as their submitter was

PossibleFaults ==
  { "cancel",       \* a client cancels a future
    "initializer",  \* the initializer raises in some thread
    "escape",       \* a coroutine raises a BaseException, such as CancelledError
    "start" }       \* Thread.start() raises for want of threads

ASSUME ItemsAssumption == WakeUp \notin Items /\ IsFiniteSet(Items)
ASSUME WorkersAssumption == Workers # {} /\ IsFiniteSet(Workers)
ASSUME HoldersAssumption ==
  /\ Nobody \notin Items \cup Workers \cup Callers
  /\ Items \cap Workers = {} /\ Items \cap Callers = {} /\ Workers \cap Callers = {}
ASSUME FaultsAssumption == Faults \subseteq PossibleFaults /\ Daemon \in BOOLEAN

VARIABLES
  queue,      \* _work_queue: items and wake-ups, first in first out
  future,     \* the state of each item's future
  idle,       \* the value of _idle_semaphore
  worker,     \* where each thread is
  held,       \* the item a thread took from the queue
  lock,       \* who holds _shutdown_lock: an item (its submit), a worker, a caller
  shut,       \* executor._shutdown
  broken,     \* executor._broken
  collected,  \* the executor has been garbage collected
  caller,     \* where each call of shutdown() is
  wait,       \* the wait argument of each call of shutdown()
  interp,     \* how far the interpreter's exit is
  unstarted   \* the items whose submit() raised when it started a thread

vars == <<queue, future, idle, worker, held, lock, shut, broken, collected,
          caller, wait, interp, unstarted>>

\* The pool's own state, which the exit of the interpreter reads and wakes.
pool == <<future, idle, worker, held, lock, shut, broken, collected, caller, wait,
          unstarted>>

FutureStates == {"none", "refused", "PENDING", "RUNNING", "CANCELLED",
                 "CANCELLED_AND_NOTIFIED", "FINISHED", "BROKEN"}

WorkerStates == {"unborn", "init", "get", "taken", "run", "release", "check",
                 "notify", "failed", "drain", "left", "dead"}

CallerStates == {"out", "cancel", "wake", "join", "back"}

InterpStates == {"up", "finalizing", "flagged", "woken", "exited"}

Entries == Items \cup {WakeUp}

TypeOK ==
  /\ queue \in Seq(Entries)
  /\ future \in [Items -> FutureStates]
  /\ idle \in Nat
  /\ worker \in [Workers -> WorkerStates]
  /\ held \in [Workers -> Items \cup {Nobody}]
  /\ lock \in Items \cup Workers \cup Callers \cup {Nobody}
  /\ shut \in BOOLEAN /\ broken \in BOOLEAN /\ collected \in BOOLEAN
  /\ caller \in [Callers -> CallerStates]
  /\ wait \in [Callers -> BOOLEAN]
  /\ interp \in InterpStates
  /\ unstarted \subseteq Items

\* The module's _shutdown flag, which _python_exit sets.
Exiting == interp \in {"flagged", "woken", "exited"}

\* len(_threads) counts every thread ever started: none is removed.
Spawned == {w \in Workers : worker[w] # "unborn"}

Ended(w) == worker[w] \in {"left", "dead"}

\* The thread took a wake-up, and means to leave or has left.
Woken(w) == worker[w] \in {"check", "notify", "left"}

\* A worker that takes a wake-up leaves; no submit() succeeds any more.
Closed == Exiting \/ collected \/ shut

Queued(i) == \E k \in 1..Len(queue) : queue[k] = i

WakeUps(n) == [k \in 1..n |-> WakeUp]

-----------------------------------------------------------------------------
Init ==
  /\ queue = <<>>
  /\ future = [i \in Items |-> "none"]
  /\ idle = 0
  /\ worker = [w \in Workers |-> "unborn"]
  /\ held = [w \in Workers |-> Nobody]
  /\ lock = Nobody
  /\ shut = FALSE /\ broken = FALSE /\ collected = FALSE
  /\ caller = [c \in Callers |-> "out"]
  /\ wait = [c \in Callers |-> FALSE]
  /\ interp = "up"
  /\ unstarted = {}

-----------------------------------------------------------------------------
(* submit(), under _shutdown_lock and the global lock.                      *)

\* submit() forgets one of its early returns: it takes work after shutdown.
SubmitAfterShutdown(i) ==
  /\ future[i] = "none" /\ ~collected /\ lock = Nobody /\ interp # "exited"
  /\ future' = [future EXCEPT ![i] = "PENDING"]
  /\ queue' = Append(queue, i)
  /\ lock' = i
  /\ UNCHANGED <<idle, worker, held, shut, broken, collected, caller, wait, interp,
                 unstarted>>

\* The locks are taken, the three refusals are passed, the item is queued.
SubmitPut(i) ==
  /\ future[i] = "none" /\ ~collected /\ lock = Nobody /\ interp # "exited"
  /\ ~broken /\ ~shut /\ ~Exiting
  /\ future' = [future EXCEPT ![i] = "PENDING"]
  /\ queue' = Append(queue, i)
  /\ lock' = i
  /\ UNCHANGED <<idle, worker, held, shut, broken, collected, caller, wait, interp,
                 unstarted>>

\* BrokenThreadPool or RuntimeError: no future is made.
SubmitRefused(i) ==
  /\ future[i] = "none" /\ ~collected /\ lock = Nobody /\ interp # "exited"
  /\ broken \/ shut \/ Exiting
  /\ future' = [future EXCEPT ![i] = "refused"]
  /\ UNCHANGED <<queue, idle, worker, held, lock, shut, broken, collected,
                 caller, wait, interp, unstarted>>

\* An idle thread is claimed without asking whether there is one.
AdjustClaimsBlindly(i) ==
  /\ lock = i
  /\ lock' = Nobody
  /\ idle' = idle - 1
  /\ IF idle <= 0 /\ Spawned # Workers
     THEN \E w \in Workers \ Spawned : worker' = [worker EXCEPT ![w] = "init"]
     ELSE UNCHANGED worker
  /\ UNCHANGED <<queue, future, held, shut, broken, collected, caller, wait,
                 interp, unstarted>>

\* _adjust_thread_count: an idle thread is claimed, or else one is started
\* while there are fewer than max_workers.  The locks are then released.
AdjustThreadCount(i) ==
  /\ lock = i
  /\ lock' = Nobody
  /\ IF idle > 0
     THEN idle' = idle - 1 /\ UNCHANGED worker
     ELSE /\ UNCHANGED idle
          /\ IF Spawned # Workers
             THEN \E w \in Workers \ Spawned : worker' = [worker EXCEPT ![w] = "init"]
             ELSE UNCHANGED worker
  /\ UNCHANGED <<queue, future, held, shut, broken, collected, caller, wait,
                 interp, unstarted>>

\* The thread does not start: submit() raises, and leaves the item in the queue.
ThreadStartRaises(i) ==
  /\ "start" \in Faults
  /\ lock = i /\ idle = 0 /\ Spawned # Workers
  /\ lock' = Nobody
  /\ unstarted' = unstarted \cup {i}
  /\ UNCHANGED <<queue, future, idle, worker, held, shut, broken, collected,
                 caller, wait, interp>>

\* Future.cancel(), by whoever holds the future: nobody, if submit() raised.
CancelFuture(i) ==
  /\ "cancel" \in Faults
  /\ future[i] = "PENDING" /\ i \notin unstarted
  /\ future' = [future EXCEPT ![i] = "CANCELLED"]
  /\ UNCHANGED <<queue, idle, worker, held, lock, shut, broken, collected,
                 caller, wait, interp, unstarted>>

-----------------------------------------------------------------------------
(* _worker(), one thread.                                                   *)

Goto(w, s) == worker' = [worker EXCEPT ![w] = s]

Initialized(w) ==
  /\ worker[w] = "init"
  /\ Goto(w, "get")
  /\ UNCHANGED <<queue, future, idle, held, lock, shut, broken, collected,
                 caller, wait, interp, unstarted>>

\* The initializer raised: the pool is told, if there still is one.
InitializerRaises(w) ==
  /\ "initializer" \in Faults
  /\ worker[w] = "init"
  /\ Goto(w, IF collected THEN "dead" ELSE "failed")
  /\ UNCHANGED <<queue, future, idle, held, lock, shut, broken, collected,
                 caller, wait, interp, unstarted>>

\* _initializer_failed takes the lock and marks the pool broken ...
MarkBroken(w) ==
  /\ worker[w] = "failed" /\ lock = Nobody
  /\ lock' = w
  /\ broken' = TRUE
  /\ Goto(w, "drain")
  /\ UNCHANGED <<queue, future, idle, held, shut, collected, caller, wait, interp,
                 unstarted>>

\* The drain drops the queue without failing the futures it holds.
DrainForgetsFutures(w) ==
  /\ worker[w] = "drain"
  /\ queue' = <<>>
  /\ lock' = Nobody
  /\ Goto(w, "dead")
  /\ UNCHANGED <<future, idle, held, shut, broken, collected, caller, wait, interp,
                 unstarted>>

\* ... and drains the queue: wake-ups are dropped, pending futures fail, and a
\* cancelled future's set_exception raises InvalidStateError out of the thread.
Drain(w) ==
  /\ worker[w] = "drain"
  /\ IF queue = <<>>
     THEN lock' = Nobody /\ Goto(w, "dead") /\ UNCHANGED <<queue, future>>
     ELSE /\ queue' = Tail(queue)
          /\ IF Head(queue) = WakeUp
             THEN UNCHANGED <<future, lock, worker>>
             ELSE IF future[Head(queue)] = "PENDING"
             THEN /\ future' = [future EXCEPT ![Head(queue)] = "BROKEN"]
                  /\ UNCHANGED <<lock, worker>>
             ELSE lock' = Nobody /\ Goto(w, "dead") /\ UNCHANGED future
  /\ UNCHANGED <<idle, held, shut, broken, collected, caller, wait, interp, unstarted>>

\* work_queue.get(block=True)
Get(w) ==
  /\ worker[w] = "get" /\ queue # <<>>
  /\ queue' = Tail(queue)
  /\ IF Head(queue) = WakeUp
     THEN Goto(w, "check") /\ UNCHANGED held
     ELSE Goto(w, "taken") /\ held' = [held EXCEPT ![w] = Head(queue)]
  /\ UNCHANGED <<future, idle, lock, shut, broken, collected, caller, wait, interp,
                 unstarted>>

\* The coroutine is started without asking whether its future was cancelled.
StartIgnoresCancel(w) ==
  /\ worker[w] = "taken"
  /\ future' = [future EXCEPT ![held[w]] = "RUNNING"]
  /\ Goto(w, "run")
  /\ UNCHANGED <<queue, idle, held, lock, shut, broken, collected, caller, wait,
                 interp, unstarted>>

\* set_running_or_notify_cancel()
Start(w) ==
  /\ worker[w] = "taken"
  /\ IF future[held[w]] = "PENDING"
     THEN future' = [future EXCEPT ![held[w]] = "RUNNING"] /\ Goto(w, "run")
     ELSE /\ future' = [future EXCEPT ![held[w]] = "CANCELLED_AND_NOTIFIED"]
          /\ Goto(w, "release")
  /\ UNCHANGED <<queue, idle, held, lock, shut, broken, collected, caller, wait,
                 interp, unstarted>>

\* The coroutine returned or raised an Exception, which its future now holds.
Finish(w) ==
  /\ worker[w] = "run"
  /\ future' = [future EXCEPT ![held[w]] = "FINISHED"]
  /\ Goto(w, "release")
  /\ UNCHANGED <<queue, idle, held, lock, shut, broken, collected, caller, wait,
                 interp, unstarted>>

\* A BaseException passes both except clauses: the thread ends, its future
\* stays RUNNING.  held keeps the item the thread died with.
Escape(w) ==
  /\ "escape" \in Faults
  /\ worker[w] = "run"
  /\ Goto(w, "dead")
  /\ UNCHANGED <<queue, future, idle, held, lock, shut, broken, collected,
                 caller, wait, interp, unstarted>>

\* The thread goes back to the queue without counting itself idle.
ReleaseForgotten(w) ==
  /\ worker[w] = "release"
  /\ held' = [held EXCEPT ![w] = Nobody]
  /\ Goto(w, "get")
  /\ UNCHANGED <<queue, future, idle, lock, shut, broken, collected, caller, wait,
                 interp, unstarted>>

Release(w) ==
  /\ worker[w] = "release"
  /\ idle' = IF collected THEN idle ELSE idle + 1
  /\ held' = [held EXCEPT ![w] = Nobody]
  /\ Goto(w, "get")
  /\ UNCHANGED <<queue, future, lock, shut, broken, collected, caller, wait,
                 interp, unstarted>>

\* A wake-up was taken: exit if there is a reason to.
Check(w) ==
  /\ worker[w] = "check"
  /\ IF Closed
     THEN shut' = (shut \/ ~collected) /\ Goto(w, "notify")
     ELSE UNCHANGED shut /\ Goto(w, "get")
  /\ UNCHANGED <<queue, future, idle, held, lock, broken, collected, caller, wait,
                 interp, unstarted>>

\* The leaving thread keeps the wake-up to itself.
NotifyNobody(w) ==
  /\ worker[w] = "notify"
  /\ Goto(w, "left")
  /\ UNCHANGED <<queue, future, idle, held, lock, shut, broken, collected,
                 caller, wait, interp, unstarted>>

\* "Notice other workers": the wake-up goes back in the queue.
Notify(w) ==
  /\ worker[w] = "notify"
  /\ queue' = Append(queue, WakeUp)
  /\ Goto(w, "left")
  /\ UNCHANGED <<future, idle, held, lock, shut, broken, collected, caller, wait,
                 interp, unstarted>>

WorkerStep(w) ==
  \/ Initialized(w) \/ InitializerRaises(w) \/ MarkBroken(w) \/ Drain(w)
  \/ Get(w) \/ Start(w) \/ Finish(w) \/ Escape(w) \/ Release(w)
  \/ Check(w) \/ Notify(w)

-----------------------------------------------------------------------------
(* shutdown(wait, cancel_futures)                                           *)

\* shutdown() forgets to raise _shutdown before it wakes the workers.
ShutdownUnflagged(c) ==
  /\ caller[c] = "out" /\ ~collected /\ lock = Nobody
  /\ lock' = c
  /\ \E cancelFutures, waits \in BOOLEAN :
       /\ caller' = [caller EXCEPT ![c] = IF cancelFutures THEN "cancel" ELSE "wake"]
       /\ wait' = [wait EXCEPT ![c] = waits]
  /\ UNCHANGED <<queue, future, idle, worker, held, shut, broken, collected,
                 interp, unstarted>>

ShutdownBegin(c) ==
  /\ caller[c] = "out" /\ ~collected /\ lock = Nobody
  /\ lock' = c
  /\ shut' = TRUE
  /\ \E cancelFutures, waits \in BOOLEAN :
       /\ caller' = [caller EXCEPT ![c] = IF cancelFutures THEN "cancel" ELSE "wake"]
       /\ wait' = [wait EXCEPT ![c] = waits]
  /\ UNCHANGED <<queue, future, idle, worker, held, broken, collected, interp,
                 unstarted>>

\* The queue is drained, and the futures are left as they are.
CancelQueuedDrops(c) ==
  /\ caller[c] = "cancel"
  /\ IF queue = <<>>
     THEN caller' = [caller EXCEPT ![c] = "wake"] /\ UNCHANGED queue
     ELSE queue' = Tail(queue) /\ UNCHANGED caller
  /\ UNCHANGED <<future, idle, worker, held, lock, shut, broken, collected, wait,
                 interp, unstarted>>

\* One turn of the loop that drains the queue and cancels the futures.
CancelQueued(c) ==
  /\ caller[c] = "cancel"
  /\ IF queue = <<>>
     THEN caller' = [caller EXCEPT ![c] = "wake"] /\ UNCHANGED <<queue, future>>
     ELSE /\ queue' = Tail(queue)
          /\ future' = IF Head(queue) # WakeUp /\ future[Head(queue)] = "PENDING"
                       THEN [future EXCEPT ![Head(queue)] = "CANCELLED"]
                       ELSE future
          /\ UNCHANGED caller
  /\ UNCHANGED <<idle, worker, held, lock, shut, broken, collected, wait, interp,
                 unstarted>>

\* shutdown() returns as soon as the wake-up is sent, whatever wait says.
WakeWithoutJoin(c) ==
  /\ caller[c] = "wake"
  /\ queue' = Append(queue, WakeUp)
  /\ lock' = Nobody
  /\ caller' = [caller EXCEPT ![c] = "back"]
  /\ UNCHANGED <<future, idle, worker, held, shut, broken, collected, wait, interp,
                 unstarted>>

ShutdownWake(c) ==
  /\ caller[c] = "wake"
  /\ queue' = Append(queue, WakeUp)
  /\ lock' = Nobody
  /\ caller' = [caller EXCEPT ![c] = IF wait[c] THEN "join" ELSE "back"]
  /\ UNCHANGED <<future, idle, worker, held, shut, broken, collected, wait, interp,
                 unstarted>>

ShutdownJoin(c) ==
  /\ caller[c] = "join"
  /\ \A w \in Spawned : Ended(w)
  /\ caller' = [caller EXCEPT ![c] = "back"]
  /\ UNCHANGED <<queue, future, idle, worker, held, lock, shut, broken, collected,
                 wait, interp, unstarted>>

ShutdownStep(c) == CancelQueued(c) \/ ShutdownWake(c) \/ ShutdownJoin(c)

-----------------------------------------------------------------------------
(* The end of the executor and of the interpreter.                          *)

\* The last reference is dropped: every weak reference a live thread holds
\* calls weakref_cb.  A call under way, or a worker that has just followed its
\* weak reference, keeps the executor alive.
Collect ==
  /\ ~collected /\ lock = Nobody
  /\ \A c \in Callers : caller[c] \in {"out", "back"}
  /\ \A w \in Workers : worker[w] \notin {"failed", "drain", "notify"}
  /\ collected' = TRUE
  /\ queue' = queue \o WakeUps(Cardinality({w \in Spawned : ~Ended(w)}))
  /\ UNCHANGED <<future, idle, worker, held, lock, shut, broken, caller, wait,
                 interp, unstarted>>

\* The main thread ends.
MainEnds ==
  /\ interp = "up"
  /\ interp' = "finalizing"
  /\ UNCHANGED queue /\ UNCHANGED pool

\* threading joins the threads that are not daemons before the atexit handlers
\* run; _python_exit then raises the flag, under the global lock.
PythonExitFlag ==
  /\ interp = "finalizing"
  /\ Daemon \/ \A w \in Spawned : Ended(w)
  /\ lock \notin Items
  /\ interp' = "flagged"
  /\ UNCHANGED queue /\ UNCHANGED pool

\* _python_exit forgets the wake-ups.
PythonExitSilent ==
  /\ interp = "flagged"
  /\ interp' = "woken"
  /\ UNCHANGED queue /\ UNCHANGED pool

\* One wake-up for each registered thread.
PythonExitWake ==
  /\ interp = "flagged"
  /\ queue' = queue \o WakeUps(Cardinality(Spawned))
  /\ interp' = "woken"
  /\ UNCHANGED pool

PythonExitJoin ==
  /\ interp = "woken"
  /\ \A w \in Spawned : Ended(w)
  /\ interp' = "exited"
  /\ UNCHANGED queue /\ UNCHANGED pool

InterpStep == PythonExitFlag \/ PythonExitWake \/ PythonExitJoin

-----------------------------------------------------------------------------
Next ==
  \/ \E i \in Items :
       SubmitPut(i) \/ SubmitRefused(i) \/ AdjustThreadCount(i) \/ ThreadStartRaises(i)
       \/ CancelFuture(i)
  \/ \E w \in Workers : WorkerStep(w)
  \/ \E c \in Callers : ShutdownBegin(c) \/ ShutdownStep(c)
  \/ Collect \/ MainEnds \/ InterpStep

Spec == Init /\ [][Next]_vars

\* Threads that can run do run, and coroutines end.  Nobody has to submit, to
\* cancel, to shut down or to end the program.
Fairness ==
  /\ \A i \in Items : WF_vars(AdjustThreadCount(i))
  /\ \A w \in Workers : WF_vars(WorkerStep(w))
  /\ \A c \in Callers : WF_vars(ShutdownStep(c))
  /\ WF_vars(InterpStep)

FairSpec == Spec /\ Fairness

-----------------------------------------------------------------------------
(* Safety                                                                   *)

\* No accepted item is ever behind a wake-up: the first thread to take one
\* leaves, so an item behind it might have no thread left to run it.
WakeUpsLast ==
  \A j, k \in 1..Len(queue) : j < k /\ queue[j] = WakeUp => queue[k] = WakeUp

\* A thread that took a wake-up, or has left on one, leaves no item behind.
LeavesNoWork ==
  (\E w \in Workers : Woken(w)) => \A i \in Items : ~Queued(i)

\* A pending future's item is never lost: it is in the queue, or in the hands of
\* a thread that has not started it yet.  No item is in two places, so none
\* is run twice.
PendingHasOnePlace ==
  \A i \in Items :
    /\ future[i] = "PENDING" =>
         Queued(i) \/ \E w \in Workers : held[w] = i /\ worker[w] = "taken"
    /\ \A j, k \in 1..Len(queue) : queue[j] = i /\ queue[k] = i => j = k
    /\ \A v, w \in Workers : held[v] = i /\ held[w] = i => v = w
    /\ Queued(i) => \A w \in Workers : held[w] # i

\* There is no wake-up, in the queue or in a thread's hands, unless the pool is
\* closed to submissions for good: a wake-up always makes a thread leave, none
\* is swallowed by a thread that goes on, and no new item can follow one.
WakeUpMeansLeave ==
  (\/ \E k \in 1..Len(queue) : queue[k] = WakeUp
   \/ \E w \in Workers : Woken(w)) => Closed

\* The items submitted whose worker has not counted itself idle again.
Outstanding == {i \in Items : Queued(i) \/ \E w \in Workers : held[w] = i}

\* While more threads may be started, the idle count is exact: a submit that
\* claims an idle thread, instead of starting one, always finds a thread that
\* will run the item (one that waits in the queue, or is on its way there).  Each
\* start that failed leaves one item more than there are threads for, and once a
\* thread has run it, an idle thread more than there are, for good.
IdleCountExact ==
  ~shut /\ ~broken /\ ~collected /\ lock \notin Items /\ Spawned # Workers =>
    idle + Cardinality(Outstanding) = Cardinality(Spawned) + Cardinality(unstarted)

\* What a future holds is decided once: a worker, the drain of a broken pool,
\* shutdown(cancel_futures=True) and a client never overwrite each other.
DecidedOnce ==
  [][\A i \in Items :
       /\ future[i] \in {"FINISHED", "BROKEN", "CANCELLED_AND_NOTIFIED"} =>
            future'[i] = future[i]
       /\ future[i] = "CANCELLED" => future'[i] \in {"CANCELLED", "CANCELLED_AND_NOTIFIED"}
       /\ future[i] = "RUNNING" => future'[i] \in {"RUNNING", "FINISHED"}]_vars

\* The pool implements Executor: it is open until a flag or the interpreter
\* closes it, and a waiting shutdown() returns after the last join.
Promise == INSTANCE Executor WITH
  open <- ~(shut \/ broken \/ Exiting),
  returned <- {c \in Callers : caller[c] = "back" /\ wait[c]}

KeepsPromise == Promise!Spec

-----------------------------------------------------------------------------
(* Liveness                                                                 *)

Decided(i) == future[i] \in {"FINISHED", "BROKEN", "CANCELLED", "CANCELLED_AND_NOTIFIED"}

\* Every future handed out is decided, even if the executor is shut down or
\* dropped, or the program ends, while the item is queued.
EveryFutureDecided == \A i \in Items : future[i] = "PENDING" ~> Decided(i) \/ i \in unstarted

\* shutdown(wait=True) returns: the wake-up it sent reaches every thread.
ShutdownReturns == \A c \in Callers : caller[c] = "join" ~> caller[c] = "back"

\* The interpreter's exit ends the threads and is not held up by idle ones.
InterpreterExits == interp = "finalizing" ~> interp = "exited"
=============================================================================
