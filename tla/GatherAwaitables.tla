-------------------------- MODULE GatherAwaitables --------------------------
(***************************************************************************)
(* gather_awaitables and gather_coroutines (core/ayuna_core/basefuncs.py): *)
(* one call of either on one event loop.  The call awaits a future, the    *)
(* waiter, which the completion callbacks of the tasks, a timer, or a      *)
(* cancellation of the caller release; the call then reports what each     *)
(* task has come to.  gather_coroutines leaves the waiting to asyncio.wait,*)
(* whose callbacks and timer are the same.                                 *)
(*                                                                         *)
(* The loop runs one handle at a time, in the order they became ready.  A  *)
(* task may end between any two handles.                                   *)
(***************************************************************************)
EXTENDS Naturals, Sequences, SequencesExt, FiniteSets

CONSTANTS
  Keys,      \* the keys of the awaitables dictionary
  Policies   \* the conditions waited for: a subset of Conditions

Conditions == {"ALL_DONE", "ANY_DONE", "ANY_FAIL"}

ASSUME GatherAssumption == IsFiniteSet(Keys) /\ Policies \subseteq Conditions

VARIABLES
  function,   \* which of the two is called
  pc,         \* "idle", "waiting" for the waiter, "returned" or "raised"
  awaited,    \* the keys of this call
  waitFor,    \* its wait_for
  task,       \* what each task has come to
  watched,    \* the tasks with completion_cb still registered
  stopping,   \* the tasks told to cancel
  counter,    \* awt_counter
  waiter,     \* the waiter future
  timer,      \* the handle of call_later
  cancelled,  \* the caller of gather_awaitables has been cancelled
  ready,      \* the loop's ready handles
  results     \* the dictionary returned

gatherVars == <<function, pc, awaited, waitFor, task, watched, stopping, counter, waiter,
                timer, cancelled, ready, results>>

Outcomes == {"ok", "failed", "cancelled"}

\* Handles of the loop: the callback of a task, the timer, the caller's wake-up.
Callback(k) == <<"callback", k>>
Timeout == <<"timeout">>
Resume == <<"resume">>

GatherInit ==
  /\ function = "gather_awaitables"
  /\ pc = "idle"
  /\ awaited = {} /\ waitFor = "ALL_DONE"
  /\ task = [k \in Keys |-> "none"]
  /\ watched = {} /\ stopping = {}
  /\ counter = 0
  /\ waiter = "none" /\ timer = "off" /\ cancelled = FALSE
  /\ ready = <<>>
  /\ results = <<>>

\* The call: coroutines become tasks, and the tasks in `done`, if any, had ended before,
\* so that add_done_callback schedules their callback at once.  gather_coroutines is given coroutines only.
Gather(f, keys, done, condition, timed) ==
  /\ pc = "idle" /\ keys # {} /\ done \subseteq keys
  /\ function' = f
  /\ pc' = "waiting"
  /\ awaited' = keys /\ waitFor' = condition
  /\ task' = [k \in Keys |-> IF k \in done THEN "ok"
                             ELSE IF k \in keys THEN "pending" ELSE "none"]
  /\ watched' = keys
  /\ counter' = Cardinality(keys)
  /\ waiter' = "pending"
  /\ timer' = IF timed THEN "armed" ELSE "off"
  /\ ready' = [n \in 1..Cardinality(done) |-> Callback(SetToSeq(done)[n])]
  /\ UNCHANGED <<stopping, cancelled, results>>

\* A task ends, one way or another; a task told to stop may end otherwise.
TaskEnds(k, outcome) ==
  /\ task[k] = "pending"
  /\ task' = [task EXCEPT ![k] = outcome]
  /\ ready' = IF k \in watched THEN Append(ready, Callback(k)) ELSE ready
  /\ UNCHANGED <<function, pc, awaited, waitFor, watched, stopping, counter, waiter, timer,
                 cancelled, results>>

\* A handle that is cancelled is not run, even if it is ready.
TimerOff == timer' = IF timer \in {"armed", "due"} THEN "off" ELSE timer

\* The waiter is released without asking whether it was before.
ReleaseUnguarded(how, rest) == waiter' = how /\ ready' = Append(rest, Resume)

\* waiter.set_result(None), or its cancellation, wakes the caller.
Release(how, rest) ==
  IF waiter = "pending"
  THEN waiter' = how /\ ready' = Append(rest, Resume)
  ELSE UNCHANGED waiter /\ ready' = rest

\* completion_cb forgets that ANY_FAIL waits for a failure.
EnoughOnAnyEnd(k, left) == left <= 0 \/ waitFor # "ALL_DONE"

\* completion_cb waits for one task too many.
EnoughOffByOne(k, left) ==
  \/ left < 0
  \/ waitFor = "ANY_DONE"
  \/ waitFor = "ANY_FAIL" /\ task[k] = "failed"

\* What completion_cb asks of the task that ended, and of those that have not.
Enough(k, left) ==
  \/ left <= 0
  \/ waitFor = "ANY_DONE"
  \/ waitFor = "ANY_FAIL" /\ task[k] = "failed"

CompletionCallback(k) ==
  /\ ready # <<>> /\ Head(ready) = Callback(k)
  /\ counter' = counter - 1
  /\ IF Enough(k, counter - 1)
     THEN TimerOff /\ Release("done", Tail(ready))
     ELSE ready' = Tail(ready) /\ UNCHANGED <<timer, waiter>>
  /\ UNCHANGED <<function, pc, awaited, waitFor, task, watched, stopping, cancelled,
                 results>>

\* The time is up: the handle of _release_waiter becomes ready.
TimeIsUp ==
  /\ timer = "armed"
  /\ timer' = "due"
  /\ ready' = Append(ready, Timeout)
  /\ UNCHANGED <<function, pc, awaited, waitFor, task, watched, stopping, counter, waiter,
                 cancelled, results>>

\* _release_waiter, unless the timer was cancelled after its handle was ready.
ReleaseWaiter ==
  /\ ready # <<>> /\ Head(ready) = Timeout
  /\ IF timer = "due"
     THEN timer' = "fired" /\ Release("done", Tail(ready))
     ELSE ready' = Tail(ready) /\ UNCHANGED <<timer, waiter>>
  /\ UNCHANGED <<function, pc, awaited, waitFor, task, watched, stopping, counter, cancelled,
                 results>>

\* Somebody cancels the task that awaits the call.
CancelCaller ==
  /\ pc = "waiting" /\ ~cancelled
  /\ cancelled' = TRUE
  /\ Release("cancelled", ready)
  /\ UNCHANGED <<function, pc, awaited, waitFor, task, watched, stopping, counter, timer,
                 results>>

\* _finalize_awaitables reports the tasks that have not ended, and lets them run.
FinalizeWithoutCancel ==
  /\ ready # <<>> /\ Head(ready) = Resume
  /\ function = "gather_awaitables" \/ ~cancelled
  /\ pc' = "returned"
  /\ TimerOff
  /\ results' = [k \in awaited |-> task[k]]
  /\ watched' = {}
  /\ ready' = Tail(ready)
  /\ UNCHANGED <<function, awaited, waitFor, task, stopping, counter, waiter, cancelled>>

\* The caller wakes up, gather_awaitables swallowing its cancellation; it (in
\* _finalize_awaitables) or asyncio.wait unregisters the callbacks, and what has not
\* ended is cancelled and reported.
Finalize ==
  /\ ready # <<>> /\ Head(ready) = Resume
  /\ function = "gather_awaitables" \/ ~cancelled
  /\ pc' = "returned"
  /\ TimerOff
  /\ results' = [k \in awaited |-> task[k]]
  /\ stopping' = {k \in awaited : task[k] = "pending"}
  /\ watched' = {}
  /\ ready' = Tail(ready)
  /\ UNCHANGED <<function, awaited, waitFor, task, counter, waiter, cancelled>>

\* A cancelled gather_coroutines is left by the CancelledError: asyncio.wait clears its
\* timer and callbacks, and the tasks run on.
WaitCancelled ==
  /\ ready # <<>> /\ Head(ready) = Resume
  /\ function = "gather_coroutines" /\ cancelled
  /\ pc' = "raised"
  /\ TimerOff
  /\ watched' = {}
  /\ ready' = Tail(ready)
  /\ UNCHANGED <<function, awaited, waitFor, task, stopping, counter, waiter, cancelled,
                 results>>

RunHandle ==
  \/ \E k \in Keys : CompletionCallback(k)
  \/ ReleaseWaiter
  \/ Finalize
  \/ WaitCancelled

GatherStep ==
  \/ \E k \in Keys, outcome \in Outcomes : TaskEnds(k, outcome)
  \/ TimeIsUp
  \/ RunHandle

GatherNext ==
  \/ \E keys, done \in SUBSET Keys, condition \in Policies, timed \in BOOLEAN :
       Gather("gather_awaitables", keys, done, condition, timed)
  \/ \E keys \in SUBSET Keys, condition \in Policies, timed \in BOOLEAN :
       Gather("gather_coroutines", keys, {}, condition, timed)
  \/ CancelCaller
  \/ GatherStep

-----------------------------------------------------------------------------
GatherTypeOK ==
  /\ function \in {"gather_awaitables", "gather_coroutines"}
  /\ pc \in {"idle", "waiting", "returned", "raised"}
  /\ awaited \subseteq Keys /\ waitFor \in Conditions
  /\ task \in [Keys -> Outcomes \cup {"none", "pending"}]
  /\ watched \subseteq awaited /\ stopping \subseteq awaited
  /\ counter \in 0..Cardinality(Keys)
  /\ waiter \in {"none", "pending", "done", "cancelled"}
  /\ timer \in {"off", "armed", "due", "fired"}
  /\ cancelled \in BOOLEAN
  /\ \A n \in 1..Len(ready) :
       ready[n] \in {Timeout, Resume} \cup {Callback(k) : k \in Keys}
  /\ pc = "returned" => results \in [awaited -> Outcomes \cup {"pending"}]

Scheduled(handle) == \E n \in 1..Len(ready) : ready[n] = handle

\* The caller is woken once, however the callbacks, the timer and a cancellation
\* of the caller race: never twice, and never again once the call has returned.
WokenOnce ==
  /\ Cardinality({n \in 1..Len(ready) : ready[n] = Resume}) <= 1
  /\ Scheduled(Resume) => pc = "waiting" /\ waiter # "pending"

\* A call that returns of its own accord, neither timed out nor cancelled, has
\* what it waited for in the results it reports.
WaitForKept ==
  pc = "returned" /\ ~cancelled /\ timer # "fired" =>
    \/ \A k \in awaited : results[k] # "pending"
    \/ waitFor = "ANY_DONE" /\ \E k \in awaited : results[k] # "pending"
    \/ waitFor = "ANY_FAIL" /\ \E k \in awaited : results[k] = "failed"

\* No task outlives a call that returns unnoticed: each has ended, or was told to stop and
\* is reported as pending; nothing reported as ended was told to stop.
NothingLeftRunning ==
  pc = "returned" => \A k \in awaited :
    /\ task[k] # "pending" \/ k \in stopping
    /\ k \in stopping <=> results[k] = "pending"

\* A call returns once its time is up, its tasks have all ended, or its caller
\* is cancelled; a task that never ends holds up no call that has a timeout.
Returns ==
  pc = "waiting" /\ (timer # "off" \/ cancelled \/ \A k \in awaited : task[k] # "pending")
    ~> pc \in {"returned", "raised"}
=============================================================================
