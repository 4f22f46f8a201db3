---------------------------- MODULE PubSubBridge ----------------------------
(***************************************************************************)
(* AsyncPubSyncSub and SyncPubAsyncSub (core/ayuna_core/utils/aioqueue.py):*)
(* a queue with a synchronous and an asynchronous side, its publishers, the*)
(* coroutines run() and close(), and the one thread of the event loop they *)
(* share.  A coroutine keeps the loop until it awaits something that is not*)
(* there; a synchronous call that waits keeps it until it returns.         *)
(***************************************************************************)
EXTENDS Naturals, Sequences, FiniteSets

CONSTANTS
  Messages,    \* the items published, each once
  Break,       \* LOOP_BREAK_MSG
  Runs,        \* the calls of run()
  MaxSize,     \* max_queue_size
  Directions,  \* the classes: "asyncPub" (AsyncPubSyncSub), "syncPub"
  Nobody,      \* no item in hand; nobody holds the loop
  Faults       \* "cancel": a run() is cancelled; "none": a client publishes None

Closer == "close"

ASSUME BridgeAssumption ==
  /\ Break \notin Messages /\ Nobody \notin Messages \cup Runs \cup {Break, Closer}
  /\ Closer \notin Runs \cup Messages /\ Runs \cap Messages = {} /\ IsFiniteSet(Runs)
  /\ MaxSize \in Nat \ {0}
  /\ Directions \subseteq {"asyncPub", "syncPub"}
  /\ Faults \subseteq {"cancel", "none"}

VARIABLES
  direction,   \* the class of this bridge
  queue,       \* what is in the queue
  unfinished,  \* puts without their task_done, which join() waits for
  loop,        \* who holds the loop: a run(), close(), or publish() of a message
  run,         \* where each run() is
  inHand,      \* the item each run() took
  consuming,   \* __is_consuming
  closer,      \* where close() is
  published, consumed

vars == <<direction, queue, unfinished, loop, run, inHand, consuming, closer,
          published, consumed>>

TypeOK ==
  /\ direction \in Directions
  /\ queue \in Seq(Messages \cup {Break}) /\ Len(queue) <= MaxSize
  /\ unfinished \in Nat
  /\ loop \in Runs \cup Messages \cup {Closer, Nobody}
  /\ run \in [Runs -> {"out", "top", "wait", "consume", "consumed", "cancelled", "ended"}]
  /\ inHand \in [Runs -> Messages \cup {Nobody}]
  /\ consuming \in BOOLEAN
  /\ closer \in {"out", "put", "join", "closed"}
  /\ published \subseteq Messages /\ consumed \subseteq published

Free == loop = Nobody
Full == Len(queue) >= MaxSize
Active(r) == run[r] \in {"top", "wait", "consume", "consumed"}

Init ==
  /\ direction \in Directions
  /\ queue = <<>> /\ unfinished = 0
  /\ loop = Nobody
  /\ run = [r \in Runs |-> "out"]
  /\ inHand = [r \in Runs |-> Nobody]
  /\ consuming = FALSE
  /\ closer = "out"
  /\ published = {} /\ consumed = {}

Put(item) == queue' = Append(queue, item) /\ unfinished' = unfinished + 1

-----------------------------------------------------------------------------
\* publish() succeeds: AsyncPubSyncSub's is a coroutine, which waits without
\* blocking while the queue is full; SyncPubAsyncSub's may run in any thread.
Publish(m) ==
  /\ m \notin published /\ closer # "closed" /\ ~Full
  /\ Free \/ direction = "syncPub"
  /\ Put(m)
  /\ published' = published \cup {m}
  /\ UNCHANGED <<direction, loop, run, inHand, consuming, closer, consumed>>

\* The synchronous publish() called on the loop when the queue is full.  Only a
\* run() on that loop could make room, so that it never returns.
PublishBlocks(m) ==
  /\ direction = "syncPub" /\ Free
  /\ m \notin published /\ closer # "closed" /\ Full
  /\ loop' = m
  /\ UNCHANGED <<direction, queue, unfinished, run, inHand, consuming, closer,
                 published, consumed>>

\* A client publishes None, which is LOOP_BREAK_MSG.
PublishNone ==
  /\ "none" \in Faults
  /\ closer # "closed" /\ ~Full
  /\ \A n \in 1..Len(queue) : queue[n] # Break
  /\ Free \/ direction = "syncPub"
  /\ Put(Break)
  /\ UNCHANGED <<direction, loop, run, inHand, consuming, closer, published, consumed>>

-----------------------------------------------------------------------------
(* run()                                                                    *)

\* run() starts without asking whether another one consumes.
RunUnguarded(r) ==
  /\ run[r] = "out" /\ Free
  /\ run' = [run EXCEPT ![r] = "top"] /\ consuming' = TRUE /\ loop' = r
  /\ UNCHANGED <<direction, queue, unfinished, inHand, closer, published, consumed>>

\* One consumer at a time: a second run() returns.
Run(r) ==
  /\ run[r] = "out" /\ Free
  /\ IF consuming
     THEN run' = [run EXCEPT ![r] = "ended"] /\ UNCHANGED <<consuming, loop>>
     ELSE run' = [run EXCEPT ![r] = "top"] /\ consuming' = TRUE /\ loop' = r
  /\ UNCHANGED <<direction, queue, unfinished, inHand, closer, published, consumed>>

\* async_q.get() on an empty queue gives the loop away; AsyncPubSyncSub's
\* sync_q.get() does not, and waits for good.
GetWaits(r) ==
  /\ direction = "syncPub" /\ run[r] = "top"
  /\ queue = <<>>
  /\ run' = [run EXCEPT ![r] = "wait"]
  /\ loop' = Nobody
  /\ UNCHANGED <<direction, queue, unfinished, inHand, consuming, closer,
                 published, consumed>>

\* The next item is taken.  The break is marked done and ends the loop.
Get(r) ==
  /\ run[r] = "top" \/ (run[r] = "wait" /\ Free)
  /\ queue # <<>>
  /\ queue' = Tail(queue)
  /\ loop' = Nobody
  /\ IF Head(queue) = Break
     THEN /\ unfinished' = unfinished - 1
          /\ run' = [run EXCEPT ![r] = "ended"]
          /\ consuming' = FALSE
          /\ UNCHANGED inHand
     ELSE /\ run' = [run EXCEPT ![r] = "consume"]
          /\ inHand' = [inHand EXCEPT ![r] = Head(queue)]
          /\ UNCHANGED <<unfinished, consuming>>
  /\ UNCHANGED <<direction, closer, published, consumed>>

\* The consumer runs in a thread of the executor, or on the loop, which it gives
\* back to run() at once.
ConsumerRuns(r) ==
  /\ run[r] = "consume"
  /\ consumed' = consumed \cup {inHand[r]}
  /\ IF direction = "asyncPub" THEN UNCHANGED loop ELSE Free /\ loop' = r

\* The item is marked done as soon as it is consumed, and once more after that.
ConsumeMarksDone(r) ==
  /\ ConsumerRuns(r)
  /\ run' = [run EXCEPT ![r] = "consumed"]
  /\ unfinished' = unfinished - 1
  /\ UNCHANGED <<direction, queue, inHand, consuming, closer, published>>

\* An error of the consumer ends the thread of run().
ConsumeStopsOnError(r) ==
  /\ ConsumerRuns(r)
  /\ run' \in {[run EXCEPT ![r] = "consumed"], [run EXCEPT ![r] = "ended"]}
  /\ UNCHANGED <<direction, queue, unfinished, inHand, consuming, closer, published>>

\* It returns or raises: the error is logged.
Consume(r) ==
  /\ ConsumerRuns(r)
  /\ run' = [run EXCEPT ![r] = "consumed"]
  /\ UNCHANGED <<direction, queue, unfinished, inHand, consuming, closer, published>>

\* run() goes on, marks the item done, and keeps the loop for the next one.
TaskDone(r) ==
  /\ run[r] = "consumed"
  /\ loop = IF direction = "asyncPub" THEN Nobody ELSE r
  /\ loop' = r
  /\ unfinished' = unfinished - 1
  /\ inHand' = [inHand EXCEPT ![r] = Nobody]
  /\ run' = [run EXCEPT ![r] = "top"]
  /\ UNCHANGED <<direction, queue, consuming, closer, published, consumed>>

\* CancelledError at an await: it is no Exception, the item in hand is never
\* marked done and __is_consuming stays set.
CancelRun(r) ==
  /\ "cancel" \in Faults /\ Free
  /\ run[r] \in {"wait", "consume"} \/ (direction = "asyncPub" /\ run[r] = "consumed")
  /\ run' = [run EXCEPT ![r] = "cancelled"]
  /\ UNCHANGED <<direction, queue, unfinished, loop, inHand, consuming, closer,
                 published, consumed>>

-----------------------------------------------------------------------------
(* close()                                                                  *)

\* sync_q.join() blocks the loop at once, unless there is nothing to wait for.
Join == closer' = "join" /\ loop' = Closer

\* While run() consumes the break is put in first: a full queue makes the
\* asynchronous put wait, and the synchronous one block.
Close ==
  /\ closer = "out" /\ Free
  /\ IF ~consuming
     THEN Join /\ UNCHANGED <<queue, unfinished, consuming>>
     ELSE IF Full
     THEN /\ closer' = "put"
          /\ loop' = IF direction = "syncPub" THEN Closer ELSE Nobody
          /\ UNCHANGED <<queue, unfinished, consuming>>
     ELSE Put(Break) /\ consuming' = FALSE /\ Join
  /\ UNCHANGED <<direction, run, inHand, published, consumed>>

ClosePut ==
  /\ closer = "put" /\ loop \in {Nobody, Closer} /\ ~Full
  /\ Put(Break) /\ consuming' = FALSE /\ Join
  /\ UNCHANGED <<direction, run, inHand, published, consumed>>

\* The queue is closed without waiting for what is in it.
CloseWithoutJoin ==
  /\ closer = "join"
  /\ closer' = "closed" /\ loop' = Nobody
  /\ UNCHANGED <<direction, queue, unfinished, run, inHand, consuming, published, consumed>>

\* Both joins return, and the queue is closed.
CloseJoined ==
  /\ closer = "join" /\ unfinished = 0
  /\ closer' = "closed" /\ loop' = Nobody
  /\ UNCHANGED <<direction, queue, unfinished, run, inHand, consuming, published, consumed>>

-----------------------------------------------------------------------------
RunStep(r) == GetWaits(r) \/ Get(r) \/ Consume(r) \/ TaskDone(r)

CloseStep == ClosePut \/ CloseJoined

Next ==
  \/ \E m \in Messages : Publish(m) \/ PublishBlocks(m)
  \/ PublishNone
  \/ \E r \in Runs : Run(r) \/ RunStep(r) \/ CancelRun(r)
  \/ Close \/ CloseStep

Spec == Init /\ [][Next]_vars

\* What can run on the loop runs, consumers end, and close() goes on when it can.
\* Nobody has to publish, to run or to close.
FairSpec ==
  /\ Spec
  /\ \A r \in Runs : WF_vars(RunStep(r))
  /\ WF_vars(CloseStep)

-----------------------------------------------------------------------------
\* join() waits for what it should: the items in the queue, those being consumed,
\* and those a cancelled run() took with it, which are never marked done.
UnfinishedExact ==
  unfinished = Len(queue) + Cardinality({r \in Runs : inHand[r] # Nobody})

\* Two calls of run() never consume at the same time, although close() clears
\* __is_consuming while one still does.
OneConsumer == \A r, s \in Runs : Active(r) /\ Active(s) => r = s

\* A bridge that is closed has consumed all that was published to it.
ClosedMeansDrained ==
  closer = "closed" => published = consumed /\ \A r \in Runs : inHand[r] = Nobody

Behind(m) == \E j, k \in 1..Len(queue) : j < k /\ queue[j] = Break /\ queue[k] = m
Queued(m) == \E k \in 1..Len(queue) : queue[k] = m

\* An item queued while run() consumes is consumed, unless a break is or gets
\* ahead of it, run() is cancelled, or the loop is taken by close() or by a
\* publish() that waits on it for room.
QueuedIsConsumed ==
  \A m \in Messages :
    Queued(m) /\ ~Behind(m) /\ (\E r \in Runs : Active(r)) /\ closer = "out"
      ~> \/ m \in consumed
         \/ closer # "out" \/ loop \in Messages
         \/ \E r \in Runs : run[r] = "cancelled"

\* close(), called while run() consumes, stops it and closes the queue.
CloseReturns ==
  closer \in {"put", "join"} /\ (\E r \in Runs : Active(r)) ~> closer = "closed"
=============================================================================
