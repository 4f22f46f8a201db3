------------------------- MODULE PubSubBridgeProofs -------------------------
(***************************************************************************)
(* Proofs about the bridges, for any messages, calls of run() and size of  *)
(* the queue: one consumer at a time, an exact count for join(), and a     *)
(* closed bridge that has consumed what was published.                     *)
(***************************************************************************)
EXTENDS PubSubBridge, FiniteSetTheorems, TLAPS

\* What each call of run() has in its hands, and that it has it from a publisher.
HandsKept ==
  \A r \in Runs :
    /\ run[r] \in {"out", "top", "wait"} => inHand[r] = Nobody
    /\ run[r] \in {"consume", "consumed"} => inHand[r] # Nobody
    /\ run[r] = "consumed" => inHand[r] \in consumed
    /\ inHand[r] \in published \cup {Nobody}

\* A call of run() that is about to get, and a close() that joins, hold the loop.
LoopKept ==
  /\ \A r \in Runs : run[r] = "top" => loop = r
  /\ closer = "join" => loop = Closer

\* __is_consuming is set while one consumes, unless close() has cleared it: then the
\* break is in the queue, and close() keeps the loop until it is taken.
FlagKept ==
  \A r \in Runs : Active(r) => consuming \/ (closer = "join" /\ queue # <<>>)

\* The runs whose item is not marked done.
Busy == {r \in Runs : inHand[r] # Nobody}

\* A message is in the queue, in the hands of a run(), or consumed.
QueueKept == \A k \in 1..Len(queue) : queue[k] \in published \cup {Break}
Traced ==
  \A m \in published :
    m \in consumed \/ (\E k \in 1..Len(queue) : queue[k] = m) \/ \E r \in Runs : inHand[r] = m

\* A closed bridge stays empty.
Drained == closer = "closed" => queue = <<>> /\ published = consumed /\ Busy = {}

ControlInv == TypeOK /\ HandsKept /\ QueueKept /\ LoopKept /\ FlagKept /\ OneConsumer /\ UnfinishedExact
BridgeInv == ControlInv /\ Traced /\ Drained

-----------------------------------------------------------------------------
\* The hands are few enough to be counted.
LEMMA BusyFinite == IsFiniteSet(Busy) /\ Cardinality(Busy) \in Nat
  BY BridgeAssumption, FS_Subset, FS_CardinalityType DEF Busy

\* The count is what it is about: nothing is unfinished if and only if nothing is
\* queued or in hand.
LEMMA CountMeans ==
  ASSUME TypeOK, UnfinishedExact
  PROVE  /\ unfinished = Len(queue) + Cardinality(Busy)
         /\ unfinished = 0 => queue = <<>> /\ Busy = {}
  <1>1. unfinished = Len(queue) + Cardinality(Busy)
    BY DEF UnfinishedExact, Busy
  <1>2. Len(queue) \in Nat /\ (Len(queue) = 0 => queue = <<>>)
    BY DEF TypeOK
  <1>3. Cardinality(Busy) = 0 => Busy = {}
    BY BusyFinite, FS_EmptySet
  <1> QED
    BY <1>1, <1>2, <1>3, BusyFinite

\* Putting an item last: what was queued stays where it was.
LEMMA PutKeeps ==
  ASSUME TypeOK, NEW item \in Messages \cup {Break}, Put(item)
  PROVE  /\ queue' \in Seq(Messages \cup {Break}) /\ Len(queue') = Len(queue) + 1
         /\ queue' # <<>>
         /\ queue'[Len(queue')] = item
         /\ \A k \in 1..Len(queue) : queue'[k] = queue[k]
  BY DEF TypeOK, Put

\* Taking the first one: the others move up.
LEMMA TailKeeps ==
  ASSUME TypeOK, queue # <<>>, queue' = Tail(queue)
  PROVE  /\ queue' \in Seq(Messages \cup {Break}) /\ Len(queue') = Len(queue) - 1
         /\ Len(queue) \in Nat \ {0}
         /\ Head(queue) = queue[1] /\ Head(queue) \in Messages \cup {Break}
         /\ \A k \in 1..Len(queue') : queue'[k] = queue[k + 1]
  BY DEF TypeOK

\* An item in the hands of one more run, or of one run less.
LEMMA OneMoreBusy ==
  ASSUME NEW r \in Runs, r \notin Busy, Busy' = Busy \cup {r}
  PROVE  Cardinality(Busy') = Cardinality(Busy) + 1
  BY BusyFinite, FS_AddElement

LEMMA OneLessBusy ==
  ASSUME NEW r \in Runs, r \in Busy, Busy' = Busy \ {r}
  PROVE  Cardinality(Busy') = Cardinality(Busy) - 1 /\ Cardinality(Busy) > 0
  <1>1. Cardinality(Busy') = Cardinality(Busy) - 1
    BY BusyFinite, FS_RemoveElement
  <1>2. Busy # {}
    OBVIOUS
  <1> QED
    BY <1>1, <1>2, BusyFinite, FS_EmptySet

-----------------------------------------------------------------------------
(* The control of the bridge, action by action                              *)

LEMMA PublishStep ==
  ASSUME ControlInv, NEW item \in Messages \cup {Break}, ~Full, Put(item),
         item = Break \/ closer # "closed",
         UNCHANGED <<direction, loop, run, inHand, consuming, closer, consumed>>,
         published' = published \cup (IF item = Break THEN {} ELSE {item})
  PROVE  ControlInv'
  <1>1. TypeOK'
    <2>1. queue' \in Seq(Messages \cup {Break}) /\ Len(queue') = Len(queue) + 1
      BY PutKeeps DEF ControlInv
    <2>2. Len(queue') <= MaxSize /\ unfinished' \in Nat
      BY <2>1, BridgeAssumption DEF ControlInv, TypeOK, Full, Put
    <2>3. published' \subseteq Messages /\ consumed' \subseteq published'
      BY DEF ControlInv, TypeOK
    <2> QED
      BY <2>1, <2>2, <2>3 DEF ControlInv, TypeOK
  <1>2. QueueKept'
    BY PutKeeps DEF ControlInv, TypeOK, QueueKept
  <1>3. UnfinishedExact'
    BY PutKeeps, CountMeans, BusyFinite DEF ControlInv, TypeOK, UnfinishedExact, Put, Busy
  <1>4. HandsKept' /\ LoopKept' /\ OneConsumer'
    BY DEF ControlInv, HandsKept, LoopKept, OneConsumer, Active
  <1>5. FlagKept'
    BY PutKeeps DEF ControlInv, FlagKept, Active
  <1> QED
    BY <1>1, <1>2, <1>3, <1>4, <1>5 DEF ControlInv

LEMMA RunStarts ==
  ASSUME ControlInv, NEW r \in Runs, Run(r)
  PROVE  ControlInv'
  <1>1. TypeOK' /\ QueueKept' /\ UnfinishedExact'
    BY DEF ControlInv, TypeOK, QueueKept, UnfinishedExact, Run
  <1>2. HandsKept'
    BY DEF ControlInv, HandsKept, Run, TypeOK
  <1>3. \A s \in Runs : Active(s) => consuming
    BY BridgeAssumption DEF ControlInv, FlagKept, LoopKept, Run, Free
  <1>4. LoopKept'
    BY BridgeAssumption DEF ControlInv, LoopKept, Run, Free, TypeOK
  <1>5. FlagKept' /\ OneConsumer'
    <2>1. CASE consuming
      BY <2>1 DEF ControlInv, FlagKept, OneConsumer, Active, Run, TypeOK
    <2>2. CASE ~consuming
      BY <1>3, <2>2 DEF ControlInv, FlagKept, OneConsumer, Active, Run, TypeOK
    <2> QED
      BY <2>1, <2>2
  <1> QED
    BY <1>1, <1>2, <1>4, <1>5 DEF ControlInv

LEMMA GetStep ==
  ASSUME ControlInv, NEW r \in Runs, Get(r)
  PROVE  ControlInv'
  <1> DEFINE item == Head(queue)
  <1>1. queue # <<>> /\ queue' = Tail(queue) /\ r \notin Busy
    BY DEF Get, ControlInv, HandsKept, Busy
  <1>2. /\ queue' \in Seq(Messages \cup {Break}) /\ Len(queue') = Len(queue) - 1
        /\ Len(queue) \in Nat \ {0} /\ item = queue[1] /\ item \in Messages \cup {Break}
        /\ \A k \in 1..Len(queue') : queue'[k] = queue[k + 1]
    BY <1>1, TailKeeps DEF ControlInv
  <1>3. unfinished = Len(queue) + Cardinality(Busy) /\ Cardinality(Busy) \in Nat
    BY CountMeans, BusyFinite DEF ControlInv
  <1>4. Active(r) /\ loop \in {r, Nobody} /\ closer # "join"
    BY BridgeAssumption DEF Get, Active, ControlInv, LoopKept, Free
  <1>5. consuming
    BY <1>4 DEF ControlInv, FlagKept
  <1>6. \A s \in Runs : Active(s) => s = r
    BY <1>4 DEF ControlInv, OneConsumer
  <1>7. QueueKept' /\ (item \in published \cup {Break})
    BY <1>2 DEF ControlInv, QueueKept, Get
  <1>8. CASE item = Break
    <2>1. TypeOK'
      <3>1. Len(queue') <= MaxSize /\ unfinished' \in Nat
        BY <1>2, <1>3, <1>8, BridgeAssumption DEF Get, ControlInv, TypeOK
      <3>2. run' \in [Runs -> {"out", "top", "wait", "consume", "consumed", "cancelled", "ended"}]
        BY <1>8 DEF Get, ControlInv, TypeOK
      <3>3. inHand' = inHand /\ loop' = Nobody /\ consuming' = FALSE
        BY <1>8 DEF Get
      <3> QED
        BY <1>2, <3>1, <3>2, <3>3 DEF Get, ControlInv, TypeOK
    <2>2. /\ loop' = Nobody /\ consuming' = FALSE /\ inHand' = inHand /\ closer' = closer
          /\ run' = [run EXCEPT ![r] = "ended"] /\ run'[r] = "ended"
          /\ \A s \in Runs \ {r} : run'[s] = run[s] /\ ~Active(s)
      BY <1>6, <1>8 DEF Get, ControlInv, TypeOK
    <2>4. HandsKept'
      BY <2>2 DEF Get, ControlInv, HandsKept
    <2>5. LoopKept' /\ FlagKept' /\ OneConsumer'
      BY <1>4, <2>2 DEF LoopKept, FlagKept, OneConsumer, Active
    <2>3. UnfinishedExact'
      BY <1>2, <1>3, <1>8 DEF Get, UnfinishedExact, Busy
    <2> QED
      BY <1>7, <2>1, <2>3, <2>4, <2>5 DEF ControlInv
  <1>9. CASE item # Break
    <2>1. TypeOK'
      <3>1. Len(queue') <= MaxSize
        BY <1>2, BridgeAssumption DEF ControlInv, TypeOK
      <3>2. run' \in [Runs -> {"out", "top", "wait", "consume", "consumed", "cancelled", "ended"}]
        BY <1>9 DEF Get, ControlInv, TypeOK
      <3>3. inHand' \in [Runs -> Messages \cup {Nobody}]
        BY <1>2, <1>9 DEF Get, ControlInv, TypeOK
      <3>4. unfinished' = unfinished /\ loop' = Nobody /\ consuming' = consuming
        BY <1>9 DEF Get
      <3> QED
        BY <1>2, <3>1, <3>2, <3>3, <3>4 DEF Get, ControlInv, TypeOK
    <2>2. HandsKept'
      BY <1>2, <1>7, <1>9, BridgeAssumption DEF Get, ControlInv, TypeOK, HandsKept
    <2>6. /\ loop' = Nobody /\ consuming' = consuming /\ closer' = closer
          /\ run'[r] = "consume"
          /\ \A s \in Runs \ {r} : run'[s] = run[s] /\ ~Active(s)
      BY <1>6, <1>9 DEF Get, ControlInv, TypeOK
    <2>3. LoopKept' /\ FlagKept' /\ OneConsumer'
      BY <1>4, <1>5, <2>6 DEF LoopKept, FlagKept, OneConsumer, Active
    <2>4. Busy' = Busy \cup {r}
      BY <1>2, <1>9, BridgeAssumption DEF Get, ControlInv, TypeOK, Busy
    <2>5. UnfinishedExact'
      <3>1. Cardinality(Busy') = Cardinality(Busy) + 1
        BY <1>1, <2>4, OneMoreBusy
      <3>2. unfinished' = Len(queue') + Cardinality(Busy')
        BY <1>2, <1>3, <1>9, <3>1 DEF Get
      <3> QED
        BY <3>2 DEF UnfinishedExact, Busy
    <2> QED
      BY <1>7, <2>1, <2>2, <2>3, <2>5 DEF ControlInv
  <1> QED
    BY <1>8, <1>9

LEMMA ConsumerSteps ==
  ASSUME ControlInv, NEW r \in Runs, GetWaits(r) \/ Consume(r) \/ CancelRun(r)
  PROVE  ControlInv'
  <1> DEFINE place == run'[r]
  <1>1. /\ UNCHANGED <<direction, queue, unfinished, inHand, consuming, closer, published>>
        /\ run' = [run EXCEPT ![r] = place]
        /\ \A s \in Runs \ {r} : run'[s] = run[s]
    BY DEF GetWaits, Consume, ConsumerRuns, CancelRun, ControlInv, TypeOK
  <1>2. /\ place \in {"wait", "consumed", "cancelled"}
        /\ place = "wait" => run[r] = "top"
        /\ place = "consumed" => run[r] = "consume" /\ inHand[r] \in consumed'
        /\ consumed' \subseteq consumed \cup {inHand[r]} /\ consumed \subseteq consumed'
        /\ consumed' # consumed => place = "consumed"
    BY DEF GetWaits, Consume, ConsumerRuns, CancelRun, ControlInv, TypeOK
  <1>3. place # "cancelled" => Active(r)
    BY <1>2 DEF Active
  <1>4. loop' \in {loop, r, Nobody} /\ (loop' # loop => loop \in {r, Nobody})
    BY DEF GetWaits, Consume, ConsumerRuns, CancelRun, ControlInv, LoopKept, Free
  <1>5. TypeOK'
    BY <1>1, <1>2, <1>4 DEF ControlInv, TypeOK, HandsKept
  <1>6. HandsKept'
    BY <1>1, <1>2 DEF ControlInv, HandsKept
  <1>7. LoopKept'
    BY <1>1, <1>2, <1>4, BridgeAssumption DEF ControlInv, LoopKept
  <1>8. FlagKept' /\ OneConsumer'
    BY <1>1, <1>2, <1>3 DEF ControlInv, FlagKept, OneConsumer, Active
  <1>9. QueueKept' /\ UnfinishedExact'
    BY <1>1 DEF ControlInv, QueueKept, UnfinishedExact
  <1> QED
    BY <1>5, <1>6, <1>7, <1>8, <1>9 DEF ControlInv

LEMMA TaskDoneStep ==
  ASSUME ControlInv, NEW r \in Runs, TaskDone(r)
  PROVE  ControlInv'
  <1>1. r \in Busy /\ Busy' = Busy \ {r}
    BY DEF TaskDone, ControlInv, TypeOK, HandsKept, Busy
  <1>2. Cardinality(Busy') = Cardinality(Busy) - 1 /\ Cardinality(Busy) > 0
    BY <1>1, OneLessBusy
  <1>3. unfinished = Len(queue) + Cardinality(Busy) /\ Len(queue) \in Nat
    BY CountMeans DEF ControlInv, TypeOK
  <1>4. unfinished' \in Nat /\ unfinished' = Len(queue') + Cardinality(Busy')
    BY <1>2, <1>3, BusyFinite DEF TaskDone
  <1>5. /\ run' = [run EXCEPT ![r] = "top"] /\ run'[r] = "top"
        /\ inHand' = [inHand EXCEPT ![r] = Nobody] /\ inHand'[r] = Nobody
        /\ \A s \in Runs \ {r} : run'[s] = run[s] /\ inHand'[s] = inHand[s]
    BY DEF TaskDone, ControlInv, TypeOK
  <1>6. Active(r) /\ loop' = r /\ loop \in {r, Nobody}
    BY DEF TaskDone, Active
  <1>7. TypeOK'
    BY <1>4, <1>5 DEF TaskDone, ControlInv, TypeOK
  <1>8. HandsKept' /\ QueueKept'
    BY <1>5 DEF TaskDone, ControlInv, HandsKept, QueueKept
  <1>9. LoopKept'
    BY <1>5, <1>6, BridgeAssumption DEF TaskDone, ControlInv, LoopKept
  <1>10. FlagKept' /\ OneConsumer'
    BY <1>5, <1>6 DEF TaskDone, ControlInv, FlagKept, OneConsumer, Active
  <1> QED
    BY <1>4, <1>7, <1>8, <1>9, <1>10 DEF ControlInv, UnfinishedExact, Busy

\* publish() or close() takes the loop without a change to the queue.
LEMMA LoopTaken ==
  ASSUME ControlInv, (\E m \in Messages : PublishBlocks(m)) \/ CloseJoined
                     \/ (Close /\ (~consuming \/ Full))
  PROVE  ControlInv'
  <1>1. UNCHANGED <<direction, queue, unfinished, run, inHand, consuming, published, consumed>>
    BY DEF PublishBlocks, CloseJoined, Close
  <1>2. \A r \in Runs : run[r] # "top"
    BY BridgeAssumption DEF PublishBlocks, CloseJoined, Close, ControlInv, LoopKept, Free
  <1>3. /\ loop' \in Messages \cup {Closer, Nobody}
        /\ closer' \in {closer, "put", "join", "closed"} /\ (closer' = "join" => loop' = Closer)
    BY BridgeAssumption DEF PublishBlocks, CloseJoined, Close, Join, ControlInv, LoopKept, Free
  <1>4. \A r \in Runs : Active(r) => consuming
    <2>1. CASE closer # "join"
      BY <2>1 DEF ControlInv, FlagKept
    <2>2. CASE closer = "join"
      <3>1. CloseJoined
        BY <2>2, BridgeAssumption DEF PublishBlocks, Close, ControlInv, LoopKept, Free
      <3>2. queue = <<>>
        BY <3>1, CountMeans DEF CloseJoined, ControlInv
      <3> QED
        BY <3>2 DEF ControlInv, FlagKept
    <2> QED
      BY <2>1, <2>2
  <1>5. TypeOK'
    BY <1>1, <1>3 DEF ControlInv, TypeOK
  <1>6. HandsKept' /\ QueueKept' /\ UnfinishedExact'
    BY <1>1 DEF ControlInv, HandsKept, QueueKept, UnfinishedExact
  <1>7. LoopKept' /\ FlagKept' /\ OneConsumer'
    BY <1>1, <1>2, <1>3, <1>4 DEF ControlInv, LoopKept, FlagKept, OneConsumer, Active
  <1> QED
    BY <1>5, <1>6, <1>7 DEF ControlInv

LEMMA BreakPut ==
  ASSUME ControlInv, ~Full, Put(Break), consuming' = FALSE, Join, loop \in {Nobody, Closer},
         UNCHANGED <<direction, run, inHand, published, consumed>>
  PROVE  ControlInv'
  <1>1. /\ queue' \in Seq(Messages \cup {Break}) /\ Len(queue') = Len(queue) + 1 /\ queue' # <<>>
        /\ queue'[Len(queue')] = Break /\ \A k \in 1..Len(queue) : queue'[k] = queue[k]
    BY PutKeeps DEF ControlInv
  <1>2. Len(queue') <= MaxSize /\ unfinished' \in Nat
    BY <1>1, BridgeAssumption DEF ControlInv, TypeOK, Full, Put
  <1>3. TypeOK'
    BY <1>1, <1>2 DEF ControlInv, TypeOK, Join
  <1>4. QueueKept'
    BY <1>1 DEF ControlInv, TypeOK, QueueKept
  <1>5. UnfinishedExact'
    BY <1>1, CountMeans, BusyFinite DEF ControlInv, TypeOK, UnfinishedExact, Put, Busy
  <1>6. HandsKept' /\ OneConsumer' /\ FlagKept'
    BY <1>1 DEF ControlInv, HandsKept, OneConsumer, FlagKept, Active, Join
  <1>7. LoopKept'
    BY BridgeAssumption DEF ControlInv, LoopKept, Join
  <1> QED
    BY <1>3, <1>4, <1>5, <1>6, <1>7 DEF ControlInv

\* Every step keeps the control in order.
LEMMA ControlStep ==
  ASSUME ControlInv, [Next]_vars
  PROVE  ControlInv'
  <1>1. ASSUME NEW m \in Messages, Publish(m) \/ PublishBlocks(m)
        PROVE  ControlInv'
    <2>1. m # Break
      BY BridgeAssumption
    <2> QED
      BY <1>1, <2>1, PublishStep, LoopTaken DEF Publish
  <1>2. CASE PublishNone
    BY <1>2, PublishStep DEF PublishNone
  <1>3. ASSUME NEW r \in Runs, Run(r) \/ RunStep(r) \/ CancelRun(r)
        PROVE  ControlInv'
    BY <1>3, RunStarts, GetStep, ConsumerSteps, TaskDoneStep DEF RunStep
  <1>4. CASE Close
    <2>1. CASE ~consuming \/ Full
      BY <1>4, <2>1, LoopTaken
    <2>2. CASE consuming /\ ~Full
      BY <1>4, <2>2, BreakPut DEF Close, Free
    <2> QED
      BY <2>1, <2>2
  <1>5. CASE CloseStep
    BY <1>5, BreakPut, LoopTaken DEF CloseStep, ClosePut
  <1>6. CASE UNCHANGED vars
    BY <1>6 DEF vars, ControlInv, TypeOK, HandsKept, QueueKept, LoopKept, FlagKept, OneConsumer,
                UnfinishedExact, Active
  <1> QED
    BY <1>1, <1>2, <1>3, <1>4, <1>5, <1>6 DEF Next

-----------------------------------------------------------------------------
(* Where the messages are                                                   *)

LEMMA PutTraced ==
  ASSUME ControlInv, Traced, NEW item \in Messages \cup {Break}, Put(item),
         UNCHANGED <<inHand, consumed>>, published' \subseteq published \cup {item}
  PROVE  Traced'
  <1>1. /\ Len(queue) \in Nat /\ Len(queue') = Len(queue) + 1
        /\ queue'[Len(queue')] = item /\ \A k \in 1..Len(queue) : queue'[k] = queue[k]
    BY PutKeeps DEF ControlInv, TypeOK
  <1>2. Len(queue') \in 1..Len(queue') /\ \A k \in 1..Len(queue) : k \in 1..Len(queue')
    BY <1>1
  <1> SUFFICES ASSUME NEW m \in published'
               PROVE  \/ m \in consumed \/ (\E r \in Runs : inHand[r] = m)
                      \/ \E k \in 1..Len(queue') : queue'[k] = m
    BY DEF Traced
  <1>3. CASE m = item
    BY <1>1, <1>2, <1>3
  <1>4. CASE m # item
    BY <1>1, <1>2, <1>4 DEF Traced
  <1> QED
    BY <1>3, <1>4

LEMMA GetTraced ==
  ASSUME ControlInv, Traced, NEW r \in Runs, Get(r)
  PROVE  Traced'
  <1>1. queue # <<>> /\ queue' = Tail(queue) /\ consumed' = consumed /\ published' = published
    BY DEF Get
  <1>2. /\ Len(queue') = Len(queue) - 1 /\ Len(queue) \in Nat \ {0} /\ Head(queue) = queue[1]
        /\ \A k \in 1..Len(queue') : queue'[k] = queue[k + 1]
    BY <1>1, TailKeeps DEF ControlInv
  <1>3. inHand[r] = Nobody
    BY DEF Get, ControlInv, HandsKept
  <1> SUFFICES ASSUME NEW m \in published
               PROVE  \/ m \in consumed \/ (\E s \in Runs : inHand'[s] = m)
                      \/ \E k \in 1..Len(queue') : queue'[k] = m
    BY <1>1 DEF Traced
  <1>4. m # Break /\ m # Nobody
    BY BridgeAssumption DEF ControlInv, TypeOK
  <1>5. CASE m = queue[1]
    BY <1>2, <1>4, <1>5 DEF Get, ControlInv, TypeOK
  <1>6. ASSUME NEW k \in 1..Len(queue), queue[k] = m, k # 1
        PROVE  \E j \in 1..Len(queue') : queue'[j] = m
    <2>1. k - 1 \in 1..Len(queue') /\ (k - 1) + 1 = k
      BY <1>2, <1>6
    <2> QED
      BY <1>2, <1>6, <2>1
  <1>7. ASSUME NEW s \in Runs, inHand[s] = m
        PROVE  inHand'[s] = m
    BY <1>3, <1>4, <1>7 DEF Get, ControlInv, TypeOK
  <1> QED
    BY <1>5, <1>6, <1>7 DEF Traced

LEMMA TracedStep ==
  ASSUME ControlInv, Traced, [Next]_vars
  PROVE  Traced'
  <1>1. ASSUME NEW m \in Messages, Publish(m)
        PROVE  Traced'
    BY <1>1, PutTraced DEF Publish
  <1>2. CASE PublishNone
    BY <1>2, PutTraced DEF PublishNone
  <1>3. ASSUME NEW r \in Runs, Consume(r)
        PROVE  Traced'
    BY <1>3 DEF Consume, ConsumerRuns, Traced
  <1>4. ASSUME NEW r \in Runs, TaskDone(r)
        PROVE  Traced'
    BY <1>4 DEF TaskDone, Traced, ControlInv, HandsKept, TypeOK
  <1>5. CASE Put(Break) /\ UNCHANGED <<inHand, published, consumed>>
    BY <1>5, PutTraced
  <1>6. CASE UNCHANGED <<queue, inHand, published, consumed>>
    BY <1>6 DEF Traced
  <1>7. ASSUME NEW m \in Messages, PublishBlocks(m)
        PROVE  Traced'
    BY <1>6, <1>7 DEF PublishBlocks
  <1>8. ASSUME NEW r \in Runs, Run(r) \/ GetWaits(r) \/ CancelRun(r)
        PROVE  Traced'
    BY <1>6, <1>8 DEF Run, GetWaits, CancelRun
  <1>9. CASE Close \/ CloseStep
    BY <1>5, <1>6, <1>9 DEF Close, CloseStep, ClosePut, CloseJoined
  <1>10. CASE UNCHANGED vars
    BY <1>6, <1>10 DEF vars
  <1> QED
    BY <1>1, <1>2, <1>3, <1>4, <1>7, <1>8, <1>9, <1>10, GetTraced DEF Next, RunStep

\* Once the joins of close() return there is nothing left, and nothing comes after.
LEMMA DrainedStep ==
  ASSUME ControlInv, Traced, Drained, [Next]_vars
  PROVE  Drained'
  <1>1. CASE CloseJoined
    <2>1. queue = <<>> /\ Busy = {}
      BY <1>1, CountMeans DEF CloseJoined, ControlInv
    <2>2. published \subseteq consumed
      <3> SUFFICES ASSUME NEW m \in published, m \notin consumed
                   PROVE  FALSE
        OBVIOUS
      <3>1. \A k \in 1..Len(queue) : FALSE
        BY <2>1
      <3>2. PICK r \in Runs : inHand[r] = m
        BY <3>1 DEF Traced
      <3>3. r \in Busy
        BY <3>2, BridgeAssumption DEF Busy, ControlInv, TypeOK
      <3> QED
        BY <2>1, <3>3
    <2> QED
      BY <1>1, <2>1, <2>2 DEF CloseJoined, Drained, Busy, ControlInv, TypeOK
  <1>2. CASE closer # "closed" /\ ~CloseJoined
    <2>1. closer' # "closed"
      BY <1>2 DEF Next, vars, Publish, PublishBlocks, PublishNone, Run, RunStep, GetWaits, Get, Consume,
                  TaskDone, CancelRun, Close, CloseStep, ClosePut, Join
    <2> QED
      BY <2>1 DEF Drained
  <1>3. CASE closer = "closed"
    <2>1. queue = <<>> /\ published = consumed /\ \A r \in Runs : inHand[r] = Nobody
      BY <1>3 DEF Drained, Busy
    <2>2. \A r \in Runs : run[r] \notin {"consume", "consumed"}
      BY <2>1 DEF ControlInv, HandsKept
    <2>3. \A r \in Runs : ~Get(r) /\ ~Consume(r) /\ ~TaskDone(r)
      BY <2>1, <2>2 DEF Get, Consume, ConsumerRuns, TaskDone
    <2>4. UNCHANGED <<queue, inHand, published, consumed>>
      BY <1>3, <2>3 DEF Next, vars, Publish, PublishBlocks, PublishNone, Run, RunStep, GetWaits, CancelRun,
                        Close, CloseStep, ClosePut, CloseJoined
    <2> QED
      BY <1>3, <2>1, <2>4 DEF Drained, Busy
  <1> QED
    BY <1>1, <1>2, <1>3

LEMMA BridgeBegins == Init => BridgeInv
  <1> SUFFICES ASSUME Init
               PROVE  BridgeInv
    OBVIOUS
  <1>1. TypeOK
    <2>1. queue \in Seq(Messages \cup {Break}) /\ Len(queue) <= MaxSize /\ unfinished \in Nat
      BY BridgeAssumption DEF Init
    <2>2. loop = Nobody /\ run \in [Runs -> {"out"}] /\ inHand \in [Runs -> {Nobody}]
      BY DEF Init
    <2> QED
      BY <2>1, <2>2 DEF Init, TypeOK
  <1>2. queue = <<>> /\ published = {} /\ closer = "out" /\ \A r \in Runs : run[r] = "out" /\ inHand[r] = Nobody
    BY DEF Init
  <1>5. HandsKept /\ QueueKept /\ Traced /\ Drained
    BY <1>2 DEF HandsKept, QueueKept, Traced, Drained
  <1>6. LoopKept /\ FlagKept /\ OneConsumer
    BY <1>2 DEF LoopKept, FlagKept, OneConsumer, Active
  <1>3. {r \in Runs : inHand[r] # Nobody} = {} /\ Len(queue) = 0 /\ unfinished = 0
    BY DEF Init
  <1>4. UnfinishedExact
    BY <1>3, FS_EmptySet DEF UnfinishedExact
  <1> QED
    BY <1>1, <1>4, <1>5, <1>6 DEF BridgeInv, ControlInv

LEMMA BridgeInvariant == Spec => []BridgeInv
  <1>1. BridgeInv /\ [Next]_vars => BridgeInv'
    BY ControlStep, TracedStep, DrainedStep DEF BridgeInv
  <1> QED
    BY <1>1, BridgeBegins, PTL DEF Spec

-----------------------------------------------------------------------------
\* Two calls of run() never consume at the same time, although close() clears
\* __is_consuming while one still consumes.
THEOREM OneConsumerAtATime == Spec => []OneConsumer
  <1>1. BridgeInv => OneConsumer
    BY DEF BridgeInv, ControlInv
  <1> QED
    BY <1>1, BridgeInvariant, PTL

\* join() waits for exactly the items that are queued or in the hands of a run(),
\* those of cancelled ones included.
THEOREM UnfinishedIsExact == Spec => []UnfinishedExact
  <1>1. BridgeInv => UnfinishedExact
    BY DEF BridgeInv, ControlInv
  <1> QED
    BY <1>1, BridgeInvariant, PTL

\* A bridge that is closed has consumed all that was published to it.
THEOREM ClosedBridgeIsDrained == Spec => []ClosedMeansDrained
  <1>1. BridgeInv => ClosedMeansDrained
    BY DEF BridgeInv, Drained, Busy, ClosedMeansDrained
  <1> QED
    BY <1>1, BridgeInvariant, PTL

-----------------------------------------------------------------------------
(* Who holds the loop, and when it is lost                                  *)

\* A run() holds the loop when it is about to get, and the synchronous side's until it has
\* marked its item; close() holds it to join, or to wait for room in a full queue.
LoopHeld ==
  /\ \A r \in Runs : loop = r => run[r] = "top" \/ (direction = "syncPub" /\ run[r] = "consumed")
  /\ \A r \in Runs : direction = "syncPub" /\ run[r] = "consumed" => loop = r
  /\ loop = Closer => closer = "join" \/ (closer = "put" /\ Full)

\* The loop is kept by a call that waits, on it, for what only the loop could bring about: a
\* publish() or close() that waits for room, a join() for what is not marked done, or a run()
\* of AsyncPubSyncSub for an item.
Blocked ==
  \/ loop \in Messages
  \/ loop = Closer /\ (closer = "put" \/ unfinished > 0)
  \/ loop \in Runs /\ direction = "asyncPub" /\ queue = <<>>

\* A run() can take its next step.
CanStep(r) ==
  \/ run[r] = "top" /\ (queue # <<>> \/ direction = "syncPub")
  \/ run[r] = "wait" /\ queue # <<>> /\ Free
  \/ run[r] = "consume" /\ (direction = "asyncPub" \/ Free)
  \/ run[r] = "consumed" /\ loop = IF direction = "asyncPub" THEN Nobody ELSE r

\* A run() that consumes goes on, unless it awaits an item and there is none, or the loop
\* is lost.
ConsumerGoesOn ==
  \A r \in Runs : Active(r) /\ ~(run[r] = "wait" /\ queue = <<>>) => CanStep(r) \/ Blocked

\* A loop that is lost is lost for good.
BlockedStays == [][Blocked => Blocked' /\ loop' = loop]_vars

LEMMA LoopHeldStays ==
  ASSUME ControlInv, LoopHeld, [Next]_vars
  PROVE  LoopHeld'
  <1>0. /\ \A r \in Runs : r # Nobody /\ r # Closer /\ r \notin Messages
        /\ Closer # Nobody /\ Closer \notin Messages /\ Nobody \notin Messages
        /\ run \in [Runs -> {"out", "top", "wait", "consume", "consumed", "cancelled", "ended"}]
    BY BridgeAssumption DEF ControlInv, TypeOK
  <1>1. ASSUME NEW m \in Messages, Publish(m) PROVE LoopHeld'
    <2>1. ~Full /\ UNCHANGED <<direction, loop, run, closer>>
      BY <1>1 DEF Publish
    <2> QED
      BY <2>1 DEF LoopHeld
  <1>2. CASE PublishNone
    <2>1. ~Full /\ UNCHANGED <<direction, loop, run, closer>>
      BY <1>2 DEF PublishNone
    <2> QED
      BY <2>1 DEF LoopHeld
  <1>3. ASSUME NEW m \in Messages, PublishBlocks(m) PROVE LoopHeld'
    BY <1>0, <1>3 DEF PublishBlocks, Free, LoopHeld
  <1>4. ASSUME NEW r \in Runs, Run(r) PROVE LoopHeld'
    <2>1. CASE consuming
      <3>1. run' = [run EXCEPT ![r] = "ended"] /\ Free /\ UNCHANGED <<direction, loop, closer>>
        BY <1>4, <2>1 DEF Run
      <3> QED
        BY <1>0, <3>1 DEF Free, LoopHeld
    <2>2. CASE ~consuming
      <3>1. run' = [run EXCEPT ![r] = "top"] /\ loop' = r /\ Free /\ UNCHANGED <<direction, closer>>
        BY <1>4, <2>2 DEF Run
      <3> QED
        BY <1>0, <3>1 DEF Free, LoopHeld
    <2> QED
      BY <2>1, <2>2
  <1>5. ASSUME NEW r \in Runs, GetWaits(r) \/ Get(r) PROVE LoopHeld'
    <2>1. /\ loop = r \/ Free
          /\ run[r] \in {"top", "wait"} /\ loop' = Nobody /\ UNCHANGED <<direction, closer>>
          /\ \E place \in {"wait", "ended", "consume"} : run' = [run EXCEPT ![r] = place]
      BY <1>5 DEF GetWaits, Get, ControlInv, LoopKept
    <2>2. \A s \in Runs : direction = "syncPub" => run[s] # "consumed"
      BY <1>0, <2>1 DEF Free, LoopHeld
    <2> QED
      BY <1>0, <2>1, <2>2 DEF LoopHeld
  <1>6. ASSUME NEW r \in Runs, Consume(r) PROVE LoopHeld'
    <2>1. /\ run[r] = "consume" /\ run' = [run EXCEPT ![r] = "consumed"]
          /\ IF direction = "asyncPub" THEN UNCHANGED loop ELSE Free /\ loop' = r
          /\ UNCHANGED <<direction, queue, closer>> /\ direction \in {"asyncPub", "syncPub"}
      BY <1>6, BridgeAssumption DEF Consume, ConsumerRuns, ControlInv, TypeOK
    <2>2. loop # r
      BY <2>1 DEF LoopHeld
    <2>3. CASE direction = "asyncPub"
      BY <1>0, <2>1, <2>2, <2>3 DEF LoopHeld, Full
    <2>4. CASE direction = "syncPub"
      BY <1>0, <2>1, <2>4 DEF LoopHeld, Free
    <2> QED
      BY <2>1, <2>3, <2>4
  <1>7. ASSUME NEW r \in Runs, TaskDone(r) PROVE LoopHeld'
    BY <1>0, <1>7 DEF TaskDone, LoopHeld
  <1>8. ASSUME NEW r \in Runs, CancelRun(r) PROVE LoopHeld'
    BY <1>0, <1>8 DEF CancelRun, Free, LoopHeld
  <1>9. CASE Close
    <2>1. /\ Free /\ UNCHANGED <<direction, run>>
          /\ closer' = "join" \/ (closer' = "put" /\ Full /\ UNCHANGED queue)
          /\ loop' \in {Closer, Nobody}
      BY <1>9 DEF Close, Join
    <2> QED
      BY <1>0, <2>1 DEF Free, Full, LoopHeld
  <1>10. CASE ClosePut
    BY <1>0, <1>10 DEF ClosePut, Join, LoopHeld
  <1>11. CASE CloseJoined
    BY <1>0, <1>11 DEF CloseJoined, LoopHeld, ControlInv, LoopKept
  <1>12. CASE UNCHANGED vars
    BY <1>12 DEF vars, LoopHeld, Full
  <1> QED
    BY <1>1, <1>2, <1>3, <1>4, <1>5, <1>6, <1>7, <1>8, <1>9, <1>10, <1>11, <1>12
       DEF Next, RunStep, CloseStep

LEMMA LoopHeldHolds == Spec => []LoopHeld
  <1>1. Init => LoopHeld
    BY BridgeAssumption DEF Init, LoopHeld
  <1>2. BridgeInv /\ LoopHeld /\ [Next]_vars => LoopHeld'
    BY LoopHeldStays DEF BridgeInv
  <1> QED
    BY <1>1, <1>2, BridgeInvariant, PTL DEF Spec

\* A run() that consumes can always go on with what is queued or in its hands, in either
\* class, unless the loop is held by a call that waits on it (run, publish, close and join
\* of aioqueue.py): what QueuedIsConsumed rests on.
THEOREM ConsumersGoOn == Spec => []ConsumerGoesOn
  <1>1. BridgeInv /\ LoopHeld => ConsumerGoesOn
    <2> SUFFICES ASSUME BridgeInv, LoopHeld, NEW r \in Runs, Active(r), ~Blocked,
                        ~(run[r] = "wait" /\ queue = <<>>)
                 PROVE  CanStep(r)
      BY DEF ConsumerGoesOn
    <2>1. direction \in {"asyncPub", "syncPub"} /\ loop \in Runs \cup {Closer, Nobody}
      BY BridgeAssumption DEF BridgeInv, ControlInv, TypeOK, Blocked
    <2>2. loop # Closer
      <3> SUFFICES ASSUME loop = Closer PROVE FALSE
        OBVIOUS
      <3>1. closer = "join" /\ unfinished = 0
        BY DEF LoopHeld, Blocked, BridgeInv, ControlInv, TypeOK
      <3>2. queue = <<>> /\ Busy = {}
        BY <3>1, CountMeans DEF BridgeInv, ControlInv
      <3>3. run[r] = "top"
        BY <3>2 DEF Active, Busy, BridgeInv, ControlInv, HandsKept
      <3> QED
        BY <3>3, BridgeAssumption DEF BridgeInv, ControlInv, LoopKept
    <2>3. ASSUME NEW s \in Runs, loop = s PROVE s = r
      BY <2>3 DEF LoopHeld, Active, BridgeInv, ControlInv, OneConsumer
    <2>4. CASE run[r] = "top"
      BY <2>1, <2>4 DEF CanStep, Blocked, BridgeInv, ControlInv, LoopKept
    <2>5. CASE run[r] \in {"wait", "consume"}
      BY <2>1, <2>2, <2>3, <2>5 DEF CanStep, Free, LoopHeld
    <2>6. CASE run[r] = "consumed"
      BY <2>1, <2>2, <2>3, <2>6 DEF CanStep, LoopHeld
    <2> QED
      BY <2>4, <2>5, <2>6 DEF Active
  <1> QED
    BY <1>1, BridgeInvariant, LoopHeldHolds, PTL

LEMMA BlockedStep ==
  ASSUME BridgeInv, LoopHeld, Blocked, [Next]_vars
  PROVE  Blocked' /\ loop' = loop
  <1>1. /\ loop # Nobody /\ direction \in {"asyncPub", "syncPub"} /\ unfinished \in Nat
        /\ \A r \in Runs : r # Closer /\ r # Nobody /\ r \notin Messages
        /\ Closer # Nobody /\ Closer \notin Messages
    BY BridgeAssumption DEF Blocked, BridgeInv, ControlInv, TypeOK
  <1>2. ASSUME NEW m \in Messages, Publish(m) PROVE Blocked' /\ loop' = loop
    BY <1>1, <1>2 DEF Publish, Put, Free, Blocked
  <1>3. CASE PublishNone
    BY <1>1, <1>3 DEF PublishNone, Put, Free, Blocked
  <1>4. ASSUME NEW r \in Runs, Get(r) \/ GetWaits(r) PROVE FALSE
    BY <1>1, <1>4 DEF Get, GetWaits, Free, Blocked, BridgeInv, ControlInv, LoopKept
  <1>5. ASSUME NEW r \in Runs, Consume(r) PROVE Blocked' /\ loop' = loop
    BY <1>1, <1>5 DEF Consume, ConsumerRuns, Free, Blocked
  <1>6. ASSUME NEW r \in Runs, TaskDone(r) PROVE FALSE
    BY <1>1, <1>6 DEF TaskDone, Blocked
  <1>7. CASE CloseStep
    <2>1. ~ClosePut
      BY <1>1 DEF ClosePut, LoopHeld
    <2>2. ~CloseJoined
      BY <1>1 DEF CloseJoined, Blocked, BridgeInv, ControlInv, LoopKept
    <2> QED
      BY <1>7, <2>1, <2>2 DEF CloseStep
  <1>8. CASE UNCHANGED vars
    BY <1>8 DEF vars, Blocked
  <1>9. ~Close /\ \A m \in Messages : ~PublishBlocks(m)
    BY <1>1 DEF Close, PublishBlocks, Free
  <1>10. \A r \in Runs : ~Run(r) /\ ~CancelRun(r)
    BY <1>1 DEF Run, CancelRun, Free
  <1> QED
    BY <1>2, <1>3, <1>4, <1>5, <1>6, <1>7, <1>8, <1>9, <1>10 DEF Next, RunStep

\* What waits on the loop for the loop waits for ever, whatever is published from other
\* threads: a close() that joins while anything is queued or in hand, or that finds a full
\* queue, a publish() that does, and AsyncPubSyncSub.run() on an empty queue.
THEOREM LostLoopStaysLost == Spec => BlockedStays
  <1>1. BridgeInv /\ LoopHeld /\ [Next]_vars => [Blocked => Blocked' /\ loop' = loop]_vars
    BY BlockedStep
  <1> QED
    BY <1>1, BridgeInvariant, LoopHeldHolds, PTL DEF Spec, BlockedStays
=============================================================================
