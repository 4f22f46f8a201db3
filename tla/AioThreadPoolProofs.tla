------------------------ MODULE AioThreadPoolProofs ------------------------
(***************************************************************************)
(* Theorems about AioThreadPool, for any finite sets of items and workers, *)
(* any set of shutdown calls and any of the faults: where the wake-ups are,*)
(* and where the items are, each in one place, at a stage that agrees with *)
(* its future.  Hence no item is lost or run twice, and nobody overwrites  *)
(* what somebody else decided.  Then the idle semaphore, and the promise.  *)
(***************************************************************************)
EXTENDS AioThreadPool, FiniteSetTheorems, TLAPS

-----------------------------------------------------------------------------
(* Sequences                                                                *)

\* What is left of a queue when its head is taken.
LEMMA TailFacts ==
  ASSUME NEW S, NEW s \in Seq(S), s # <<>>
  PROVE  /\ Head(s) \in S
         /\ Tail(s) \in Seq(S)
         /\ Len(s) \in Nat /\ Len(s) > 0
         /\ Len(Tail(s)) = Len(s) - 1
         /\ Head(s) = s[1]
         /\ \A k \in 1..Len(Tail(s)) : Tail(s)[k] = s[k+1] /\ k+1 \in 1..Len(s)
  OBVIOUS

\* What a put does to a queue.
LEMMA AppendFacts ==
  ASSUME NEW S, NEW s \in Seq(S), NEW e \in S
  PROVE  /\ Append(s, e) \in Seq(S)
         /\ Len(s) \in Nat
         /\ Len(Append(s, e)) = Len(s) + 1
         /\ Append(s, e)[Len(s) + 1] = e
         /\ \A k \in 1..Len(s) : Append(s, e)[k] = s[k]
  OBVIOUS

\* What several wake-ups put at once do to a queue.
LEMMA WakeUpsFacts ==
  ASSUME NEW s \in Seq(Entries), NEW n \in Nat
  PROVE  LET t == s \o WakeUps(n)
         IN  /\ t \in Seq(Entries)
             /\ Len(s) \in Nat
             /\ Len(t) = Len(s) + n
             /\ \A k \in 1..Len(s) : t[k] = s[k]
             /\ \A k \in Len(s)+1 .. Len(s)+n : t[k] = WakeUp
  <1>1. WakeUps(n) \in Seq(Entries) /\ Len(WakeUps(n)) = n
    BY DEF WakeUps, Entries
  <1>2. \A k \in 1..n : WakeUps(n)[k] = WakeUp
    BY DEF WakeUps
  <1> QED
    BY <1>1, <1>2

\* The threads can be counted, whatever set of them is meant.
LEMMA ThreadsCount ==
  ASSUME NEW S \in SUBSET Workers
  PROVE  IsFiniteSet(S) /\ Cardinality(S) \in Nat
  BY WorkersAssumption, FS_Subset, FS_CardinalityType

-----------------------------------------------------------------------------
(* Types                                                                    *)

\* A step of submit(), or a cancellation, keeps the types.
LEMMA ClientTyping ==
  ASSUME TypeOK, NEW i \in Items,
         \/ SubmitPut(i) \/ SubmitRefused(i) \/ AdjustThreadCount(i) \/ ThreadStartRaises(i)
         \/ CancelFuture(i)
  PROVE  TypeOK'
  <1> USE DEF TypeOK, FutureStates, WorkerStates, Entries, Spawned
  <1>1. CASE SubmitPut(i)
    BY <1>1 DEF SubmitPut
  <1>2. CASE SubmitRefused(i)
    BY <1>2 DEF SubmitRefused
  <1>3. CASE AdjustThreadCount(i)
    BY <1>3 DEF AdjustThreadCount
  <1>4. CASE CancelFuture(i)
    BY <1>4 DEF CancelFuture
  <1>5. CASE ThreadStartRaises(i)
    BY <1>5 DEF ThreadStartRaises
  <1> QED
    BY <1>1, <1>2, <1>3, <1>4, <1>5

\* A step of a worker keeps the types.
LEMMA WorkerTyping ==
  ASSUME TypeOK, NEW w \in Workers, WorkerStep(w)
  PROVE  TypeOK'
  <1> USE DEF TypeOK, FutureStates, WorkerStates, Goto
  <1>1. CASE Initialized(w)
    BY <1>1 DEF Initialized
  <1>2. CASE InitializerRaises(w)
    BY <1>2 DEF InitializerRaises
  <1>3. CASE MarkBroken(w)
    BY <1>3 DEF MarkBroken
  <1>4. CASE Drain(w)
    <2>1. CASE queue = <<>>
      BY <1>4, <2>1 DEF Drain
    <2>2. CASE queue # <<>>
      <3>1. Head(queue) \in Entries /\ Tail(queue) \in Seq(Entries)
        BY <2>2, TailFacts
      <3>2. /\ queue' \in Seq(Entries)
            /\ future' \in [Items -> FutureStates]
            /\ worker' \in [Workers -> WorkerStates]
            /\ lock' \in Items \cup Workers \cup Callers \cup {Nobody}
        BY <1>4, <2>2, <3>1 DEF Drain, Entries
      <3> QED
        BY <1>4, <3>2 DEF Drain
    <2> QED
      BY <2>1, <2>2
  <1>5. CASE Get(w)
    <2>1. Head(queue) \in Entries /\ Tail(queue) \in Seq(Entries)
      BY <1>5, TailFacts DEF Get
    <2>2. /\ queue' \in Seq(Entries)
          /\ worker' \in [Workers -> WorkerStates]
          /\ held' \in [Workers -> Items \cup {Nobody}]
      BY <1>5, <2>1 DEF Get, Entries
    <2> QED
      BY <1>5, <2>2 DEF Get
  <1>6. CASE Start(w)
    BY <1>6 DEF Start
  <1>7. CASE Finish(w)
    BY <1>7 DEF Finish
  <1>8. CASE Escape(w)
    BY <1>8 DEF Escape
  <1>9. CASE Release(w)
    BY <1>9 DEF Release
  <1>10. CASE Check(w)
    BY <1>10 DEF Check
  <1>11. CASE Notify(w)
    <2>1. queue' \in Seq(Entries)
      BY <1>11, AppendFacts DEF Notify, Entries
    <2> QED
      BY <1>11, <2>1 DEF Notify
  <1> QED
    BY <1>1, <1>2, <1>3, <1>4, <1>5, <1>6, <1>7, <1>8, <1>9, <1>10, <1>11 DEF WorkerStep

\* A step of shutdown() keeps the types.
LEMMA ShutdownTyping ==
  ASSUME TypeOK, NEW c \in Callers, ShutdownBegin(c) \/ ShutdownStep(c)
  PROVE  TypeOK'
  <1> USE DEF TypeOK, FutureStates, CallerStates, Entries
  <1>1. CASE ShutdownBegin(c)
    BY <1>1 DEF ShutdownBegin
  <1>2. CASE CancelQueued(c)
    <2>1. CASE queue = <<>>
      BY <1>2, <2>1 DEF CancelQueued
    <2>2. CASE queue # <<>>
      <3>1. Head(queue) \in Entries /\ Tail(queue) \in Seq(Entries)
        BY <2>2, TailFacts
      <3>2. /\ queue' \in Seq(Entries)
            /\ future' \in [Items -> FutureStates]
        BY <1>2, <2>2, <3>1 DEF CancelQueued
      <3> QED
        BY <1>2, <2>2, <3>2 DEF CancelQueued
    <2> QED
      BY <2>1, <2>2
  <1>3. CASE ShutdownWake(c)
    BY <1>3 DEF ShutdownWake
  <1>4. CASE ShutdownJoin(c)
    BY <1>4 DEF ShutdownJoin
  <1> QED
    BY <1>1, <1>2, <1>3, <1>4 DEF ShutdownStep

\* The end of the executor, and of the interpreter, keeps the types.
LEMMA EndTyping ==
  ASSUME TypeOK, Collect \/ MainEnds \/ InterpStep
  PROVE  TypeOK'
  <1> USE DEF TypeOK, InterpStates, pool
  <1>1. CASE Collect
    BY <1>1, ThreadsCount, WakeUpsFacts DEF Collect, Spawned
  <1>2. CASE MainEnds
    BY <1>2 DEF MainEnds
  <1>3. CASE PythonExitFlag
    BY <1>3 DEF PythonExitFlag
  <1>4. CASE PythonExitWake
    BY <1>4, ThreadsCount, WakeUpsFacts DEF PythonExitWake, Spawned
  <1>5. CASE PythonExitJoin
    BY <1>5 DEF PythonExitJoin
  <1> QED
    BY <1>1, <1>2, <1>3, <1>4, <1>5 DEF InterpStep

\* Every state of the pool is of the types TypeOK gives its variables.
THEOREM Typing == Spec => []TypeOK
  <1>1. Init => TypeOK
    <2> SUFFICES ASSUME Init PROVE TypeOK
      OBVIOUS
    <2>1. queue \in Seq(Entries) /\ wait \in [Callers -> BOOLEAN]
      BY DEF Init
    <2> QED
      BY <2>1 DEF Init, TypeOK, FutureStates, WorkerStates, CallerStates, InterpStates
  <1>2. TypeOK /\ [Next]_vars => TypeOK'
    <2> SUFFICES ASSUME TypeOK, [Next]_vars PROVE TypeOK'
      OBVIOUS
    <2>1. CASE UNCHANGED vars
      BY <2>1 DEF vars, TypeOK
    <2> QED
      BY <2>1, ClientTyping, WorkerTyping, ShutdownTyping, EndTyping DEF Next
  <1> QED
    BY <1>1, <1>2, PTL DEF Spec

-----------------------------------------------------------------------------
(* Wake-ups and the work before them                                        *)

\* A call of shutdown() raises _shutdown before anything else.
ShutdownFlags == \A c \in Callers : caller[c] # "out" => shut

\* The inductive invariant.  A wake-up implies that the pool is closed, and a
\* closed pool queues no item, so nothing follows a wake-up but wake-ups; the
\* thread that takes the first of them therefore leaves no item behind.
QueueInv ==
  /\ TypeOK
  /\ ShutdownFlags
  /\ WakeUpMeansLeave
  /\ WakeUpsLast
  /\ LeavesNoWork

\* Taking the head of the queue keeps the wake-ups last, brings none in, and
\* leaves only wake-ups behind a wake-up.
LEMMA TakeHead ==
  ASSUME TypeOK, WakeUpsLast, queue # <<>>, queue' = Tail(queue)
  PROVE  /\ WakeUpsLast'
         /\ \A k \in 1..Len(queue') : queue'[k] = WakeUp =>
              \E j \in 1..Len(queue) : queue[j] = WakeUp
         /\ \A i \in Items : Queued(i)' => Queued(i)
         /\ Head(queue) = WakeUp => \A i \in Items : ~Queued(i)'
  <1>1. /\ Len(queue) \in Nat /\ Len(queue) > 0
        /\ Len(queue') = Len(queue) - 1
        /\ Head(queue) = queue[1]
        /\ \A k \in 1..Len(queue') : queue'[k] = queue[k+1] /\ k+1 \in 1..Len(queue)
    BY TailFacts DEF TypeOK
  <1>2. WakeUpsLast'
    BY <1>1 DEF WakeUpsLast
  <1>3. \A k \in 1..Len(queue') : queue'[k] = WakeUp =>
          \E j \in 1..Len(queue) : queue[j] = WakeUp
    BY <1>1
  <1>4. \A i \in Items : Queued(i)' => Queued(i)
    BY <1>1 DEF Queued
  <1>5. Head(queue) = WakeUp => \A i \in Items : ~Queued(i)'
    BY <1>1, ItemsAssumption DEF Queued, WakeUpsLast
  <1> QED
    BY <1>2, <1>3, <1>4, <1>5

\* Putting wake-ups at the end keeps them last, and queues no item.
LEMMA PutWakeUps ==
  ASSUME TypeOK, WakeUpsLast, NEW n \in Nat, queue' = queue \o WakeUps(n)
  PROVE  WakeUpsLast' /\ \A i \in Items : Queued(i)' => Queued(i)
  <1>1. /\ Len(queue) \in Nat /\ Len(queue') = Len(queue) + n
        /\ \A k \in 1..Len(queue) : queue'[k] = queue[k]
        /\ \A k \in Len(queue)+1 .. Len(queue)+n : queue'[k] = WakeUp
    BY WakeUpsFacts DEF TypeOK
  <1>2. \A k \in 1..Len(queue') : k \in 1..Len(queue) \/ k \in Len(queue)+1 .. Len(queue)+n
    BY <1>1
  <1>3. WakeUpsLast'
    BY <1>1, <1>2 DEF WakeUpsLast
  <1> QED
    BY <1>1, <1>2, <1>3, ItemsAssumption DEF Queued

\* A single wake-up is a special case.
LEMMA PutWakeUp ==
  ASSUME TypeOK, WakeUpsLast, queue' = Append(queue, WakeUp)
  PROVE  WakeUpsLast' /\ \A i \in Items : Queued(i)' => Queued(i)
  <1>1. /\ Len(queue) \in Nat /\ Len(queue') = Len(queue) + 1
        /\ \A k \in 1..Len(queue) : queue'[k] = queue[k]
        /\ queue'[Len(queue) + 1] = WakeUp
    BY AppendFacts DEF TypeOK, Entries
  <1>2. \A k \in 1..Len(queue') : k \in 1..Len(queue) \/ k = Len(queue) + 1
    BY <1>1
  <1>3. WakeUpsLast'
    BY <1>1, <1>2 DEF WakeUpsLast
  <1> QED
    BY <1>1, <1>2, <1>3, ItemsAssumption DEF Queued

\* An item goes in the queue only when there is no wake-up anywhere.
LEMMA PutItem ==
  ASSUME QueueInv, NEW i \in Items, SubmitPut(i)
  PROVE  QueueInv'
  <1>1. TypeOK'
    BY ClientTyping DEF QueueInv
  <1>2. /\ ~Closed
        /\ \A k \in 1..Len(queue) : queue[k] # WakeUp
        /\ \A w \in Workers : ~Woken(w)
    BY DEF QueueInv, SubmitPut, Closed, WakeUpMeansLeave
  <1>3. /\ Len(queue) \in Nat /\ Len(queue') = Len(queue) + 1
        /\ \A k \in 1..Len(queue) : queue'[k] = queue[k]
        /\ queue'[Len(queue) + 1] = i
    BY AppendFacts DEF QueueInv, TypeOK, SubmitPut, Entries
  <1>4. \A k \in 1..Len(queue') : queue'[k] # WakeUp
    BY <1>2, <1>3, ItemsAssumption
  <1>5. \A w \in Workers : ~Woken(w)'
    BY <1>2 DEF SubmitPut, Woken
  <1>6. WakeUpsLast' /\ WakeUpMeansLeave' /\ LeavesNoWork'
    BY <1>4, <1>5 DEF WakeUpsLast, WakeUpMeansLeave, LeavesNoWork
  <1>7. ShutdownFlags'
    BY DEF QueueInv, ShutdownFlags, SubmitPut
  <1> QED
    BY <1>1, <1>6, <1>7 DEF QueueInv

\* A step that leaves the queue alone, wakes no worker, and opens nothing that
\* is closed keeps the invariant.
LEMMA QuietStep ==
  ASSUME QueueInv, TypeOK', queue' = queue, Closed => Closed', ShutdownFlags',
         \A w \in Workers : Woken(w)' => Woken(w)
  PROVE  QueueInv'
  <1>1. WakeUpsLast'
    BY DEF QueueInv, WakeUpsLast
  <1>2. WakeUpMeansLeave'
    BY DEF QueueInv, WakeUpMeansLeave
  <1>3. LeavesNoWork'
    BY DEF QueueInv, LeavesNoWork, Queued
  <1> QED
    BY <1>1, <1>2, <1>3 DEF QueueInv

\* A step that sends wake-ups to a closed pool keeps the invariant.
LEMMA WakingStep ==
  ASSUME QueueInv, TypeOK', Closed', ShutdownFlags',
         WakeUpsLast', \A i \in Items : Queued(i)' => Queued(i),
         \A w \in Workers : Woken(w)' => Woken(w)
  PROVE  QueueInv'
  <1>1. WakeUpMeansLeave'
    BY DEF WakeUpMeansLeave
  <1>2. LeavesNoWork'
    BY DEF QueueInv, LeavesNoWork
  <1> QED
    BY <1>1, <1>2 DEF QueueInv

\* A step that takes the head of the queue keeps the invariant, if the only
\* worker it wakes is one that took a wake-up.
LEMMA TakingStep ==
  ASSUME QueueInv, TypeOK', queue # <<>>, queue' = Tail(queue),
         Closed => Closed', ShutdownFlags',
         \A w \in Workers : Woken(w)' => Woken(w) \/ Head(queue) = WakeUp
  PROVE  QueueInv'
  <1>1. /\ WakeUpsLast'
        /\ \A k \in 1..Len(queue') : queue'[k] = WakeUp =>
             \E j \in 1..Len(queue) : queue[j] = WakeUp
        /\ \A i \in Items : Queued(i)' => Queued(i)
        /\ Head(queue) = WakeUp => \A i \in Items : ~Queued(i)'
    BY TakeHead DEF QueueInv
  <1>2. Head(queue) = WakeUp => \E j \in 1..Len(queue) : queue[j] = WakeUp
    BY TailFacts DEF QueueInv, TypeOK
  <1>3. WakeUpMeansLeave'
    BY <1>1, <1>2 DEF QueueInv, WakeUpMeansLeave
  <1>4. LeavesNoWork'
    BY <1>1 DEF QueueInv, LeavesNoWork
  <1> QED
    BY <1>1, <1>3, <1>4 DEF QueueInv

\* The steps of submit(), and a cancellation.
LEMMA ClientQueueInv ==
  ASSUME QueueInv, NEW i \in Items,
         \/ SubmitPut(i) \/ SubmitRefused(i) \/ AdjustThreadCount(i) \/ ThreadStartRaises(i)
         \/ CancelFuture(i)
  PROVE  QueueInv'
  <1> USE DEF Closed, Exiting, ShutdownFlags, Woken
  <1>1. TypeOK'
    BY ClientTyping DEF QueueInv
  <1>2. CASE SubmitPut(i)
    BY <1>2, PutItem
  <1>3. CASE SubmitRefused(i)
    BY <1>1, <1>3, QuietStep DEF SubmitRefused, QueueInv
  <1>4. CASE AdjustThreadCount(i)
    <2>1. \A w \in Workers : Woken(w)' => Woken(w)
      BY <1>4 DEF AdjustThreadCount, QueueInv, TypeOK
    <2> QED
      BY <1>1, <1>4, <2>1, QuietStep DEF AdjustThreadCount, QueueInv
  <1>5. CASE CancelFuture(i)
    BY <1>1, <1>5, QuietStep DEF CancelFuture, QueueInv
  <1>6. CASE ThreadStartRaises(i)
    BY <1>1, <1>6, QuietStep DEF ThreadStartRaises, QueueInv
  <1> QED
    BY <1>2, <1>3, <1>4, <1>5, <1>6

\* The steps of a worker.
LEMMA WorkerQueueInv ==
  ASSUME QueueInv, NEW w \in Workers, WorkerStep(w)
  PROVE  QueueInv'
  <1> USE DEF Closed, Exiting, ShutdownFlags, Woken, Goto
  <1>1. TypeOK /\ TypeOK'
    BY WorkerTyping DEF QueueInv
  <1>2. CASE Initialized(w) \/ InitializerRaises(w) \/ MarkBroken(w)
    <2>1. \A v \in Workers : Woken(v)' => Woken(v)
      BY <1>1, <1>2 DEF Initialized, InitializerRaises, MarkBroken, TypeOK
    <2> QED
      BY <1>1, <1>2, <2>1, QuietStep
      DEF Initialized, InitializerRaises, MarkBroken, QueueInv
  <1>3. CASE Drain(w)
    <2>1. \A v \in Workers : Woken(v)' => Woken(v)
      BY <1>1, <1>3 DEF Drain, TypeOK
    <2>2. CASE queue = <<>>
      BY <1>1, <1>3, <2>1, <2>2, QuietStep DEF Drain, QueueInv
    <2>3. CASE queue # <<>>
      BY <1>1, <1>3, <2>1, <2>3, TakingStep DEF Drain, QueueInv
    <2> QED
      BY <2>2, <2>3
  <1>4. CASE Get(w)
    <2>1. \A v \in Workers : Woken(v)' => Woken(v) \/ Head(queue) = WakeUp
      BY <1>1, <1>4 DEF Get, TypeOK
    <2> QED
      BY <1>1, <1>4, <2>1, TakingStep DEF Get, QueueInv
  <1>5. CASE Start(w) \/ Finish(w) \/ Escape(w) \/ Release(w)
    <2>1. \A v \in Workers : Woken(v)' => Woken(v)
      BY <1>1, <1>5 DEF Start, Finish, Escape, Release, TypeOK
    <2> QED
      BY <1>1, <1>5, <2>1, QuietStep DEF Start, Finish, Escape, Release, QueueInv
  <1>6. CASE Check(w)
    <2>1. \A v \in Workers : Woken(v)' => Woken(v)
      BY <1>1, <1>6 DEF Check, TypeOK
    <2>2. (Closed => Closed') /\ ShutdownFlags'
      BY <1>6 DEF Check, QueueInv
    <2> QED
      BY <1>1, <1>6, <2>1, <2>2, QuietStep DEF Check
  <1>7. CASE Notify(w)
    <2>1. \A v \in Workers : Woken(v)' => Woken(v)
      BY <1>1, <1>7 DEF Notify, TypeOK
    <2>2. Closed /\ Closed'
      BY <1>7 DEF Notify, QueueInv, WakeUpMeansLeave
    <2>3. WakeUpsLast' /\ \A i \in Items : Queued(i)' => Queued(i)
      BY <1>1, <1>7, PutWakeUp DEF Notify, QueueInv
    <2> QED
      BY <1>1, <1>7, <2>1, <2>2, <2>3, WakingStep DEF Notify, QueueInv
  <1> QED
    BY <1>2, <1>3, <1>4, <1>5, <1>6, <1>7 DEF WorkerStep

\* The steps of shutdown().
LEMMA ShutdownQueueInv ==
  ASSUME QueueInv, NEW c \in Callers, ShutdownBegin(c) \/ ShutdownStep(c)
  PROVE  QueueInv'
  <1> USE DEF Closed, Exiting, ShutdownFlags, Woken
  <1>1. TypeOK /\ TypeOK'
    BY ShutdownTyping DEF QueueInv
  <1>2. CASE ShutdownBegin(c)
    BY <1>1, <1>2, QuietStep DEF ShutdownBegin, QueueInv
  <1>3. CASE CancelQueued(c)
    <2>1. ShutdownFlags'
      BY <1>1, <1>3 DEF CancelQueued, QueueInv, TypeOK
    <2>2. CASE queue = <<>>
      BY <1>1, <1>3, <2>1, <2>2, QuietStep DEF CancelQueued, QueueInv
    <2>3. CASE queue # <<>>
      BY <1>1, <1>3, <2>1, <2>3, TakingStep DEF CancelQueued, QueueInv
    <2> QED
      BY <2>2, <2>3
  <1>4. CASE ShutdownWake(c)
    <2>1. shut /\ ShutdownFlags'
      BY <1>1, <1>4 DEF ShutdownWake, QueueInv, TypeOK
    <2>2. WakeUpsLast' /\ \A i \in Items : Queued(i)' => Queued(i)
      BY <1>1, <1>4, PutWakeUp DEF ShutdownWake, QueueInv
    <2> QED
      BY <1>1, <1>4, <2>1, <2>2, WakingStep DEF ShutdownWake, QueueInv
  <1>5. CASE ShutdownJoin(c)
    <2>1. ShutdownFlags'
      BY <1>1, <1>5 DEF ShutdownJoin, QueueInv, TypeOK
    <2> QED
      BY <1>1, <1>5, <2>1, QuietStep DEF ShutdownJoin, QueueInv
  <1> QED
    BY <1>2, <1>3, <1>4, <1>5 DEF ShutdownStep

\* The end of the executor and of the interpreter.
LEMMA EndQueueInv ==
  ASSUME QueueInv, Collect \/ MainEnds \/ InterpStep
  PROVE  QueueInv'
  <1> USE DEF Closed, Exiting, ShutdownFlags, Woken, pool
  <1>1. TypeOK /\ TypeOK'
    BY EndTyping DEF QueueInv
  <1>2. CASE Collect
    <2>1. WakeUpsLast' /\ \A i \in Items : Queued(i)' => Queued(i)
      BY <1>1, <1>2, ThreadsCount, PutWakeUps DEF Collect, Spawned, QueueInv
    <2> QED
      BY <1>1, <1>2, <2>1, WakingStep DEF Collect, QueueInv
  <1>3. CASE MainEnds \/ PythonExitFlag \/ PythonExitJoin
    BY <1>1, <1>3, QuietStep DEF MainEnds, PythonExitFlag, PythonExitJoin, QueueInv
  <1>4. CASE PythonExitWake
    <2>1. WakeUpsLast' /\ \A i \in Items : Queued(i)' => Queued(i)
      BY <1>1, <1>4, ThreadsCount, PutWakeUps DEF PythonExitWake, Spawned, QueueInv
    <2> QED
      BY <1>1, <1>4, <2>1, WakingStep DEF PythonExitWake, QueueInv
  <1> QED
    BY <1>2, <1>3, <1>4 DEF InterpStep

\* QueueInv holds initially, and every step keeps it.
LEMMA QueueInvInvariant == Spec => []QueueInv
  <1>1. Init => QueueInv
    <2> SUFFICES ASSUME Init PROVE QueueInv
      OBVIOUS
    <2>1. TypeOK
      <3>1. queue \in Seq(Entries) /\ wait \in [Callers -> BOOLEAN]
        BY DEF Init
      <3> QED
        BY <3>1 DEF Init, TypeOK, FutureStates, WorkerStates, CallerStates, InterpStates
    <2>2. \A w \in Workers : ~Woken(w)
      BY DEF Init, Woken
    <2>3. Len(queue) = 0 /\ ShutdownFlags
      BY DEF Init, ShutdownFlags
    <2> QED
      BY <2>1, <2>2, <2>3 DEF QueueInv, WakeUpMeansLeave, WakeUpsLast, LeavesNoWork
  <1>2. QueueInv /\ [Next]_vars => QueueInv'
    <2> SUFFICES ASSUME QueueInv, [Next]_vars PROVE QueueInv'
      OBVIOUS
    <2>1. CASE UNCHANGED vars
      <3>1. TypeOK' /\ ShutdownFlags'
        BY <2>1 DEF vars, QueueInv, TypeOK, ShutdownFlags
      <3>2. Closed' = Closed /\ \A w \in Workers : Woken(w)' => Woken(w)
        BY <2>1 DEF vars, Closed, Exiting, Woken
      <3> QED
        BY <2>1, <3>1, <3>2, QuietStep DEF vars
    <2> QED
      BY <2>1, ClientQueueInv, WorkerQueueInv, ShutdownQueueInv, EndQueueInv DEF Next
  <1> QED
    BY <1>1, <1>2, PTL DEF Spec

\* No accepted item is ever behind a wake-up.
THEOREM WakeUpsStayLast == Spec => []WakeUpsLast
  BY QueueInvInvariant, PTL DEF QueueInv

\* A worker that leaves on a wake-up leaves no accepted item in the queue.
THEOREM WorkersLeaveNoWork == Spec => []LeavesNoWork
  BY QueueInvInvariant, PTL DEF QueueInv

\* There is a wake-up only when the pool is closed, so none is swallowed.
THEOREM WakeUpsMeanLeaving == Spec => []WakeUpMeansLeave
  BY QueueInvInvariant, PTL DEF QueueInv

-----------------------------------------------------------------------------
(* Places                                                                   *)

\* Futures that neither a worker nor the drain of a broken pool has decided.
Waiting == {"PENDING", "CANCELLED"}

\* No submit() has put the item in the queue.
Unsubmitted(i) == future[i] \in {"none", "refused"}

OnceQueued(i) ==
  \A j, k \in 1..Len(queue) : queue[j] = i /\ queue[k] = i => j = k

\* The queue holds each item once, and its future waits.
QueuePlaces ==
  \A i \in Items :
    /\ OnceQueued(i)
    /\ Queued(i) => future[i] \in Waiting /\ \A w \in Workers : held[w] # i

\* What a thread holds, and the future of what it holds, follow from where it is.
HandPlaces ==
  \A w \in Workers :
    /\ worker[w] \in {"taken", "run", "release"} => held[w] \in Items
    /\ held[w] \in Items =>
         /\ worker[w] \in {"taken", "run", "release", "dead"}
         /\ worker[w] = "taken" => future[held[w]] \in Waiting
         /\ worker[w] \in {"run", "dead"} => future[held[w]] = "RUNNING"
         /\ worker[w] = "release" =>
              future[held[w]] \in {"FINISHED", "CANCELLED_AND_NOTIFIED"}
         /\ \A v \in Workers : held[v] = held[w] => v = w

\* A pending item is somewhere.
SomePlace ==
  \A i \in Items :
    future[i] = "PENDING" =>
      Queued(i) \/ \E w \in Workers : held[w] = i /\ worker[w] = "taken"

\* The inductive invariant: PendingHasOnePlace does not say that a thread holds
\* only items whose futures are at the thread's own stage.
PlaceInv == TypeOK /\ QueuePlaces /\ HandPlaces /\ SomePlace

-----------------------------------------------------------------------------
(* What the operations on the queue do to the places of items               *)

\* Taking the head moves that entry only.
LEMMA HeadMoves ==
  ASSUME TypeOK, queue # <<>>, queue' = Tail(queue), NEW i \in Items, OnceQueued(i)
  PROVE  /\ OnceQueued(i)'
         /\ Queued(i)' <=> Queued(i) /\ Head(queue) # i
         /\ Head(queue) = i => Queued(i)
  <1>1. /\ Len(queue) \in Nat /\ Len(queue) > 0
        /\ Len(queue') = Len(queue) - 1
        /\ Head(queue) = queue[1]
        /\ \A k \in 1..Len(queue') : queue'[k] = queue[k+1] /\ k+1 \in 1..Len(queue)
    BY TailFacts DEF TypeOK
  <1>2. OnceQueued(i)'
    BY <1>1 DEF OnceQueued
  <1>3. Queued(i)' => Queued(i) /\ Head(queue) # i
    BY <1>1 DEF Queued, OnceQueued
  <1>4. ASSUME Queued(i), Head(queue) # i PROVE Queued(i)'
    <2>1. PICK k \in 1..Len(queue) : queue[k] = i
      BY <1>4 DEF Queued
    <2>2. k - 1 \in 1..Len(queue') /\ queue'[k - 1] = i
      BY <1>1, <1>4, <2>1
    <2> QED
      BY <2>2 DEF Queued
  <1>5. Head(queue) = i => Queued(i)
    BY <1>1 DEF Queued
  <1> QED
    BY <1>2, <1>3, <1>4, <1>5

\* Putting an item moves that item only.
LEMMA ItemMoves ==
  ASSUME TypeOK, NEW i \in Items, ~Queued(i), queue' = Append(queue, i),
         NEW j \in Items, OnceQueued(j)
  PROVE  OnceQueued(j)' /\ (Queued(j)' <=> Queued(j) \/ j = i)
  <1>1. /\ Len(queue) \in Nat /\ Len(queue') = Len(queue) + 1
        /\ \A k \in 1..Len(queue) : queue'[k] = queue[k]
        /\ queue'[Len(queue) + 1] = i
    BY AppendFacts DEF TypeOK, Entries
  <1>2. \A k \in 1..Len(queue') : k \in 1..Len(queue) \/ k = Len(queue) + 1
    BY <1>1
  <1>3. OnceQueued(j)'
    BY <1>1, <1>2 DEF OnceQueued, Queued
  <1>4. Queued(j)' => Queued(j) \/ j = i
    BY <1>1, <1>2 DEF Queued
  <1>5. Queued(j) => Queued(j)'
    BY <1>1 DEF Queued
  <1>6. Queued(i)'
    BY <1>1 DEF Queued
  <1> QED
    BY <1>3, <1>4, <1>5, <1>6

\* Putting wake-ups moves no item.
LEMMA WakeUpsMoveNothing ==
  ASSUME TypeOK, NEW n \in Nat, queue' = queue \o WakeUps(n),
         NEW i \in Items, OnceQueued(i)
  PROVE  OnceQueued(i)' /\ (Queued(i)' <=> Queued(i))
  <1>1. /\ Len(queue) \in Nat /\ Len(queue') = Len(queue) + n
        /\ \A k \in 1..Len(queue) : queue'[k] = queue[k]
        /\ \A k \in Len(queue)+1 .. Len(queue)+n : queue'[k] = WakeUp
    BY WakeUpsFacts DEF TypeOK
  <1>2. \A k \in 1..Len(queue') : k \in 1..Len(queue) \/ k \in Len(queue)+1 .. Len(queue)+n
    BY <1>1
  <1>3. OnceQueued(i)' /\ (Queued(i)' => Queued(i))
    BY <1>1, <1>2, ItemsAssumption DEF OnceQueued, Queued
  <1>4. Queued(i) => Queued(i)'
    BY <1>1 DEF Queued
  <1> QED
    BY <1>3, <1>4

\* Putting one wake-up moves no item.
LEMMA WakeUpMovesNothing ==
  ASSUME TypeOK, queue' = Append(queue, WakeUp), NEW i \in Items, OnceQueued(i)
  PROVE  OnceQueued(i)' /\ (Queued(i)' <=> Queued(i))
  <1>1. /\ Len(queue) \in Nat /\ Len(queue') = Len(queue) + 1
        /\ \A k \in 1..Len(queue) : queue'[k] = queue[k]
        /\ queue'[Len(queue) + 1] = WakeUp
    BY AppendFacts DEF TypeOK, Entries
  <1>2. \A k \in 1..Len(queue') : k \in 1..Len(queue) \/ k = Len(queue) + 1
    BY <1>1
  <1>3. OnceQueued(i)' /\ (Queued(i)' => Queued(i))
    BY <1>1, <1>2, ItemsAssumption DEF OnceQueued, Queued
  <1>4. Queued(i) => Queued(i)'
    BY <1>1 DEF Queued
  <1> QED
    BY <1>3, <1>4

-----------------------------------------------------------------------------
(* Steps that change the place of no item                                   *)

\* Where a thread is matters to the places only while it may hold an item.
Holding == {"taken", "run", "release", "dead"}

\* A step that moves no item and no future, and takes no thread to a place where
\* it holds an item, keeps the invariant.
LEMMA NothingMoves ==
  ASSUME PlaceInv, TypeOK', future' = future, held' = held,
         \A i \in Items : OnceQueued(i)' /\ (Queued(i)' <=> Queued(i)),
         \A w \in Workers :
           worker'[w] = worker[w] \/ (held[w] \notin Items /\ worker'[w] \notin Holding \ {"dead"})
  PROVE  PlaceInv'
  <1>1. QueuePlaces'
    BY DEF PlaceInv, QueuePlaces
  <1>2. HandPlaces'
    BY DEF PlaceInv, HandPlaces, Holding
  <1>3. SomePlace'
    BY DEF PlaceInv, SomePlace
  <1> QED
    BY <1>1, <1>2, <1>3 DEF PlaceInv

\* When the queue is the same, so are the places in it.
LEMMA SameQueue ==
  ASSUME PlaceInv, queue' = queue
  PROVE  \A i \in Items : OnceQueued(i)' /\ (Queued(i)' <=> Queued(i))
  BY DEF PlaceInv, QueuePlaces, OnceQueued, Queued

-----------------------------------------------------------------------------
(* Steps that move an item                                                  *)

\* A submit() puts a new item in the queue, where it was not.
LEMMA SubmitPlaces ==
  ASSUME PlaceInv, NEW i \in Items, SubmitPut(i)
  PROVE  PlaceInv'
  <1> USE DEF PlaceInv, SubmitPut
  <1>1. TypeOK /\ TypeOK'
    BY ClientTyping
  <1>2. ~Queued(i) /\ \A w \in Workers : held[w] # i
    BY <1>1 DEF QueuePlaces, HandPlaces, Waiting
  <1>3. \A j \in Items : OnceQueued(j)' /\ (Queued(j)' <=> Queued(j) \/ j = i)
    BY <1>1, <1>2, ItemMoves DEF QueuePlaces
  <1>4. future'[i] = "PENDING" /\ \A j \in Items \ {i} : future'[j] = future[j]
    BY <1>1 DEF TypeOK
  <1>5. QueuePlaces'
    BY <1>2, <1>3, <1>4 DEF QueuePlaces, Waiting
  <1>6. HandPlaces'
    BY <1>2, <1>4 DEF HandPlaces
  <1>7. SomePlace'
    BY <1>3, <1>4 DEF SomePlace
  <1> QED
    BY <1>1, <1>5, <1>6, <1>7

\* A refusal and a cancellation change the future of an item, not its place.
LEMMA FuturePlaces ==
  ASSUME PlaceInv, NEW i \in Items, SubmitRefused(i) \/ CancelFuture(i)
  PROVE  PlaceInv'
  <1> USE DEF PlaceInv
  <1>1. TypeOK /\ TypeOK'
    BY ClientTyping
  <1>2. queue' = queue /\ worker' = worker /\ held' = held
    BY DEF SubmitRefused, CancelFuture
  <1>3. \A j \in Items : OnceQueued(j)' /\ (Queued(j)' <=> Queued(j))
    BY <1>2, SameQueue
  <1>4. \A j \in Items \ {i} : future'[j] = future[j]
    BY <1>1 DEF SubmitRefused, CancelFuture, TypeOK
  <1>5. \/ future[i] = "none" /\ future'[i] = "refused"
        \/ future[i] = "PENDING" /\ future'[i] = "CANCELLED"
    BY <1>1 DEF SubmitRefused, CancelFuture, TypeOK
  <1>6. QueuePlaces'
    BY <1>2, <1>3, <1>4, <1>5 DEF QueuePlaces, Waiting
  <1>7. HandPlaces'
    BY <1>2, <1>4, <1>5 DEF HandPlaces, Waiting
  <1>8. SomePlace'
    BY <1>2, <1>3, <1>4, <1>5 DEF SomePlace
  <1> QED
    BY <1>1, <1>6, <1>7, <1>8

\* A worker takes an entry: an item goes from the queue to its hands.
LEMMA GetPlaces ==
  ASSUME PlaceInv, NEW w \in Workers, Get(w)
  PROVE  PlaceInv'
  <1> USE DEF PlaceInv, Get, Goto
  <1>1. TypeOK /\ TypeOK'
    BY WorkerTyping DEF WorkerStep
  <1>2. held[w] \notin Items
    BY DEF HandPlaces
  <1>3. \A i \in Items : /\ OnceQueued(i)'
                         /\ Queued(i)' <=> Queued(i) /\ Head(queue) # i
                         /\ Head(queue) = i => Queued(i)
    BY <1>1, HeadMoves DEF QueuePlaces
  <1>4. CASE Head(queue) = WakeUp
    <2>1. \A i \in Items : OnceQueued(i)' /\ (Queued(i)' <=> Queued(i))
      BY <1>3, <1>4, ItemsAssumption
    <2>2. \A v \in Workers :
            worker'[v] = worker[v] \/ (held[v] \notin Items /\ worker'[v] \notin Holding \ {"dead"})
      BY <1>1, <1>2, <1>4 DEF TypeOK, Holding
    <2> QED
      BY <1>1, <1>4, <2>1, <2>2, NothingMoves
  <1>5. CASE Head(queue) # WakeUp
    <2>1. Head(queue) \in Items
      BY <1>1, <1>5, TailFacts DEF TypeOK, Entries
    <2>2. /\ worker'[w] = "taken" /\ held'[w] = Head(queue)
          /\ \A v \in Workers \ {w} : worker'[v] = worker[v] /\ held'[v] = held[v]
          /\ future' = future
      BY <1>1, <1>5 DEF TypeOK
    <2>3. /\ Queued(Head(queue)) /\ future[Head(queue)] \in Waiting
          /\ \A v \in Workers : held[v] # Head(queue)
      BY <1>3, <2>1 DEF QueuePlaces
    <2>4. QueuePlaces'
      BY <1>3, <2>1, <2>2 DEF QueuePlaces
    <2>5. HandPlaces'
      BY <2>1, <2>2, <2>3 DEF HandPlaces
    <2>6. SomePlace'
      BY <1>3, <2>1, <2>2 DEF SomePlace
    <2> QED
      BY <1>1, <2>4, <2>5, <2>6
  <1> QED
    BY <1>4, <1>5

\* A worker carries the item it holds through its stages, and its future with it.
LEMMA CarryPlaces ==
  ASSUME PlaceInv, NEW w \in Workers, Start(w) \/ Finish(w) \/ Escape(w)
  PROVE  PlaceInv'
  <1> USE DEF PlaceInv, Goto
  <1>1. TypeOK /\ TypeOK'
    BY WorkerTyping DEF WorkerStep
  <1>2. queue' = queue /\ held' = held /\ held[w] \in Items
    BY DEF Start, Finish, Escape, HandPlaces
  <1>3. \A i \in Items : OnceQueued(i)' /\ (Queued(i)' <=> Queued(i))
    BY <1>2, SameQueue
  <1>4. /\ ~Queued(held[w])
        /\ \A v \in Workers : held[v] = held[w] => v = w
    BY <1>2 DEF QueuePlaces, HandPlaces
  <1>5. /\ \A v \in Workers \ {w} : worker'[v] = worker[v]
        /\ \A i \in Items \ {held[w]} : future'[i] = future[i]
    BY <1>1, <1>2 DEF Start, Finish, Escape, TypeOK
  <1>6. \/ worker'[w] = "run" /\ future'[held[w]] = "RUNNING"
        \/ worker'[w] = "release" /\ future'[held[w]] \in {"FINISHED", "CANCELLED_AND_NOTIFIED"}
        \/ worker'[w] = "dead" /\ future'[held[w]] = "RUNNING"
    BY <1>1, <1>2 DEF Start, Finish, Escape, TypeOK, HandPlaces
  <1>7. QueuePlaces'
    BY <1>2, <1>3, <1>4, <1>5 DEF QueuePlaces
  <1>8. HandPlaces'
    BY <1>2, <1>4, <1>5, <1>6 DEF HandPlaces
  <1>9. SomePlace'
    BY <1>2, <1>3, <1>4, <1>5, <1>6 DEF SomePlace
  <1> QED
    BY <1>1, <1>7, <1>8, <1>9

\* A worker lets go of an item whose future is decided.
LEMMA ReleasePlaces ==
  ASSUME PlaceInv, NEW w \in Workers, Release(w)
  PROVE  PlaceInv'
  <1> USE DEF PlaceInv, Release, Goto
  <1>1. TypeOK /\ TypeOK'
    BY WorkerTyping DEF WorkerStep
  <1>2. \A i \in Items : OnceQueued(i)' /\ (Queued(i)' <=> Queued(i))
    BY SameQueue
  <1>3. /\ worker'[w] = "get" /\ held'[w] \notin Items /\ future' = future
        /\ \A v \in Workers \ {w} : worker'[v] = worker[v] /\ held'[v] = held[v]
    BY <1>1, HoldersAssumption DEF TypeOK
  <1>4. \A v \in Workers : held'[v] \in Items => held'[v] = held[v]
    BY <1>3
  <1>5. QueuePlaces'
    BY <1>2, <1>3, <1>4 DEF QueuePlaces
  <1>6. HandPlaces'
    BY <1>3, <1>4 DEF HandPlaces
  <1>7. SomePlace'
    BY <1>2, <1>3 DEF SomePlace
  <1> QED
    BY <1>1, <1>5, <1>6, <1>7

\* The drain of a broken pool and shutdown(cancel_futures=True) take the head of
\* the queue, and leave no pending future behind.
LEMMA DropPlaces ==
  ASSUME PlaceInv, TypeOK', queue # <<>>, queue' = Tail(queue), held' = held,
         \A w \in Workers :
           \/ worker'[w] = worker[w]
           \/ held[w] \notin Items /\ worker'[w] \notin Holding \ {"dead"},
         \A i \in Items \ {Head(queue)} : future'[i] = future[i],
         Head(queue) \in Items => future'[Head(queue)] # "PENDING"
  PROVE  PlaceInv'
  <1> USE DEF PlaceInv
  <1>1. \A i \in Items : /\ OnceQueued(i)'
                         /\ Queued(i)' <=> Queued(i) /\ Head(queue) # i
                         /\ Head(queue) = i => Queued(i)
    BY HeadMoves DEF QueuePlaces
  <1>2. \A w \in Workers : held[w] \in Items => held[w] # Head(queue) /\ worker'[w] = worker[w]
    BY <1>1 DEF QueuePlaces, Holding, HandPlaces
  <1>3. QueuePlaces'
    BY <1>1 DEF QueuePlaces
  <1>4. HandPlaces'
    BY <1>2 DEF HandPlaces, Holding
  <1>5. SomePlace'
    BY <1>1, <1>2 DEF SomePlace
  <1> QED
    BY <1>3, <1>4, <1>5

-----------------------------------------------------------------------------
(* Every step keeps the items in their places                               *)

\* A thread at an idle stage is turned to another one.
Idle == {"unborn", "init", "failed", "drain", "get", "check", "notify", "left"}

LEMMA IdleWorker ==
  ASSUME PlaceInv, TypeOK', NEW w \in Workers, worker[w] \in Idle,
         NEW s \in Idle \cup {"dead"}, worker' = [worker EXCEPT ![w] = s]
  PROVE  \A v \in Workers :
           worker'[v] = worker[v] \/ (held[v] \notin Items /\ worker'[v] \notin Holding \ {"dead"})
  BY DEF PlaceInv, TypeOK, HandPlaces, Idle, Holding

\* The steps of submit(), and a cancellation.
LEMMA ClientPlaces ==
  ASSUME PlaceInv, NEW i \in Items,
         \/ SubmitPut(i) \/ SubmitRefused(i) \/ AdjustThreadCount(i) \/ ThreadStartRaises(i)
         \/ CancelFuture(i)
  PROVE  PlaceInv'
  <1>1. CASE AdjustThreadCount(i)
    <2>1. TypeOK /\ TypeOK'
      BY ClientTyping DEF PlaceInv
    <2>2. \A v \in Workers :
            worker'[v] = worker[v] \/ (held[v] \notin Items /\ worker'[v] \notin Holding \ {"dead"})
      BY <1>1, <2>1, IdleWorker DEF AdjustThreadCount, Spawned, Idle
    <2> QED
      BY <1>1, <2>1, <2>2, SameQueue, NothingMoves DEF AdjustThreadCount
  <1>2. CASE ThreadStartRaises(i)
    <2>1. TypeOK /\ TypeOK'
      BY ClientTyping DEF PlaceInv
    <2> QED
      BY <1>2, <2>1, SameQueue, NothingMoves DEF ThreadStartRaises
  <1> QED
    BY <1>1, <1>2, SubmitPlaces, FuturePlaces

\* The steps of a worker.
LEMMA WorkerPlaces ==
  ASSUME PlaceInv, NEW w \in Workers, WorkerStep(w)
  PROVE  PlaceInv'
  <1>1. TypeOK /\ TypeOK'
    BY WorkerTyping DEF PlaceInv
  <1>2. CASE Initialized(w) \/ InitializerRaises(w) \/ MarkBroken(w) \/ Check(w)
    <2>1. PICK s \in Idle \cup {"dead"} : worker' = [worker EXCEPT ![w] = s]
      BY <1>2 DEF Initialized, InitializerRaises, MarkBroken, Check, Goto, Idle
    <2>2. worker[w] \in Idle /\ queue' = queue /\ future' = future /\ held' = held
      BY <1>2 DEF Initialized, InitializerRaises, MarkBroken, Check, Idle
    <2> QED
      BY <1>1, <2>1, <2>2, IdleWorker, SameQueue, NothingMoves
  <1>3. CASE Notify(w)
    <2>1. \A i \in Items : OnceQueued(i)' /\ (Queued(i)' <=> Queued(i))
      BY <1>1, <1>3, WakeUpMovesNothing DEF Notify, PlaceInv, QueuePlaces
    <2>2. \A v \in Workers :
            worker'[v] = worker[v] \/ (held[v] \notin Items /\ worker'[v] \notin Holding \ {"dead"})
      BY <1>1, <1>3, IdleWorker DEF Notify, Goto, Idle
    <2> QED
      BY <1>1, <1>3, <2>1, <2>2, NothingMoves DEF Notify
  <1>4. CASE Drain(w)
    <2>1. CASE worker' = worker
      <3>1. queue # <<>> /\ queue' = Tail(queue) /\ held' = held
        BY <1>1, <1>4, <2>1 DEF Drain, Goto, TypeOK
      <3>2. /\ \A i \in Items \ {Head(queue)} : future'[i] = future[i]
            /\ Head(queue) \in Items => future'[Head(queue)] # "PENDING"
        BY <1>1, <1>4, <2>1, ItemsAssumption DEF Drain, Goto, TypeOK
      <3> QED
        BY <1>1, <2>1, <3>1, <3>2, DropPlaces
    <2>2. CASE worker' # worker
      <3>1. \A v \in Workers :
              worker'[v] = worker[v] \/ (held[v] \notin Items /\ worker'[v] \notin Holding \ {"dead"})
        BY <1>1, <1>4, <2>2, IdleWorker DEF Drain, Goto, Idle
      <3>2. held' = held /\ future' = future
        BY <1>4, <2>2 DEF Drain
      <3>3. CASE queue = <<>>
        BY <1>1, <1>4, <2>2, <3>1, <3>2, <3>3, SameQueue, NothingMoves DEF Drain
      <3>4. CASE queue # <<>>
        <4>1. queue' = Tail(queue) /\ (Head(queue) \in Items => future[Head(queue)] # "PENDING")
          BY <1>4, <2>2, <3>4 DEF Drain
        <4> QED
          BY <1>1, <3>1, <3>2, <3>4, <4>1, DropPlaces
      <3> QED
        BY <3>3, <3>4
    <2> QED
      BY <2>1, <2>2
  <1> QED
    BY <1>2, <1>3, <1>4, GetPlaces, CarryPlaces, ReleasePlaces DEF WorkerStep

\* The steps of shutdown().
LEMMA ShutdownPlaces ==
  ASSUME PlaceInv, NEW c \in Callers, ShutdownBegin(c) \/ ShutdownStep(c)
  PROVE  PlaceInv'
  <1>1. TypeOK /\ TypeOK'
    BY ShutdownTyping DEF PlaceInv
  <1>2. CASE ShutdownBegin(c) \/ ShutdownJoin(c)
    BY <1>1, <1>2, SameQueue, NothingMoves DEF ShutdownBegin, ShutdownJoin
  <1>3. CASE ShutdownWake(c)
    <2>1. \A i \in Items : OnceQueued(i)' /\ (Queued(i)' <=> Queued(i))
      BY <1>1, <1>3, WakeUpMovesNothing DEF ShutdownWake, PlaceInv, QueuePlaces
    <2> QED
      BY <1>1, <1>3, <2>1, NothingMoves DEF ShutdownWake
  <1>4. CASE CancelQueued(c)
    <2>1. CASE queue = <<>>
      BY <1>1, <1>4, <2>1, SameQueue, NothingMoves DEF CancelQueued
    <2>2. CASE queue # <<>>
      <3>1. queue' = Tail(queue) /\ held' = held /\ worker' = worker
        BY <1>4, <2>2 DEF CancelQueued
      <3>2. /\ \A i \in Items \ {Head(queue)} : future'[i] = future[i]
            /\ Head(queue) \in Items => future'[Head(queue)] # "PENDING"
        BY <1>1, <1>4, <2>2, ItemsAssumption DEF CancelQueued, TypeOK
      <3> QED
        BY <1>1, <2>2, <3>1, <3>2, DropPlaces
    <2> QED
      BY <2>1, <2>2
  <1> QED
    BY <1>2, <1>3, <1>4 DEF ShutdownStep

\* The end of the executor and of the interpreter.
LEMMA EndPlaces ==
  ASSUME PlaceInv, Collect \/ MainEnds \/ InterpStep
  PROVE  PlaceInv'
  <1> USE DEF pool
  <1>1. TypeOK /\ TypeOK'
    BY EndTyping DEF PlaceInv
  <1>2. CASE MainEnds \/ PythonExitFlag \/ PythonExitJoin
    BY <1>1, <1>2, SameQueue, NothingMoves DEF MainEnds, PythonExitFlag, PythonExitJoin
  <1>3. CASE Collect
    <2>1. \A i \in Items : OnceQueued(i)' /\ (Queued(i)' <=> Queued(i))
      BY <1>1, <1>3, ThreadsCount, WakeUpsMoveNothing DEF Collect, Spawned, PlaceInv, QueuePlaces
    <2> QED
      BY <1>1, <1>3, <2>1, NothingMoves DEF Collect
  <1>4. CASE PythonExitWake
    <2>1. \A i \in Items : OnceQueued(i)' /\ (Queued(i)' <=> Queued(i))
      BY <1>1, <1>4, ThreadsCount, WakeUpsMoveNothing
      DEF PythonExitWake, Spawned, PlaceInv, QueuePlaces
    <2> QED
      BY <1>1, <1>4, <2>1, NothingMoves DEF PythonExitWake
  <1> QED
    BY <1>2, <1>3, <1>4 DEF InterpStep

LEMMA PlaceInvInit == Init => PlaceInv
  <1> SUFFICES ASSUME Init PROVE PlaceInv
    OBVIOUS
  <1>1. TypeOK
    <2>1. queue \in Seq(Entries) /\ wait \in [Callers -> BOOLEAN]
      BY DEF Init
    <2> QED
      BY <2>1 DEF Init, TypeOK, FutureStates, WorkerStates, CallerStates, InterpStates
  <1>2. \A i \in Items : ~Queued(i) /\ OnceQueued(i) /\ future[i] = "none"
    BY DEF Init, Queued, OnceQueued
  <1>3. \A w \in Workers : held[w] \notin Items /\ worker[w] = "unborn"
    BY HoldersAssumption DEF Init
  <1> QED
    BY <1>1, <1>2, <1>3 DEF PlaceInv, QueuePlaces, HandPlaces, SomePlace

LEMMA PlaceInvStep == PlaceInv /\ [Next]_vars => PlaceInv'
  <1> SUFFICES ASSUME PlaceInv, [Next]_vars PROVE PlaceInv'
    OBVIOUS
  <1>1. CASE UNCHANGED vars
    <2>1. TypeOK'
      BY <1>1 DEF vars, PlaceInv, TypeOK
    <2> QED
      BY <1>1, <2>1, SameQueue, NothingMoves DEF vars
  <1> QED
    BY <1>1, ClientPlaces, WorkerPlaces, ShutdownPlaces, EndPlaces DEF Next

\* A pending item is never lost and no item is ever in two places.
THEOREM ItemsHaveOnePlace == Spec => []PendingHasOnePlace
  <1>1. PlaceInv => PendingHasOnePlace
    BY DEF PlaceInv, QueuePlaces, HandPlaces, SomePlace, OnceQueued, PendingHasOnePlace
  <1> QED
    BY <1>1, PlaceInvInit, PlaceInvStep, PTL DEF Spec

-----------------------------------------------------------------------------
(* Who decides a future                                                     *)

\* The transitions of one future.
Moves(i) ==
  \/ future'[i] = future[i]
  \/ future[i] = "none" /\ future'[i] \in {"refused", "PENDING"}
  \/ future[i] = "PENDING" /\ future'[i] \in {"RUNNING", "CANCELLED", "BROKEN"}
  \/ future[i] = "CANCELLED" /\ future'[i] = "CANCELLED_AND_NOTIFIED"
  \/ future[i] = "RUNNING" /\ future'[i] = "FINISHED"

\* Only the worker that holds an item decides more than a pending future, and it
\* knows from its own place what the future is.
LEMMA WorkerMoves ==
  ASSUME PlaceInv, NEW w \in Workers, WorkerStep(w), NEW i \in Items
  PROVE  Moves(i)
  <1> USE DEF PlaceInv, Moves
  <1>1. CASE Drain(w)
    BY <1>1, TailFacts, ItemsAssumption DEF Drain, TypeOK, Entries
  <1>2. CASE Start(w) \/ Finish(w)
    <2>1. held[w] \in Items
      BY <1>2 DEF Start, Finish, HandPlaces
    <2>2. CASE i = held[w]
      BY <1>2, <2>1, <2>2 DEF Start, Finish, TypeOK, HandPlaces, Waiting
    <2>3. CASE i # held[w]
      BY <1>2, <2>1, <2>3 DEF Start, Finish, TypeOK
    <2> QED
      BY <2>2, <2>3
  <1>3. CASE \/ Initialized(w) \/ InitializerRaises(w) \/ MarkBroken(w) \/ Get(w)
             \/ Escape(w) \/ Release(w) \/ Check(w) \/ Notify(w)
    BY <1>3 DEF Initialized, InitializerRaises, MarkBroken, Get, Escape, Release, Check, Notify
  <1> QED
    BY <1>1, <1>2, <1>3 DEF WorkerStep

\* Every step makes one of these transitions of each future.
LEMMA StepMoves ==
  ASSUME PlaceInv, [Next]_vars, NEW i \in Items
  PROVE  Moves(i)
  <1> USE DEF PlaceInv, Moves, pool
  <1>1. CASE UNCHANGED vars
    BY <1>1 DEF vars
  <1>2. ASSUME NEW j \in Items,
               \/ SubmitPut(j) \/ SubmitRefused(j) \/ AdjustThreadCount(j)
               \/ ThreadStartRaises(j) \/ CancelFuture(j)
        PROVE  Moves(i)
    BY <1>2 DEF SubmitPut, SubmitRefused, AdjustThreadCount, ThreadStartRaises, CancelFuture,
                TypeOK
  <1>3. ASSUME NEW c \in Callers, ShutdownBegin(c) \/ ShutdownStep(c)
        PROVE  Moves(i)
    BY <1>3 DEF ShutdownBegin, ShutdownStep, CancelQueued, ShutdownWake, ShutdownJoin, TypeOK
  <1>4. CASE Collect \/ MainEnds \/ InterpStep
    BY <1>4 DEF Collect, MainEnds, InterpStep, PythonExitFlag, PythonExitWake, PythonExitJoin
  <1> QED
    BY <1>1, <1>2, <1>3, <1>4, WorkerMoves DEF Next

\* A worker, the drain of a broken pool, shutdown(cancel_futures=True) and a
\* client never overwrite what another of them decided.
THEOREM FuturesDecidedOnce == Spec => DecidedOnce
  <1>1. ASSUME PlaceInv, [Next]_vars, NEW i \in Items
        PROVE  /\ future[i] \in {"FINISHED", "BROKEN", "CANCELLED_AND_NOTIFIED"} =>
                    future'[i] = future[i]
               /\ future[i] = "CANCELLED" =>
                    future'[i] \in {"CANCELLED", "CANCELLED_AND_NOTIFIED"}
               /\ future[i] = "RUNNING" => future'[i] \in {"RUNNING", "FINISHED"}
    BY <1>1, StepMoves DEF Moves
  <1>2. PlaceInv /\ [Next]_vars =>
          [\A i \in Items :
             /\ future[i] \in {"FINISHED", "BROKEN", "CANCELLED_AND_NOTIFIED"} =>
                  future'[i] = future[i]
             /\ future[i] = "CANCELLED" =>
                  future'[i] \in {"CANCELLED", "CANCELLED_AND_NOTIFIED"}
             /\ future[i] = "RUNNING" => future'[i] \in {"RUNNING", "FINISHED"}]_vars
    BY <1>1
  <1> QED
    BY <1>2, PlaceInvInit, PlaceInvStep, PTL DEF Spec, DecidedOnce

-----------------------------------------------------------------------------
(* Threads and the promise.  The idle semaphore counts exactly the threads  *)
(* that will come back to the queue, as long as more may be started.        *)
(* And the pool implements Executor, as long as no thread dies: futures may *)
(* be cancelled, but no initializer raises and no coroutine lets a          *)
(* BaseException through.  A pool with dead threads does not keep the       *)
(* promise: a waiting shutdown() can return while a future is RUNNING.      *)


\* The pool still decides between an idle thread and a new one.
Counting == ~shut /\ ~broken /\ ~collected /\ Spawned # Workers

\* A submit() has put its item, and has not claimed or started a thread for it.
Submitting == IF lock \in Items THEN 1 ELSE 0

\* The submits that raised when they started a thread had put an item, and let
\* go of the lock: an item is submitted once, so each of them counts once.
StartedOnce ==
  /\ \A i \in unstarted : future[i] # "none" /\ lock # i
  /\ lock \in Items => future[lock] # "none"

\* IdleCountExact holds only between the steps of a submit(); while one is under
\* way the queue holds one item more than there are threads for, and one more for
\* every thread that did not start.
Balanced ==
  idle + Cardinality(Outstanding)
    = Cardinality(Spawned) + Cardinality(unstarted) + Submitting

CountInv ==
  /\ Counting => Balanced
  /\ \A w \in Workers : worker[w] = "drain" => broken

-----------------------------------------------------------------------------
(* Counting                                                                 *)

LEMMA Counts ==
  ASSUME TypeOK
  PROVE  /\ IsFiniteSet(Outstanding) /\ Cardinality(Outstanding) \in Nat
         /\ IsFiniteSet(Spawned) /\ Cardinality(Spawned) \in Nat
         /\ IsFiniteSet(unstarted) /\ Cardinality(unstarted) \in Nat
  <1>1. /\ Outstanding \in SUBSET Items /\ Spawned \in SUBSET Workers
        /\ unstarted \in SUBSET Items
    BY DEF Outstanding, Spawned, TypeOK
  <1> QED
    BY <1>1, ItemsAssumption, WorkersAssumption, FS_Subset, FS_CardinalityType

\* A step that moves no item in or out, and neither starts a thread nor touches
\* the semaphore or a submit(), keeps the count.
LEMMA SameCount ==
  ASSUME CountInv, TypeOK, idle' = idle, Spawned' = Spawned,
         Outstanding' = Outstanding, unstarted' = unstarted,
         lock' \in Items <=> lock \in Items,
         ~shut' => ~shut, ~broken' => ~broken, ~collected' => ~collected,
         \A w \in Workers : worker'[w] = "drain" => broken'
  PROVE  CountInv'
  BY DEF CountInv, Counting, Balanced, Submitting

\* A step at whose end the pool counts no more keeps the count.
LEMMA CountsNoMore ==
  ASSUME shut' \/ broken' \/ collected', \A w \in Workers : worker'[w] = "drain" => broken'
  PROVE  CountInv'
  BY DEF CountInv, Counting

\* The same items are outstanding when the queue and the hands are the same.
LEMMA SameOutstanding ==
  ASSUME queue' = queue, held' = held
  PROVE  Outstanding' = Outstanding
  BY DEF Outstanding, Queued

\* A submit() adds an item to the outstanding ones.
LEMMA SubmitCount ==
  ASSUME PlaceInv, CountInv, NEW i \in Items, SubmitPut(i)
  PROVE  CountInv'
  <1>1. TypeOK
    BY DEF PlaceInv
  <1>2. ~Queued(i) /\ \A w \in Workers : held[w] # i
    BY DEF PlaceInv, QueuePlaces, HandPlaces, Waiting, SubmitPut
  <1>3. \A j \in Items : Queued(j)' <=> Queued(j) \/ j = i
    BY <1>1, <1>2, ItemMoves DEF SubmitPut, PlaceInv, QueuePlaces
  <1>4. Outstanding' = Outstanding \cup {i} /\ i \notin Outstanding
    BY <1>2, <1>3 DEF Outstanding, SubmitPut
  <1>5. Cardinality(Outstanding') = Cardinality(Outstanding) + 1
    BY <1>1, <1>4, Counts, FS_AddElement
  <1>6. Submitting = 0 /\ Submitting' = 1
    BY HoldersAssumption DEF Submitting, SubmitPut
  <1>7. /\ Spawned' = Spawned /\ idle' = idle /\ (Counting' => Counting)
        /\ worker' = worker /\ broken' = broken /\ unstarted' = unstarted
    BY DEF SubmitPut, Spawned, Counting
  <1>8. /\ Cardinality(Outstanding) \in Nat /\ Cardinality(Spawned) \in Nat
        /\ Cardinality(unstarted) \in Nat /\ idle \in Nat
    BY <1>1, Counts DEF TypeOK
  <1> QED
    BY <1>5, <1>6, <1>7, <1>8 DEF CountInv, Balanced

\* A submit() claims an idle thread or starts one, and thereby has a thread for
\* its item.
LEMMA AdjustCount ==
  ASSUME PlaceInv, CountInv, NEW i \in Items, AdjustThreadCount(i)
  PROVE  CountInv'
  <1>1. TypeOK
    BY DEF PlaceInv
  <1>2. Outstanding' = Outstanding
    BY SameOutstanding DEF AdjustThreadCount
  <1>3. Submitting = 1 /\ Submitting' = 0
    BY HoldersAssumption DEF Submitting, AdjustThreadCount
  <1>4. /\ shut' = shut /\ broken' = broken /\ collected' = collected
        /\ unstarted' = unstarted
    BY DEF AdjustThreadCount
  <1>5. \A w \in Workers : worker'[w] = "drain" => worker[w] = "drain"
    BY <1>1 DEF AdjustThreadCount, TypeOK
  <1>6. CASE idle > 0
    <2>1. idle' = idle - 1 /\ worker' = worker /\ Spawned' = Spawned
      BY <1>6 DEF AdjustThreadCount, Spawned
    <2>2. Counting' => Counting
      BY <1>4, <2>1 DEF Counting
    <2>3. Counting' => Balanced'
      <3>1. /\ Cardinality(Outstanding) \in Nat /\ Cardinality(Spawned) \in Nat
            /\ Cardinality(unstarted) \in Nat /\ idle \in Nat
        BY <1>1, Counts DEF TypeOK
      <3> QED
        BY <1>2, <1>3, <1>4, <2>1, <2>2, <3>1 DEF CountInv, Balanced
    <2> QED
      BY <1>4, <1>5, <2>3 DEF CountInv
  <1>7. CASE ~(idle > 0) /\ Spawned # Workers
    <2>1. PICK w \in Workers \ Spawned : worker' = [worker EXCEPT ![w] = "init"]
      BY <1>7 DEF AdjustThreadCount
    <2>2. Spawned' = Spawned \cup {w} /\ w \notin Spawned
      BY <1>1, <2>1 DEF Spawned, TypeOK
    <2>3. Cardinality(Spawned') = Cardinality(Spawned) + 1
      BY <1>1, <2>2, Counts, FS_AddElement
    <2>4. idle' = idle /\ (Counting' => Counting)
      BY <1>4, <1>7 DEF AdjustThreadCount, Counting
    <2>5. Counting' => Balanced'
      <3>1. /\ Cardinality(Outstanding) \in Nat /\ Cardinality(Spawned) \in Nat
            /\ Cardinality(unstarted) \in Nat /\ idle \in Nat
        BY <1>1, Counts DEF TypeOK
      <3> QED
        BY <1>2, <1>3, <1>4, <2>3, <2>4, <3>1 DEF CountInv, Balanced
    <2> QED
      BY <1>4, <1>5, <2>5 DEF CountInv
  <1>8. CASE ~(idle > 0) /\ Spawned = Workers
    <2>1. Spawned' = Workers
      BY <1>8 DEF AdjustThreadCount, Spawned
    <2> QED
      BY <1>4, <1>5, <2>1 DEF CountInv, Counting
  <1> QED
    BY <1>6, <1>7, <1>8

\* A submit() that starts no thread leaves its item to the threads there are.
LEMMA StartRaisesCount ==
  ASSUME PlaceInv, CountInv, StartedOnce, NEW i \in Items, ThreadStartRaises(i)
  PROVE  CountInv'
  <1>1. TypeOK
    BY DEF PlaceInv
  <1>2. Outstanding' = Outstanding /\ Spawned' = Spawned
    BY SameOutstanding DEF ThreadStartRaises, Spawned
  <1>3. Submitting = 1 /\ Submitting' = 0
    BY HoldersAssumption DEF Submitting, ThreadStartRaises
  <1>4. unstarted' = unstarted \cup {i} /\ i \notin unstarted
    BY DEF ThreadStartRaises, StartedOnce
  <1>5. Cardinality(unstarted') = Cardinality(unstarted) + 1
    BY <1>1, <1>4, Counts, FS_AddElement
  <1>6. /\ idle' = idle /\ worker' = worker /\ broken' = broken
        /\ Counting' => Counting
    BY <1>2 DEF ThreadStartRaises, Counting
  <1>7. /\ Cardinality(Outstanding) \in Nat /\ Cardinality(Spawned) \in Nat
        /\ Cardinality(unstarted) \in Nat /\ idle \in Nat
    BY <1>1, Counts DEF TypeOK
  <1> QED
    BY <1>2, <1>3, <1>5, <1>6, <1>7 DEF CountInv, Balanced

\* A worker that lets go of an item counts itself idle.
LEMMA ReleaseCount ==
  ASSUME PlaceInv, CountInv, NEW w \in Workers, Release(w)
  PROVE  CountInv'
  <1>1. TypeOK
    BY DEF PlaceInv
  <1>2. /\ held[w] \in Items /\ ~Queued(held[w])
        /\ \A v \in Workers : held[v] = held[w] => v = w
    BY DEF PlaceInv, QueuePlaces, HandPlaces, Release
  <1>3. /\ held'[w] \notin Items /\ queue' = queue
        /\ \A v \in Workers \ {w} : held'[v] = held[v]
    BY <1>1, HoldersAssumption DEF Release, TypeOK
  <1>4. Outstanding' = Outstanding \ {held[w]} /\ held[w] \in Outstanding
    BY <1>2, <1>3 DEF Outstanding, Queued
  <1>5. Cardinality(Outstanding') = Cardinality(Outstanding) - 1
    BY <1>1, <1>4, Counts, FS_RemoveElement
  <1>6. /\ worker'[w] = "get" /\ worker[w] = "release"
        /\ \A v \in Workers \ {w} : worker'[v] = worker[v]
    BY <1>1 DEF Release, Goto, TypeOK
  <1>7. Spawned' = Spawned
    BY <1>6 DEF Spawned
  <1>8. /\ Submitting' = Submitting /\ broken' = broken /\ (Counting' => Counting)
        /\ ~collected => idle' = idle + 1
        /\ collected' = collected /\ unstarted' = unstarted
    BY <1>7 DEF Release, Submitting, Counting
  <1>9. Counting' => Balanced'
    <2>1. /\ Cardinality(Outstanding) \in Nat /\ Cardinality(Spawned) \in Nat
          /\ Cardinality(unstarted) \in Nat /\ idle \in Nat
      BY <1>1, Counts DEF TypeOK
    <2>2. Counting' => idle' = idle + 1
      BY <1>8 DEF Counting
    <2> QED
      BY <1>5, <1>7, <1>8, <2>1, <2>2 DEF CountInv, Balanced
  <1>10. \A v \in Workers : worker'[v] = "drain" => broken'
    BY <1>6, <1>8 DEF CountInv
  <1> QED
    BY <1>9, <1>10 DEF CountInv

\* A worker that takes an item keeps it outstanding.
LEMMA GetOutstanding ==
  ASSUME PlaceInv, NEW w \in Workers, Get(w)
  PROVE  Outstanding' = Outstanding
  <1>1. TypeOK /\ held[w] \notin Items
    BY DEF PlaceInv, HandPlaces, Get
  <1>2. \A i \in Items : /\ Queued(i)' <=> Queued(i) /\ Head(queue) # i
                         /\ Head(queue) = i => Queued(i)
    BY <1>1, HeadMoves DEF Get, PlaceInv, QueuePlaces
  <1>3. \A v \in Workers \ {w} : held'[v] = held[v]
    BY <1>1 DEF Get, TypeOK
  <1>4. \/ Head(queue) = WakeUp /\ held'[w] = held[w]
        \/ Head(queue) # WakeUp /\ held'[w] = Head(queue)
    BY <1>1 DEF Get, TypeOK
  <1> QED
    BY <1>1, <1>2, <1>3, <1>4, ItemsAssumption DEF Outstanding

\* A wake-up that is put changes nothing.
LEMMA WakeUpOutstanding ==
  ASSUME PlaceInv, held' = held, queue' = Append(queue, WakeUp)
  PROVE  Outstanding' = Outstanding
  BY WakeUpMovesNothing DEF PlaceInv, QueuePlaces, Outstanding

\* The steps of a worker.
LEMMA WorkerCount ==
  ASSUME PlaceInv, CountInv, NEW w \in Workers, WorkerStep(w)
  PROVE  CountInv'
  <1>1. TypeOK
    BY DEF PlaceInv
  <1>2. CASE MarkBroken(w)
    BY <1>2, CountsNoMore DEF MarkBroken
  <1>3. CASE Drain(w)
    <2>1. broken' = broken /\ broken
      BY <1>3 DEF Drain, CountInv
    <2> QED
      BY <2>1, CountsNoMore
  <1>4. CASE \/ Initialized(w) \/ InitializerRaises(w) \/ Get(w) \/ Start(w) \/ Finish(w)
             \/ Escape(w) \/ Check(w) \/ Notify(w)
    <2>1. /\ worker[w] # "unborn" /\ worker'[w] \notin {"unborn", "drain"}
          /\ \A v \in Workers \ {w} : worker'[v] = worker[v]
      BY <1>1, <1>4 DEF Initialized, InitializerRaises, Get, Start, Finish, Escape, Check,
                        Notify, Goto, TypeOK
    <2>2. Spawned' = Spawned
      BY <2>1 DEF Spawned
    <2>3. /\ idle' = idle /\ lock' = lock /\ broken' = broken /\ collected' = collected
          /\ unstarted' = unstarted
      BY <1>4 DEF Initialized, InitializerRaises, Get, Start, Finish, Escape, Check, Notify
    <2>4. shut => shut'
      BY <1>1, <1>4 DEF Initialized, InitializerRaises, Get, Start, Finish, Escape, Check,
                        Notify, TypeOK
    <2>5. Outstanding' = Outstanding
      <3>1. CASE Get(w)
        BY <3>1, GetOutstanding
      <3>2. CASE Notify(w)
        BY <3>2, WakeUpOutstanding DEF Notify
      <3>3. CASE \/ Initialized(w) \/ InitializerRaises(w) \/ Start(w) \/ Finish(w)
                 \/ Escape(w) \/ Check(w)
        BY <3>3, SameOutstanding
        DEF Initialized, InitializerRaises, Start, Finish, Escape, Check
      <3> QED
        BY <1>4, <3>1, <3>2, <3>3
    <2>6. \A v \in Workers : worker'[v] = "drain" => broken'
      BY <2>1, <2>3 DEF CountInv
    <2> QED
      BY <1>1, <2>2, <2>3, <2>4, <2>5, <2>6, SameCount
  <1> QED
    BY <1>2, <1>3, <1>4, ReleaseCount DEF WorkerStep

\* A future once made stays made, and no submit() raises twice.
LEMMA StartedOnceStep ==
  ASSUME PlaceInv, StartedOnce, [Next]_vars
  PROVE  StartedOnce'
  <1>1. TypeOK
    BY DEF PlaceInv
  <1>2. \A i \in Items : future[i] # "none" => future'[i] # "none"
    BY StepMoves DEF Moves
  <1>3. CASE UNCHANGED <<lock, unstarted>>
    BY <1>1, <1>2, <1>3 DEF StartedOnce, TypeOK
  <1>4. CASE lock' \notin Items /\ unstarted' = unstarted
    BY <1>1, <1>2, <1>4 DEF StartedOnce, TypeOK
  <1>5. ASSUME NEW i \in Items, SubmitPut(i)
        PROVE  StartedOnce'
    BY <1>1, <1>2, <1>5 DEF SubmitPut, StartedOnce, TypeOK
  <1>6. ASSUME NEW i \in Items, ThreadStartRaises(i)
        PROVE  StartedOnce'
    BY <1>1, <1>2, <1>6, HoldersAssumption DEF ThreadStartRaises, StartedOnce, TypeOK
  <1>7. ASSUME NEW i \in Items, SubmitRefused(i) \/ AdjustThreadCount(i) \/ CancelFuture(i)
        PROVE  StartedOnce'
    BY <1>3, <1>4, <1>7, HoldersAssumption
    DEF SubmitRefused, AdjustThreadCount, CancelFuture
  <1>8. ASSUME NEW w \in Workers, WorkerStep(w)
        PROVE  StartedOnce'
    <2>1. unstarted' = unstarted /\ lock' \in {lock, w, Nobody}
      BY <1>8 DEF WorkerStep, Initialized, InitializerRaises, MarkBroken, Drain, Get, Start,
                  Finish, Escape, Release, Check, Notify
    <2> QED
      BY <1>3, <1>4, <2>1, HoldersAssumption
  <1>9. ASSUME NEW c \in Callers, ShutdownBegin(c) \/ ShutdownStep(c)
        PROVE  StartedOnce'
    <2>1. unstarted' = unstarted /\ lock' \in {lock, c, Nobody}
      BY <1>9 DEF ShutdownBegin, ShutdownStep, CancelQueued, ShutdownWake, ShutdownJoin
    <2> QED
      BY <1>3, <1>4, <2>1, HoldersAssumption
  <1>10. CASE Collect \/ MainEnds \/ InterpStep \/ UNCHANGED vars
    BY <1>3, <1>10 DEF Collect, MainEnds, InterpStep, PythonExitFlag, PythonExitWake,
                       PythonExitJoin, pool, vars
  <1> QED
    BY <1>5, <1>6, <1>7, <1>8, <1>9, <1>10 DEF Next

\* Every step keeps the count.
LEMMA CountStep ==
  ASSUME QueueInv, PlaceInv, CountInv, StartedOnce, [Next]_vars
  PROVE  CountInv'
  <1>1. TypeOK
    BY DEF PlaceInv
  <1>2. CASE UNCHANGED vars
    <2>1. Outstanding' = Outstanding /\ Spawned' = Spawned
      BY <1>2, SameOutstanding DEF vars, Spawned
    <2> QED
      BY <1>1, <1>2, <2>1, SameCount DEF vars, CountInv
  <1>3. ASSUME NEW i \in Items, SubmitRefused(i) \/ CancelFuture(i)
        PROVE  CountInv'
    <2>1. Outstanding' = Outstanding /\ Spawned' = Spawned
      BY <1>3, SameOutstanding DEF SubmitRefused, CancelFuture, Spawned
    <2> QED
      BY <1>1, <1>3, <2>1, SameCount DEF SubmitRefused, CancelFuture, CountInv
  <1>4. ASSUME NEW c \in Callers, ShutdownBegin(c) \/ ShutdownStep(c)
        PROVE  CountInv'
    <2>1. shut' /\ worker' = worker /\ broken' = broken
      BY <1>4 DEF ShutdownBegin, ShutdownStep, CancelQueued, ShutdownWake, ShutdownJoin,
                  QueueInv, ShutdownFlags
    <2> QED
      BY <2>1, CountsNoMore DEF CountInv
  <1>5. CASE Collect
    BY <1>5, CountsNoMore DEF Collect, CountInv
  <1>6. CASE MainEnds \/ InterpStep
    <2>1. /\ worker' = worker /\ held' = held /\ idle' = idle /\ lock' = lock
          /\ shut' = shut /\ broken' = broken /\ collected' = collected
          /\ unstarted' = unstarted
      BY <1>6
      DEF MainEnds, InterpStep, PythonExitFlag, PythonExitWake, PythonExitJoin, pool
    <2>2. \A i \in Items : Queued(i)' <=> Queued(i)
      <3>1. CASE PythonExitWake
        BY <1>1, <3>1, ThreadsCount, WakeUpsMoveNothing
        DEF PythonExitWake, Spawned, PlaceInv, QueuePlaces
      <3>2. CASE queue' = queue
        BY <3>2 DEF Queued
      <3> QED
        BY <1>6, <3>1, <3>2 DEF MainEnds, InterpStep, PythonExitFlag, PythonExitJoin
    <2>3. Outstanding' = Outstanding /\ Spawned' = Spawned
      BY <2>1, <2>2 DEF Outstanding, Spawned
    <2> QED
      BY <1>1, <2>1, <2>3, SameCount DEF CountInv
  <1> QED
    BY <1>2, <1>3, <1>4, <1>5, <1>6, SubmitCount, AdjustCount, StartRaisesCount,
       WorkerCount DEF Next

LEMMA CountInit == Init => CountInv /\ StartedOnce
  <1> SUFFICES ASSUME Init PROVE CountInv /\ StartedOnce
    OBVIOUS
  <1>1. Outstanding = {} /\ Spawned = {} /\ unstarted = {}
    BY HoldersAssumption DEF Init, Outstanding, Queued, Spawned
  <1>2. Submitting = 0 /\ idle = 0
    BY HoldersAssumption DEF Init, Submitting
  <1>3. lock \notin Items
    BY HoldersAssumption DEF Init
  <1> QED
    BY <1>1, <1>2, <1>3, FS_EmptySet DEF CountInv, Balanced, StartedOnce, Init

\* While more threads may be started, the idle count is exact between the steps
\* of submit(): a claimed thread is one that will run the item.
THEOREM IdleThreadsAreIdle == Spec => []IdleCountExact
  <1>1. PlaceInv /\ CountInv => IdleCountExact
    <2> SUFFICES ASSUME PlaceInv, CountInv PROVE IdleCountExact
      OBVIOUS
    <2>1. Cardinality(Spawned) \in Nat /\ Cardinality(unstarted) \in Nat
      BY Counts DEF PlaceInv
    <2> QED
      BY <2>1 DEF CountInv, Counting, Balanced, Submitting, IdleCountExact
  <1>2. QueueInv /\ PlaceInv /\ CountInv /\ StartedOnce /\ [Next]_vars
          => CountInv' /\ StartedOnce'
    BY CountStep, StartedOnceStep
  <1> QED
    BY <1>1, <1>2, CountInit, QueueInvInvariant, PlaceInvInit, PlaceInvStep, PTL DEF Spec

-----------------------------------------------------------------------------
(* The promise                                                              *)

\* No thread dies and the pool is not broken.
Alive ==
  ~broken /\ \A w \in Workers : worker[w] \notin {"failed", "drain", "dead"}

\* A running future is run by some thread.
RunningHeld ==
  \A i \in Items :
    future[i] = "RUNNING" => \E w \in Workers : held[w] = i /\ worker[w] = "run"

\* The pool cannot close while a submit() holds the locks.
SubmitOpen == lock \in Items => ~Closed

\* A call of shutdown() joins only if it was asked to wait.
JoinWaits == \A c \in Callers : caller[c] = "join" => wait[c]

\* Without threads there is nothing idle and, but for a submit() that is about to
\* start one, nothing queued.
Staffed ==
  Spawned = {} => idle = 0 /\ (lock \notin Items => \A i \in Items : ~Queued(i))

\* What is needed besides QueueInv and PlaceInv.
PromiseInv == Alive /\ RunningHeld /\ SubmitOpen /\ JoinWaits /\ Staffed

-----------------------------------------------------------------------------
(* The invariant                                                            *)

LEMMA ClientPromise ==
  ASSUME QueueInv, PlaceInv, PromiseInv, Faults \subseteq {"cancel"}, NEW i \in Items,
         \/ SubmitPut(i) \/ SubmitRefused(i) \/ AdjustThreadCount(i) \/ ThreadStartRaises(i)
         \/ CancelFuture(i)
  PROVE  PromiseInv'
  <1> USE DEF PromiseInv
  <1>1. TypeOK
    BY DEF QueueInv
  <1>2. CASE SubmitPut(i)
    <2>1. future'[i] = "PENDING" /\ \A j \in Items \ {i} : future'[j] = future[j]
      BY <1>1, <1>2 DEF SubmitPut, TypeOK
    <2>2. ~Closed'
      BY <1>2 DEF SubmitPut, Closed, Exiting
    <2>3. /\ worker' = worker /\ held' = held /\ lock' = i /\ idle' = idle
          /\ broken' = broken /\ caller' = caller /\ wait' = wait
      BY <1>2 DEF SubmitPut
    <2> QED
      BY <2>1, <2>2, <2>3 DEF Alive, RunningHeld, SubmitOpen, JoinWaits, Staffed, Spawned
  <1>3. CASE SubmitRefused(i) \/ CancelFuture(i)
    <2>1. \A j \in Items : future'[j] = "RUNNING" => future[j] = "RUNNING"
      BY <1>1, <1>3 DEF SubmitRefused, CancelFuture, TypeOK
    <2>2. /\ worker' = worker /\ held' = held /\ lock' = lock /\ idle' = idle
          /\ broken' = broken /\ caller' = caller /\ wait' = wait /\ queue' = queue
          /\ shut' = shut /\ collected' = collected /\ interp' = interp
      BY <1>3 DEF SubmitRefused, CancelFuture
    <2> QED
      BY <2>1, <2>2 DEF Alive, RunningHeld, SubmitOpen, Closed, Exiting, JoinWaits, Staffed,
                        Spawned, Queued
  <1>4. CASE AdjustThreadCount(i)
    <2>1. \A w \in Workers : worker[w] # "unborn" => worker'[w] = worker[w]
      BY <1>1, <1>4 DEF AdjustThreadCount, Spawned, TypeOK
    <2>2. Alive'
      BY <1>1, <1>4 DEF AdjustThreadCount, Alive, TypeOK
    <2>3. RunningHeld'
      BY <1>4, <2>1 DEF AdjustThreadCount, RunningHeld
    <2>4. lock' \notin Items /\ caller' = caller /\ wait' = wait
      BY <1>4, HoldersAssumption DEF AdjustThreadCount
    <2>5. Spawned' # {}
      <3>1. CASE idle > 0
        <4>1. Spawned # {}
          BY <3>1 DEF Staffed
        <4> QED
          BY <2>1, <4>1 DEF Spawned
      <3>2. CASE ~(idle > 0) /\ Spawned # Workers
        BY <1>1, <1>4, <3>2 DEF AdjustThreadCount, Spawned, TypeOK
      <3>3. CASE Spawned = Workers
        BY <2>1, <3>3, WorkersAssumption DEF Spawned
      <3> QED
        BY <3>1, <3>2, <3>3
    <2> QED
      BY <2>2, <2>3, <2>4, <2>5 DEF SubmitOpen, JoinWaits, Staffed
  <1>5. ~ThreadStartRaises(i)
    BY DEF ThreadStartRaises
  <1> QED
    BY <1>2, <1>3, <1>4, <1>5

\* Without faults no worker step leads to a thread's death.
LEMMA LivingSteps ==
  ASSUME PromiseInv, Faults \subseteq {"cancel"}, NEW w \in Workers, WorkerStep(w)
  PROVE  \/ Initialized(w) \/ Get(w) \/ Start(w) \/ Finish(w) \/ Release(w)
         \/ Check(w) \/ Notify(w)
  BY DEF PromiseInv, Alive, WorkerStep, InitializerRaises, MarkBroken, Drain, Escape

\* A worker in a step is a started thread, and stays one.
LEMMA WorkerStaffs ==
  ASSUME TypeOK, NEW w \in Workers,
         \/ Initialized(w) \/ Get(w) \/ Start(w) \/ Finish(w) \/ Release(w)
         \/ Check(w) \/ Notify(w)
  PROVE  /\ Spawned' # {}
         /\ worker'[w] \in {"get", "taken", "run", "release", "check", "notify", "left"}
         /\ \A v \in Workers \ {w} : worker'[v] = worker[v]
         /\ lock' = lock /\ broken' = broken /\ caller' = caller /\ wait' = wait
         /\ interp' = interp /\ collected' = collected
  <1>1. /\ worker'[w] \in {"get", "taken", "run", "release", "check", "notify", "left"}
        /\ \A v \in Workers \ {w} : worker'[v] = worker[v]
    BY DEF TypeOK, Initialized, Get, Start, Finish, Release, Check, Notify, Goto
  <1>2. /\ lock' = lock /\ broken' = broken /\ caller' = caller /\ wait' = wait
        /\ interp' = interp /\ collected' = collected
    BY DEF Initialized, Get, Start, Finish, Release, Check, Notify
  <1> QED
    BY <1>1, <1>2 DEF Spawned

LEMMA WorkerPromise ==
  ASSUME QueueInv, PlaceInv, PromiseInv, Faults \subseteq {"cancel"},
         NEW w \in Workers, WorkerStep(w)
  PROVE  PromiseInv'
  <1> USE DEF PromiseInv
  <1>1. TypeOK
    BY DEF QueueInv
  <1>2. \/ Initialized(w) \/ Get(w) \/ Start(w) \/ Finish(w) \/ Release(w)
        \/ Check(w) \/ Notify(w)
    BY LivingSteps
  <1>3. /\ Spawned' # {}
        /\ worker'[w] \in {"get", "taken", "run", "release", "check", "notify", "left"}
        /\ \A v \in Workers \ {w} : worker'[v] = worker[v]
        /\ lock' = lock /\ broken' = broken /\ caller' = caller /\ wait' = wait
        /\ interp' = interp /\ collected' = collected
    BY <1>1, <1>2, WorkerStaffs
  <1>4. Alive' /\ JoinWaits' /\ Staffed'
    BY <1>3 DEF Alive, JoinWaits, Staffed
  <1>5. SubmitOpen'
    <2>1. CASE Check(w)
      <3>1. Closed
        BY <2>1 DEF Check, QueueInv, WakeUpMeansLeave, Woken
      <3> QED
        BY <1>3, <3>1 DEF SubmitOpen
    <2>2. CASE ~Check(w)
      <3>1. shut' = shut
        BY <1>2, <2>2 DEF Initialized, Get, Start, Finish, Release, Notify
      <3> QED
        BY <1>3, <3>1 DEF SubmitOpen, Closed, Exiting
    <2> QED
      BY <2>1, <2>2
  <1>6. RunningHeld'
    <2>1. CASE Start(w) \/ Finish(w)
      <3>1. held[w] \in Items /\ held' = held
        BY <2>1 DEF Start, Finish, PlaceInv, HandPlaces
      <3>2. \A i \in Items \ {held[w]} : future'[i] = future[i]
        BY <1>1, <2>1, <3>1 DEF Start, Finish, TypeOK
      <3>3. future'[held[w]] = "RUNNING" => worker'[w] = "run"
        BY <1>1, <2>1, <3>1 DEF Start, Finish, TypeOK, Goto
      <3> QED
        BY <1>3, <3>1, <3>2, <3>3 DEF RunningHeld
    <2>2. CASE Initialized(w) \/ Get(w) \/ Release(w) \/ Check(w) \/ Notify(w)
      <3>1. /\ future' = future /\ worker[w] # "run"
            /\ \A v \in Workers \ {w} : held'[v] = held[v]
        BY <1>1, <2>2 DEF Initialized, Get, Release, Check, Notify, TypeOK
      <3> QED
        BY <1>3, <3>1 DEF RunningHeld
    <2> QED
      BY <1>2, <2>1, <2>2
  <1> QED
    BY <1>4, <1>5, <1>6

LEMMA ShutdownPromise ==
  ASSUME QueueInv, PlaceInv, PromiseInv, NEW c \in Callers, ShutdownBegin(c) \/ ShutdownStep(c)
  PROVE  PromiseInv'
  <1> USE DEF PromiseInv
  <1>1. TypeOK
    BY DEF QueueInv
  <1>2. /\ worker' = worker /\ held' = held /\ idle' = idle /\ broken' = broken
        /\ collected' = collected /\ interp' = interp
    BY DEF ShutdownBegin, ShutdownStep, CancelQueued, ShutdownWake, ShutdownJoin
  <1>3. \A i \in Items : future'[i] = "RUNNING" => future[i] = "RUNNING"
    BY <1>1
    DEF ShutdownBegin, ShutdownStep, CancelQueued, ShutdownWake, ShutdownJoin, TypeOK
  <1>4. \A i \in Items : Queued(i)' => Queued(i)
    <2>1. CASE CancelQueued(c) /\ queue # <<>>
      BY <1>1, <2>1, TakeHead DEF CancelQueued, QueueInv
    <2>2. CASE ShutdownWake(c)
      BY <1>1, <2>2, PutWakeUp DEF ShutdownWake, QueueInv
    <2>3. CASE queue' = queue
      BY <2>3 DEF Queued
    <2> QED
      BY <2>1, <2>2, <2>3 DEF ShutdownBegin, ShutdownStep, CancelQueued, ShutdownJoin
  <1>5. \/ lock' = lock /\ shut' = shut
        \/ lock' \notin Items /\ lock \notin Items
    <2>1. CASE ShutdownBegin(c)
      BY <2>1, HoldersAssumption DEF ShutdownBegin
    <2>2. CASE ShutdownWake(c)
      <3>1. shut
        BY <2>2 DEF ShutdownWake, QueueInv, ShutdownFlags
      <3>2. lock \notin Items
        BY <3>1 DEF SubmitOpen, Closed
      <3> QED
        BY <2>2, <3>2, HoldersAssumption DEF ShutdownWake
    <2> QED
      BY <2>1, <2>2 DEF ShutdownStep, CancelQueued, ShutdownJoin
  <1>6. JoinWaits'
    BY <1>1 DEF JoinWaits, ShutdownBegin, ShutdownStep, CancelQueued, ShutdownWake,
                ShutdownJoin, TypeOK
  <1>7. Alive' /\ RunningHeld'
    BY <1>2, <1>3 DEF Alive, RunningHeld
  <1>8. SubmitOpen'
    BY <1>2, <1>5 DEF SubmitOpen, Closed, Exiting
  <1>9. Staffed'
    BY <1>2, <1>4, <1>5 DEF Staffed, Spawned
  <1> QED
    BY <1>6, <1>7, <1>8, <1>9

LEMMA EndPromise ==
  ASSUME QueueInv, PlaceInv, PromiseInv, Collect \/ MainEnds \/ InterpStep
  PROVE  PromiseInv'
  <1> USE DEF PromiseInv, pool
  <1>1. TypeOK
    BY DEF QueueInv
  <1>2. /\ worker' = worker /\ held' = held /\ idle' = idle /\ broken' = broken
        /\ future' = future /\ lock' = lock /\ shut' = shut /\ caller' = caller /\ wait' = wait
    BY DEF Collect, MainEnds, InterpStep, PythonExitFlag, PythonExitWake, PythonExitJoin
  <1>3. \A i \in Items : Queued(i)' => Queued(i)
    <2>1. CASE Collect \/ PythonExitWake
      BY <1>1, <2>1, ThreadsCount, PutWakeUps DEF Collect, PythonExitWake, Spawned, QueueInv
    <2>2. CASE queue' = queue
      BY <2>2 DEF Queued
    <2> QED
      BY <2>1, <2>2 DEF MainEnds, InterpStep, PythonExitFlag, PythonExitJoin
  <1>4. lock \in Items => (Closed' => Closed)
    BY HoldersAssumption
    DEF Collect, MainEnds, InterpStep, PythonExitFlag, PythonExitWake, PythonExitJoin,
        Closed, Exiting
  <1> QED
    BY <1>2, <1>3, <1>4 DEF Alive, RunningHeld, SubmitOpen, JoinWaits, Staffed, Spawned

LEMMA PromiseInvInit == Init => PromiseInv
  BY HoldersAssumption
  DEF Init, PromiseInv, Alive, RunningHeld, SubmitOpen, JoinWaits, Staffed, Spawned, Queued,
      Closed, Exiting

LEMMA PromiseInvStep ==
  ASSUME QueueInv, PlaceInv, PromiseInv, Faults \subseteq {"cancel"}, [Next]_vars
  PROVE  PromiseInv'
  <1>1. CASE UNCHANGED vars
    BY <1>1 DEF vars, PromiseInv, Alive, RunningHeld, SubmitOpen, JoinWaits, Staffed, Spawned,
                Queued, Closed, Exiting
  <1> QED
    BY <1>1, ClientPromise, WorkerPromise, ShutdownPromise, EndPromise DEF Next

-----------------------------------------------------------------------------
(* The steps under the refinement mapping                                   *)

IsOpen == ~(shut \/ broken \/ Exiting)
Returned == {c \in Callers : caller[c] = "back" /\ wait[c]}

\* What is in the hands of the executor when the last thread has left: nothing.
LEMMA NothingLeft ==
  ASSUME QueueInv, PlaceInv, PromiseInv, shut, \A w \in Spawned : Ended(w),
         NEW i \in Items
  PROVE  future[i] \notin {"PENDING", "RUNNING"}
  <1> USE DEF PromiseInv
  <1>1. \A w \in Workers : worker[w] \in {"unborn", "left"}
    BY DEF Spawned, Ended, Alive
  <1>2. ~Queued(i)
    <2>1. CASE Spawned = {}
      BY <2>1 DEF Staffed, SubmitOpen, Closed
    <2>2. CASE Spawned # {}
      BY <1>1, <2>2 DEF Spawned, QueueInv, LeavesNoWork, Woken
    <2> QED
      BY <2>1, <2>2
  <1> QED
    BY <1>1, <1>2 DEF PlaceInv, SomePlace, RunningHeld

\* A step that changes no future changes only whether work is accepted.
LEMMA CloseOrStutter ==
  ASSUME future' = future, Returned' = Returned, IsOpen' => IsOpen
  PROVE  [Promise!Close]_(Promise!vars)
  BY DEF Promise!Close, Promise!vars, IsOpen, Returned

\* A step that changes one future, as an executor may.
LEMMA FutureStep ==
  ASSUME TypeOK, NEW i \in Items, Returned' = Returned, IsOpen' = IsOpen,
         \/ IsOpen /\ future[i] = "none" /\ future' = [future EXCEPT ![i] = "PENDING"]
         \/ ~IsOpen /\ future[i] = "none" /\ future' = [future EXCEPT ![i] = "refused"]
         \/ future[i] = "PENDING" /\ future' = [future EXCEPT ![i] = "RUNNING"]
         \/ future[i] = "RUNNING" /\ future' = [future EXCEPT ![i] = "FINISHED"]
         \/ future[i] = "PENDING" /\ future' = [future EXCEPT ![i] = "CANCELLED"]
         \/ future[i] = "CANCELLED" /\ future' = [future EXCEPT ![i] = "CANCELLED_AND_NOTIFIED"]
  PROVE  Promise!Next
  <1>1. Promise!Accept(i) \/ Promise!Refuse(i) \/ Promise!Run(i) \/ Promise!Cancel(i)
    BY DEF Promise!Accept, Promise!Refuse, Promise!Run, Promise!Cancel, Promise!Move,
           IsOpen, Returned
  <1> QED
    BY <1>1 DEF Promise!Next

LEMMA ClientRefines ==
  ASSUME TypeOK, NEW i \in Items,
         \/ SubmitPut(i) \/ SubmitRefused(i) \/ AdjustThreadCount(i) \/ ThreadStartRaises(i)
         \/ CancelFuture(i)
  PROVE  [Promise!Next]_(Promise!vars)
  <1>1. Returned' = Returned /\ IsOpen' = IsOpen
    BY DEF SubmitPut, SubmitRefused, AdjustThreadCount, ThreadStartRaises, CancelFuture, Returned,
           IsOpen, Exiting
  <1>2. CASE SubmitPut(i) \/ SubmitRefused(i) \/ CancelFuture(i)
    BY <1>1, <1>2, FutureStep DEF SubmitPut, SubmitRefused, CancelFuture, IsOpen
  <1>3. CASE AdjustThreadCount(i) \/ ThreadStartRaises(i)
    BY <1>1, <1>3, CloseOrStutter DEF AdjustThreadCount, ThreadStartRaises, Promise!Next
  <1> QED
    BY <1>2, <1>3

LEMMA WorkerRefines ==
  ASSUME QueueInv, PlaceInv, PromiseInv, Faults \subseteq {"cancel"},
         NEW w \in Workers, WorkerStep(w)
  PROVE  [Promise!Next]_(Promise!vars)
  <1>1. TypeOK
    BY DEF QueueInv
  <1>2. Returned' = Returned
    BY LivingSteps, WorkerStaffs, <1>1 DEF Returned
  <1>3. CASE Start(w) \/ Finish(w)
    <2>1. held[w] \in Items /\ IsOpen' = IsOpen
      BY <1>3 DEF Start, Finish, PlaceInv, HandPlaces, IsOpen, Exiting
    <2>2. worker[w] = "taken" => future[held[w]] \in Waiting
      BY <2>1 DEF PlaceInv, HandPlaces
    <2>3. worker[w] = "run" => future[held[w]] = "RUNNING"
      BY <2>1 DEF PlaceInv, HandPlaces
    <2> QED
      BY <1>1, <1>2, <1>3, <2>1, <2>2, <2>3, FutureStep DEF Start, Finish, Waiting
  <1>4. CASE Initialized(w) \/ Get(w) \/ Release(w) \/ Check(w) \/ Notify(w)
    <2>1. /\ future' = future /\ broken' = broken /\ interp' = interp
          /\ shut => shut'
      <3>1. CASE Check(w)
        BY <1>1, <3>1 DEF Check, TypeOK
      <3>2. CASE ~Check(w)
        BY <1>4, <3>2 DEF Initialized, Get, Release, Notify
      <3> QED
        BY <3>1, <3>2
    <2>2. IsOpen' => IsOpen
      BY <2>1 DEF IsOpen, Exiting
    <2> QED
      BY <1>2, <2>1, <2>2, CloseOrStutter DEF Promise!Next
  <1> QED
    BY <1>3, <1>4, LivingSteps

LEMMA ShutdownRefines ==
  ASSUME QueueInv, PlaceInv, PromiseInv, NEW c \in Callers, ShutdownBegin(c) \/ ShutdownStep(c)
  PROVE  [Promise!Next]_(Promise!vars)
  <1>1. TypeOK
    BY DEF QueueInv
  <1>2. CASE ShutdownBegin(c) \/ ShutdownWake(c)
    <2>1. Returned' = Returned
      BY <1>1, <1>2 DEF ShutdownBegin, ShutdownWake, Returned, TypeOK
    <2>2. future' = future /\ (IsOpen' => IsOpen)
      BY <1>2 DEF ShutdownBegin, ShutdownWake, IsOpen, Exiting
    <2> QED
      BY <2>1, <2>2, CloseOrStutter DEF Promise!Next
  <1>3. CASE CancelQueued(c)
    <2>1. Returned' = Returned /\ IsOpen' = IsOpen
      BY <1>1, <1>3 DEF CancelQueued, Returned, IsOpen, Exiting, TypeOK
    <2>2. CASE future' = future
      BY <2>1, <2>2, CloseOrStutter DEF Promise!Next
    <2>3. CASE future' # future
      <3>1. Head(queue) \in Items
        BY <1>1, <1>3, <2>3, TailFacts DEF CancelQueued, TypeOK, Entries
      <3> QED
        BY <1>1, <1>3, <2>1, <2>3, <3>1, FutureStep DEF CancelQueued
    <2> QED
      BY <2>2, <2>3
  <1>4. CASE ShutdownJoin(c)
    <2>1. wait[c] /\ shut /\ ~IsOpen
      BY <1>4 DEF ShutdownJoin, PromiseInv, JoinWaits, QueueInv, ShutdownFlags, IsOpen
    <2>2. Returned' = Returned \cup {c} /\ c \notin Returned
      BY <1>1, <1>4, <2>1 DEF ShutdownJoin, Returned, TypeOK
    <2>3. \A i \in Items : future[i] \notin {"PENDING", "RUNNING"}
      BY <1>4, <2>1, NothingLeft DEF ShutdownJoin
    <2>4. Promise!Return(c)
      BY <1>4, <2>1, <2>2, <2>3
      DEF Promise!Return, Promise!Undecided, IsOpen, Returned, ShutdownJoin, Exiting
    <2> QED
      BY <2>4 DEF Promise!Next
  <1> QED
    BY <1>2, <1>3, <1>4 DEF ShutdownStep

LEMMA EndRefines ==
  ASSUME Collect \/ MainEnds \/ InterpStep
  PROVE  [Promise!Next]_(Promise!vars)
  <1>1. Returned' = Returned /\ future' = future /\ (IsOpen' => IsOpen)
    BY DEF Collect, MainEnds, InterpStep, PythonExitFlag, PythonExitWake, PythonExitJoin,
           pool, Returned, IsOpen, Exiting
  <1> QED
    BY <1>1, CloseOrStutter DEF Promise!Next

\* The pool implements Executor when nothing but a client's cancellation can go
\* wrong: work is accepted while it is open, each future is decided once, and
\* shutdown(wait=True) returns when no future is undecided any more.
THEOREM PoolKeepsPromise ==
  ASSUME Faults \subseteq {"cancel"}
  PROVE  Spec => KeepsPromise
  <1>1. Init => Promise!Init
    BY DEF Init, Promise!Init, Exiting
  <1>2. QueueInv /\ PlaceInv /\ PromiseInv /\ [Next]_vars => [Promise!Next]_(Promise!vars)
    <2> SUFFICES ASSUME QueueInv, PlaceInv, PromiseInv, [Next]_vars
                 PROVE  [Promise!Next]_(Promise!vars)
      OBVIOUS
    <2>1. TypeOK
      BY DEF QueueInv
    <2>2. CASE UNCHANGED vars
      <3>1. Returned' = Returned /\ future' = future /\ IsOpen' = IsOpen
        BY <2>2 DEF vars, Returned, IsOpen, Exiting
      <3> QED
        BY <3>1, CloseOrStutter DEF Promise!Next
    <2> QED
      BY <2>1, <2>2, ClientRefines, WorkerRefines, ShutdownRefines, EndRefines DEF Next
  <1>3. QueueInv /\ PlaceInv /\ PromiseInv /\ [Next]_vars => PromiseInv'
    BY PromiseInvStep
  <1> QED
    BY <1>1, <1>2, <1>3, QueueInvInvariant, PlaceInvInit, PlaceInvStep, PromiseInvInit, PTL
    DEF Spec, KeepsPromise, Promise!Spec

-----------------------------------------------------------------------------
(* Nobody is left waiting: what the liveness of the pool rests on           *)

\* A thread that has something to do: it does not wait at an empty queue.
AtWork(w) ==
  \/ worker[w] \in {"init", "taken", "run", "release", "check", "notify"}
  \/ worker[w] = "get" /\ queue # <<>>

\* All threads have been told to leave: shutdown() has put its wake-up, weakref_cb has put
\* one for each live thread, or _python_exit has.
Told ==
  \/ \E c \in Callers : caller[c] \in {"join", "back"}
  \/ collected
  \/ interp \in {"woken", "exited"}

\* Some thread will still get a wake-up, or is about to hand one on; or a call of shutdown()
\* drains the queue, perhaps of the wake-up of another, and will put one of its own.
WakeUpUnderWay ==
  \/ \E k \in 1..Len(queue) : queue[k] = WakeUp
  \/ \E w \in Workers : worker[w] \in {"check", "notify"}
  \/ \E c \in Callers : caller[c] \in {"cancel", "wake"}

\* As long as a thread is left, the wake-up has not been swallowed.
WakeUpReachesAll == Told => WakeUpUnderWay \/ \A w \in Spawned : Ended(w)

\* A waiting shutdown() and _python_exit find their threads ended, or at work, or
\* another call of shutdown() that has yet to wake them.
JoinsAreServed ==
  (\E c \in Callers : caller[c] = "join") \/ interp = "woken" =>
    \/ \A w \in Spawned : Ended(w)
    \/ \E w \in Workers : AtWork(w)
    \/ \E c \in Callers : caller[c] \in {"cancel", "wake"}

\* A pending item is in the hands of its submit(), or some thread is at work that will come
\* to it; unless submit() raised because its thread did not start.
PendingIsServed ==
  \A i \in Items : future[i] = "PENDING" =>
    i \in unstarted \/ lock = i \/ \E w \in Workers : AtWork(w)

\* No initializer has failed, and hence no queue is drained for it.
NoneFailed == \A w \in Workers : worker[w] \notin {"failed", "drain"}

\* No thread has died; without threads nothing is idle, and what is queued is of a
\* submit() that has yet to start one, or could not.
Manned ==
  /\ \A w \in Workers : worker[w] # "dead"
  /\ Spawned = {} =>
       idle = 0 /\ \A i \in Items : Queued(i) => i \in unstarted \/ lock = i

WakeInv == NoneFailed /\ SubmitOpen /\ WakeUpReachesAll

LEMMA ToldMeansClosed ==
  ASSUME QueueInv, Told
  PROVE  Closed
  BY DEF QueueInv, ShutdownFlags, Told, Closed, Exiting

\* With any faults, the pool cannot close while a submit() holds the locks.
LEMMA SubmitOpenStep ==
  ASSUME QueueInv, SubmitOpen, [Next]_vars
  PROVE  SubmitOpen'
  <1> USE DEF SubmitOpen, Closed, Exiting
  <1>1. TypeOK
    BY DEF QueueInv
  <1>2. CASE UNCHANGED vars
    BY <1>2 DEF vars
  <1>3. ASSUME NEW i \in Items,
               \/ SubmitPut(i) \/ SubmitRefused(i) \/ AdjustThreadCount(i)
               \/ ThreadStartRaises(i) \/ CancelFuture(i)
        PROVE  SubmitOpen'
    BY <1>3, HoldersAssumption
    DEF SubmitPut, SubmitRefused, AdjustThreadCount, ThreadStartRaises, CancelFuture
  <1>4. ASSUME NEW w \in Workers, WorkerStep(w)
        PROVE  SubmitOpen'
    <2>1. lock' = lock \/ lock' \in {Nobody, w}
      BY <1>4 DEF WorkerStep, Initialized, InitializerRaises, MarkBroken, Drain, Get, Start,
                  Finish, Escape, Release, Check, Notify
    <2>2. lock' \in Items => lock' = lock
      BY <2>1, HoldersAssumption
    <2>3. collected' = collected /\ interp' = interp
      BY <1>4 DEF WorkerStep, Initialized, InitializerRaises, MarkBroken, Drain, Get, Start,
                  Finish, Escape, Release, Check, Notify
    <2>4. CASE Check(w)
      <3>1. Closed
        BY <2>4 DEF Check, QueueInv, WakeUpMeansLeave, Woken
      <3> QED
        BY <2>2, <3>1
    <2>5. CASE ~Check(w)
      <3>1. shut' = shut
        BY <1>4, <2>5 DEF WorkerStep, Initialized, InitializerRaises, MarkBroken, Drain, Get,
                          Start, Finish, Escape, Release, Notify
      <3> QED
        BY <2>2, <2>3, <3>1
    <2> QED
      BY <2>4, <2>5
  <1>5. ASSUME NEW c \in Callers, ShutdownBegin(c) \/ ShutdownStep(c)
        PROVE  SubmitOpen'
    <2>1. collected' = collected /\ interp' = interp
      BY <1>5 DEF ShutdownBegin, ShutdownStep, CancelQueued, ShutdownWake, ShutdownJoin
    <2>2. lock' \in Items => lock' = lock /\ shut' = shut
      BY <1>5, HoldersAssumption
      DEF ShutdownBegin, ShutdownStep, CancelQueued, ShutdownWake, ShutdownJoin
    <2> QED
      BY <2>1, <2>2
  <1>6. CASE Collect \/ MainEnds \/ InterpStep
    BY <1>6, HoldersAssumption
    DEF Collect, MainEnds, InterpStep, PythonExitFlag, PythonExitWake, PythonExitJoin, pool
  <1> QED
    BY <1>2, <1>3, <1>4, <1>5, <1>6 DEF Next

\* A thread that fails does so in its initializer.
LEMMA NoneFailedStep ==
  ASSUME TypeOK, NoneFailed, "initializer" \notin Faults, [Next]_vars
  PROVE  NoneFailed'
  <1>1. ASSUME NEW w \in Workers, WorkerStep(w)
        PROVE  NoneFailed'
    BY <1>1 DEF NoneFailed, TypeOK, WorkerStep, Initialized, InitializerRaises, MarkBroken,
                Drain, Get, Start, Finish, Escape, Release, Check, Notify, Goto
  <1>2. ASSUME NEW i \in Items,
               \/ SubmitPut(i) \/ SubmitRefused(i) \/ AdjustThreadCount(i)
               \/ ThreadStartRaises(i) \/ CancelFuture(i)
        PROVE  NoneFailed'
    BY <1>2 DEF NoneFailed, TypeOK, SubmitPut, SubmitRefused, AdjustThreadCount,
                ThreadStartRaises, CancelFuture
  <1>3. ASSUME NEW c \in Callers, ShutdownBegin(c) \/ ShutdownStep(c)
        PROVE  NoneFailed'
    BY <1>3 DEF NoneFailed, ShutdownBegin, ShutdownStep, CancelQueued, ShutdownWake, ShutdownJoin
  <1>4. CASE Collect \/ MainEnds \/ InterpStep
    BY <1>4 DEF NoneFailed, Collect, MainEnds, InterpStep, PythonExitFlag, PythonExitWake,
                PythonExitJoin, pool
  <1>5. CASE UNCHANGED vars
    BY <1>5 DEF NoneFailed, vars
  <1> QED
    BY <1>1, <1>2, <1>3, <1>4, <1>5 DEF Next

\* A submit() that succeeds, or starts a thread, does so before the threads are told.
LEMMA ClientWakes ==
  ASSUME QueueInv, SubmitOpen, WakeUpReachesAll, NEW i \in Items,
         \/ SubmitPut(i) \/ SubmitRefused(i) \/ AdjustThreadCount(i)
         \/ ThreadStartRaises(i) \/ CancelFuture(i)
  PROVE  WakeUpReachesAll'
  <1> SUFFICES ASSUME Told'
               PROVE  (WakeUpUnderWay \/ \A w \in Spawned : Ended(w))'
    BY DEF WakeUpReachesAll
  <1>1. caller' = caller /\ collected' = collected /\ interp' = interp
    BY DEF SubmitPut, SubmitRefused, AdjustThreadCount, ThreadStartRaises, CancelFuture
  <1>2. Told
    BY <1>1 DEF Told
  <1>3. Closed /\ lock \notin Items
    BY <1>2, ToldMeansClosed DEF SubmitOpen
  <1>4. SubmitRefused(i) \/ CancelFuture(i)
    BY <1>3 DEF Closed, SubmitPut, AdjustThreadCount, ThreadStartRaises
  <1>5. queue' = queue /\ worker' = worker
    BY <1>4 DEF SubmitRefused, CancelFuture
  <1> QED
    BY <1>1, <1>2, <1>5 DEF WakeUpReachesAll, WakeUpUnderWay, Spawned, Ended

\* A thread that takes a wake-up hands it on before it leaves.
LEMMA WorkerWakes ==
  ASSUME QueueInv, NoneFailed, "initializer" \notin Faults, WakeUpReachesAll,
         NEW w \in Workers, WorkerStep(w)
  PROVE  WakeUpReachesAll'
  <1>1. TypeOK
    BY DEF QueueInv
  <1>2. /\ caller' = caller /\ collected' = collected /\ interp' = interp
        /\ \A v \in Workers \ {w} : worker'[v] = worker[v]
    BY <1>1 DEF TypeOK, WorkerStep, Initialized, InitializerRaises, MarkBroken, Drain, Get, Start,
                Finish, Escape, Release, Check, Notify, Goto
  <1> SUFFICES ASSUME Told
               PROVE  WakeUpUnderWay'
    BY <1>2 DEF WakeUpReachesAll, Told
  <1>3. WakeUpUnderWay
    <2>1. w \in Spawned /\ ~Ended(w)
      BY DEF Spawned, Ended, WorkerStep, Initialized, InitializerRaises, MarkBroken, Drain, Get,
             Start, Finish, Escape, Release, Check, Notify
    <2> QED
      BY <2>1 DEF WakeUpReachesAll
  <1>4. CASE Get(w)
    <2>1. CASE Head(queue) = WakeUp
      BY <1>1, <1>4, <2>1 DEF Get, Goto, TypeOK, WakeUpUnderWay
    <2>2. CASE Head(queue) # WakeUp
      <3>1. /\ Len(queue) \in Nat /\ queue' = Tail(queue) /\ Len(queue') = Len(queue) - 1
            /\ Head(queue) = queue[1]
            /\ \A k \in 1..Len(queue') : queue'[k] = queue[k+1]
        BY <1>1, <1>4, TailFacts DEF Get, TypeOK
      <3>2. ASSUME NEW k \in 1..Len(queue), queue[k] = WakeUp
            PROVE  \E j \in 1..Len(queue') : queue'[j] = WakeUp
        <4>1. k # 1
          BY <2>2, <3>1, <3>2
        <4>2. k - 1 \in 1..Len(queue') /\ (k - 1) + 1 = k
          BY <3>1, <4>1
        <4> QED
          BY <3>1, <3>2, <4>2
      <3>3. worker[w] = "get"
        BY <1>4 DEF Get
      <3> QED
        BY <1>2, <1>3, <3>2, <3>3 DEF WakeUpUnderWay
    <2> QED
      BY <2>1, <2>2
  <1>5. CASE Check(w)
    <2>1. Closed
      BY ToldMeansClosed
    <2>2. worker'[w] = "notify"
      BY <1>1, <1>5, <2>1 DEF Check, Goto, TypeOK
    <2> QED
      BY <2>2 DEF WakeUpUnderWay
  <1>6. CASE Notify(w)
    <2>1. /\ Len(queue) \in Nat /\ Len(queue') = Len(queue) + 1
          /\ queue'[Len(queue) + 1] = WakeUp
      BY <1>1, <1>6, AppendFacts DEF Notify, TypeOK, Entries
    <2> QED
      BY <2>1 DEF WakeUpUnderWay
  <1>7. CASE Initialized(w) \/ Start(w) \/ Finish(w) \/ Escape(w) \/ Release(w)
    <2>1. queue' = queue /\ worker[w] \notin {"check", "notify"}
      BY <1>7 DEF Initialized, Start, Finish, Escape, Release
    <2> QED
      BY <1>2, <1>3, <2>1 DEF WakeUpUnderWay
  <1> QED
    BY <1>4, <1>5, <1>6, <1>7
    DEF WorkerStep, NoneFailed, InitializerRaises, MarkBroken, Drain

\* A call of shutdown() that drains the queue puts a wake-up in it afterwards.
LEMMA ShutdownWakes ==
  ASSUME QueueInv, WakeUpReachesAll, NEW c \in Callers, ShutdownBegin(c) \/ ShutdownStep(c)
  PROVE  WakeUpReachesAll'
  <1>1. TypeOK
    BY DEF QueueInv
  <1>2. CASE ShutdownBegin(c) \/ CancelQueued(c)
    <2>1. caller'[c] \in {"cancel", "wake"}
      BY <1>1, <1>2 DEF ShutdownBegin, CancelQueued, TypeOK
    <2> QED
      BY <2>1 DEF WakeUpReachesAll, WakeUpUnderWay
  <1>3. CASE ShutdownWake(c)
    <2>1. /\ Len(queue) \in Nat /\ Len(queue') = Len(queue) + 1
          /\ queue'[Len(queue) + 1] = WakeUp
      BY <1>1, <1>3, AppendFacts DEF ShutdownWake, TypeOK, Entries
    <2> QED
      BY <2>1 DEF WakeUpReachesAll, WakeUpUnderWay
  <1>4. CASE ShutdownJoin(c)
    <2>1. /\ queue' = queue /\ worker' = worker
          /\ caller[c] = "join" /\ \A d \in Callers \ {c} : caller'[d] = caller[d]
      BY <1>1, <1>4 DEF ShutdownJoin, TypeOK
    <2>2. Told
      BY <2>1 DEF Told
    <2> QED
      BY <2>1, <2>2 DEF WakeUpReachesAll, WakeUpUnderWay, Spawned, Ended
  <1> QED
    BY <1>2, <1>3, <1>4 DEF ShutdownStep

\* weakref_cb and _python_exit put a wake-up if there is a thread to take it.
LEMMA EndWakes ==
  ASSUME QueueInv, WakeUpReachesAll, Collect \/ MainEnds \/ InterpStep
  PROVE  WakeUpReachesAll'
  <1> USE DEF pool
  <1>1. TypeOK
    BY DEF QueueInv
  <1>2. worker' = worker /\ caller' = caller
    BY DEF Collect, MainEnds, InterpStep, PythonExitFlag, PythonExitWake, PythonExitJoin
  <1>3. ASSUME NEW S \in SUBSET Workers, S # {}, queue' = queue \o WakeUps(Cardinality(S))
        PROVE  WakeUpUnderWay'
    <2>1. Cardinality(S) \in Nat /\ Cardinality(S) # 0
      BY <1>3, ThreadsCount, FS_EmptySet
    <2>2. /\ Len(queue) \in Nat /\ Len(queue') = Len(queue) + Cardinality(S)
          /\ \A k \in Len(queue)+1 .. Len(queue)+Cardinality(S) : queue'[k] = WakeUp
      BY <1>1, <1>3, <2>1, WakeUpsFacts DEF TypeOK
    <2>3. Len(queue) + 1 \in 1..Len(queue')
      BY <2>1, <2>2
    <2>4. queue'[Len(queue) + 1] = WakeUp
      BY <2>1, <2>2
    <2> QED
      BY <2>3, <2>4 DEF WakeUpUnderWay
  <1>4. CASE Collect
    <2>1. CASE {w \in Spawned : ~Ended(w)} = {}
      BY <1>2, <2>1 DEF WakeUpReachesAll, Spawned, Ended
    <2>2. CASE {w \in Spawned : ~Ended(w)} # {}
      BY <1>3, <1>4, <2>2 DEF Collect, WakeUpReachesAll, Spawned
    <2> QED
      BY <2>1, <2>2
  <1>5. CASE PythonExitWake
    <2>1. CASE Spawned = {}
      BY <1>2, <2>1 DEF WakeUpReachesAll, Spawned
    <2>2. CASE Spawned # {}
      BY <1>3, <1>5, <2>2 DEF PythonExitWake, WakeUpReachesAll, Spawned
    <2> QED
      BY <2>1, <2>2
  <1>6. CASE MainEnds \/ PythonExitFlag \/ PythonExitJoin
    <2>1. queue' = queue /\ (Told' => Told)
      BY <1>2, <1>6 DEF MainEnds, PythonExitFlag, PythonExitJoin, Told
    <2> QED
      BY <1>2, <2>1 DEF WakeUpReachesAll, WakeUpUnderWay, Spawned, Ended
  <1> QED
    BY <1>4, <1>5, <1>6 DEF InterpStep

LEMMA WakeInvHolds ==
  ASSUME "initializer" \notin Faults
  PROVE  Spec => []WakeInv
  <1>1. Init => WakeInv
    BY DEF Init, WakeInv, NoneFailed, SubmitOpen, WakeUpReachesAll, Told, Closed, Exiting
  <1>2. QueueInv /\ WakeInv /\ [Next]_vars => WakeInv'
    <2> SUFFICES ASSUME QueueInv, WakeInv, [Next]_vars
                 PROVE  WakeInv'
      OBVIOUS
    <2> USE DEF WakeInv
    <2>1. NoneFailed' /\ SubmitOpen'
      BY NoneFailedStep, SubmitOpenStep DEF QueueInv
    <2>2. CASE UNCHANGED vars
      BY <2>1, <2>2 DEF vars, WakeUpReachesAll, WakeUpUnderWay, Told, Spawned, Ended
    <2> QED
      BY <2>1, <2>2, ClientWakes, WorkerWakes, ShutdownWakes, EndWakes DEF Next
  <1> QED
    BY <1>1, <1>2, QueueInvInvariant, PTL DEF Spec

\* Unless an initializer fails, nothing swallows a wake-up: not the drain of
\* shutdown(cancel_futures=True), not a thread that a BaseException kills.  From the moment
\* all threads have been told to leave, each of them has ended or a wake-up is under way.
THEOREM WakeUpsReachEveryThread ==
  ASSUME "initializer" \notin Faults
  PROVE  Spec => []WakeUpReachesAll
  BY WakeInvHolds, PTL DEF WakeInv

\* A waiting shutdown() and the interpreter's exit never wait for threads that all wait at
\* an empty queue.
THEOREM JoinsEnd ==
  ASSUME "initializer" \notin Faults
  PROVE  Spec => []JoinsAreServed
  <1>1. QueueInv /\ WakeInv => JoinsAreServed
    <2> SUFFICES ASSUME QueueInv, WakeInv,
                        (\E c \in Callers : caller[c] = "join") \/ interp = "woken",
                        NEW v \in Spawned, ~Ended(v),
                        \A c \in Callers : caller[c] \notin {"cancel", "wake"}
                 PROVE  \E w \in Workers : AtWork(w)
      BY DEF JoinsAreServed
    <2>1. Told
      BY DEF Told
    <2>2. CASE \E w \in Workers : worker[w] \in {"check", "notify"}
      BY <2>2 DEF AtWork
    <2>3. CASE \E k \in 1..Len(queue) : queue[k] = WakeUp
      <3>1. queue # <<>>
        BY <2>3
      <3>2. v \in Workers /\ worker[v] \in WorkerStates \ {"unborn", "left", "dead", "failed", "drain"}
        BY DEF Spawned, Ended, WakeInv, NoneFailed, QueueInv, TypeOK
      <3> QED
        BY <3>1, <3>2 DEF AtWork, WorkerStates
    <2> QED
      BY <2>1, <2>2, <2>3 DEF WakeInv, WakeUpReachesAll, WakeUpUnderWay
  <1> QED
    BY <1>1, WakeInvHolds, QueueInvInvariant, PTL

\* No thread dies, and an item that is queued without any thread is about to get one.
LEMMA MannedStep ==
  ASSUME QueueInv, SubmitOpen, Manned, NoneFailed, Faults \subseteq {"cancel", "start"}, [Next]_vars
  PROVE  Manned'
  <1>1. TypeOK
    BY DEF QueueInv
  <1>2. CASE UNCHANGED vars
    BY <1>2 DEF vars, Manned, Spawned, Queued
  <1>3. ASSUME NEW i \in Items, SubmitPut(i)
        PROVE  Manned'
    <2>1. /\ Len(queue) \in Nat /\ Len(queue') = Len(queue) + 1
          /\ \A k \in 1..Len(queue) : queue'[k] = queue[k]
          /\ queue'[Len(queue) + 1] = i
      BY <1>1, <1>3, AppendFacts DEF SubmitPut, TypeOK, Entries
    <2>2. \A k \in 1..Len(queue') : k \in 1..Len(queue) \/ k = Len(queue) + 1
      BY <2>1
    <2>3. \A j \in Items : Queued(j)' => Queued(j) \/ j = i
      BY <2>1, <2>2 DEF Queued
    <2>4. lock = Nobody /\ lock' = i /\ worker' = worker /\ idle' = idle /\ unstarted' = unstarted
      BY <1>3 DEF SubmitPut
    <2> QED
      BY <2>3, <2>4, HoldersAssumption DEF Manned, Spawned
  <1>4. ASSUME NEW i \in Items, SubmitRefused(i) \/ CancelFuture(i)
        PROVE  Manned'
    BY <1>4 DEF SubmitRefused, CancelFuture, Manned, Spawned, Queued
  <1>5. ASSUME NEW i \in Items, AdjustThreadCount(i)
        PROVE  Manned'
    <2>1. \A w \in Workers : worker[w] # "unborn" => worker'[w] = worker[w]
      BY <1>1, <1>5 DEF AdjustThreadCount, Spawned, TypeOK
    <2>2. \A w \in Workers : worker'[w] # "dead"
      BY <1>1, <1>5 DEF AdjustThreadCount, Spawned, TypeOK, Manned
    <2>3. Spawned' # {}
      <3>1. CASE idle > 0
        <4>1. Spawned # {}
          BY <3>1 DEF Manned
        <4> QED
          BY <2>1, <4>1 DEF Spawned
      <3>2. CASE ~(idle > 0) /\ Spawned # Workers
        BY <1>1, <1>5, <3>2 DEF AdjustThreadCount, Spawned, TypeOK
      <3>3. CASE Spawned = Workers
        BY <2>1, <3>3, WorkersAssumption DEF Spawned
      <3> QED
        BY <3>1, <3>2, <3>3
    <2> QED
      BY <2>2, <2>3 DEF Manned
  <1>6. ASSUME NEW i \in Items, ThreadStartRaises(i)
        PROVE  Manned'
    BY <1>6 DEF ThreadStartRaises, Manned, Spawned, Queued
  <1>7. ASSUME NEW w \in Workers, WorkerStep(w)
        PROVE  Manned'
    <2>1. \/ Initialized(w) \/ Get(w) \/ Start(w) \/ Finish(w) \/ Release(w)
          \/ Check(w) \/ Notify(w)
      BY <1>7 DEF WorkerStep, NoneFailed, InitializerRaises, MarkBroken, Drain, Escape
    <2> QED
      BY <1>1, <2>1, WorkerStaffs DEF Manned
  <1>8. ASSUME NEW c \in Callers, ShutdownBegin(c) \/ ShutdownStep(c)
        PROVE  Manned'
    <2>1. /\ worker' = worker /\ idle' = idle /\ unstarted' = unstarted
      BY <1>8 DEF ShutdownBegin, ShutdownStep, CancelQueued, ShutdownWake, ShutdownJoin
    <2>2. \A i \in Items : Queued(i)' => Queued(i)
      <3>1. CASE CancelQueued(c) /\ queue # <<>>
        BY <1>1, <3>1, TakeHead DEF CancelQueued, QueueInv
      <3>2. CASE ShutdownWake(c)
        BY <1>1, <3>2, PutWakeUp DEF ShutdownWake, QueueInv
      <3>3. CASE queue' = queue
        BY <3>3 DEF Queued
      <3> QED
        BY <1>8, <3>1, <3>2, <3>3 DEF ShutdownBegin, ShutdownStep, CancelQueued, ShutdownJoin
    <2>3. lock' = lock \/ lock \notin Items
      <3>1. CASE ShutdownBegin(c)
        BY <3>1, HoldersAssumption DEF ShutdownBegin
      <3>2. CASE ShutdownWake(c)
        <4>1. shut
          BY <3>2 DEF ShutdownWake, QueueInv, ShutdownFlags
        <4> QED
          BY <4>1 DEF SubmitOpen, Closed
      <3> QED
        BY <1>8, <3>1, <3>2 DEF ShutdownStep, CancelQueued, ShutdownJoin
    <2> QED
      BY <2>1, <2>2, <2>3 DEF Manned, Spawned
  <1>9. CASE Collect \/ MainEnds \/ InterpStep
    <2>1. worker' = worker /\ idle' = idle /\ unstarted' = unstarted /\ lock' = lock
      BY <1>9 DEF Collect, MainEnds, InterpStep, PythonExitFlag, PythonExitWake, PythonExitJoin, pool
    <2>2. \A i \in Items : Queued(i)' => Queued(i)
      <3>1. CASE Collect \/ PythonExitWake
        BY <1>1, <3>1, ThreadsCount, PutWakeUps DEF Collect, PythonExitWake, Spawned, QueueInv
      <3>2. CASE queue' = queue
        BY <3>2 DEF Queued
      <3> QED
        BY <1>9, <3>1, <3>2 DEF MainEnds, InterpStep, PythonExitFlag, PythonExitJoin
    <2> QED
      BY <2>1, <2>2 DEF Manned, Spawned
  <1> QED
    BY <1>2, <1>3, <1>4, <1>5, <1>6, <1>7, <1>8, <1>9 DEF Next

\* Every item that a submit() has accepted is served: as long as its future is pending, its
\* submit() is under way or there is a thread that does not wait, through any order of
\* shutdown, collection and exit, and threads that do not start.
THEOREM PendingItemsAreServed ==
  ASSUME Faults \subseteq {"cancel", "start"}
  PROVE  Spec => []PendingIsServed
  <1>1. Init => Manned
    BY DEF Init, Manned, Queued
  <1>2. QueueInv /\ WakeInv /\ Manned /\ [Next]_vars => Manned'
    BY MannedStep DEF WakeInv
  <1>3. QueueInv /\ PlaceInv /\ WakeInv /\ Manned => PendingIsServed
    <2> SUFFICES ASSUME QueueInv, PlaceInv, WakeInv, Manned,
                        NEW i \in Items, future[i] = "PENDING", i \notin unstarted, lock # i
                 PROVE  \E w \in Workers : AtWork(w)
      BY DEF PendingIsServed
    <2>1. CASE \E w \in Workers : worker[w] = "taken"
      BY <2>1 DEF AtWork
    <2>2. CASE Queued(i)
      <3>1. PICK w \in Spawned : TRUE
        BY <2>2 DEF Manned
      <3>2. w \in Workers /\ worker[w] # "left" /\ worker[w] \in WorkerStates \ {"unborn"}
        BY <2>2 DEF QueueInv, TypeOK, LeavesNoWork, Woken, Spawned
      <3>3. queue # <<>>
        BY <2>2 DEF Queued
      <3> QED
        BY <3>2, <3>3 DEF AtWork, Manned, WakeInv, NoneFailed, WorkerStates
    <2> QED
      BY <2>1, <2>2 DEF PlaceInv, SomePlace, Waiting
  <1>4. "initializer" \notin Faults
    OBVIOUS
  <1> QED
    BY <1>1, <1>2, <1>3, <1>4, WakeInvHolds, QueueInvInvariant, PlaceInvInit, PlaceInvStep, PTL
    DEF Spec
=============================================================================
