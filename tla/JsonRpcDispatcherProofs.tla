------------------------ MODULE JsonRpcDispatcherProofs ------------------------
(***************************************************************************)
(* That a caller of gather_awaitables or gather_coroutines is woken once,  *)
(* gets what it waits for and leaves nothing running unnoticed, for any    *)
(* awaitables, conditions and timeouts, called directly or by process_rpc; *)
(* and that process_rpc answers each request of a payload once, no         *)
(* notification ever, and a batch after the calls it awaits.               *)
(***************************************************************************)
EXTENDS JsonRpcDispatcher, FiniteSetTheorems, SequenceTheorems, TLAPS

Handles == {Timeout, Resume} \cup {Callback(k) : k \in Keys}

Typed ==
  /\ function \in {"gather_awaitables", "gather_coroutines"}
  /\ pc \in {"idle", "waiting", "returned", "raised"}
  /\ awaited \in SUBSET Keys /\ waitFor \in Conditions
  /\ task \in [Keys -> Outcomes \cup {"none", "pending"}]
  /\ watched \in SUBSET awaited
  /\ counter \in Int
  /\ waiter \in {"none", "pending", "done", "cancelled"}
  /\ timer \in {"off", "armed", "due", "fired"}
  /\ cancelled \in BOOLEAN
  /\ ready \in Seq(Handles)

Has(queue, handle) == \E n \in 1..Len(queue) : queue[n] = handle
Once(queue, handle) ==
  \A m, n \in 1..Len(queue) : queue[m] = handle /\ queue[n] = handle => m = n

\* Before the call there is nothing, and during it all its tasks are watched.
Stages ==
  /\ pc = "idle" => ready = <<>> /\ watched = {} /\ waiter = "none" /\ timer = "off" /\ ~cancelled
  /\ pc = "waiting" => watched = awaited /\ waiter # "none"
  /\ pc \in {"returned", "raised"} => watched = {} /\ waiter \in {"done", "cancelled"}
  /\ waiter = "cancelled" => cancelled

\* The caller is woken by the one release of its waiter.
Wakes ==
  /\ Once(ready, Resume)
  /\ Has(ready, Resume) => pc = "waiting" /\ waiter \in {"done", "cancelled"}

\* A callback is scheduled once, for a task that has ended.
Calls ==
  \A k \in Keys :
    /\ Once(ready, Callback(k))
    /\ Has(ready, Callback(k)) => k \in awaited /\ task[k] \in Outcomes

\* The callbacks that have not run yet.
Left == {k \in Keys : (k \in watched /\ task[k] = "pending") \/ Has(ready, Callback(k))}
Counted == counter >= Cardinality(Left)

\* What the call waits for, as far as the outcomes of its tasks say.
Satisfied(outcome) ==
  \/ \A k \in awaited : outcome[k] # "pending"
  \/ waitFor = "ANY_DONE" /\ \E k \in awaited : outcome[k] # "pending"
  \/ waitFor = "ANY_FAIL" /\ \E k \in awaited : outcome[k] = "failed"

\* A waiter that is done without the timer has what it waits for.
Earned == waiter = "done" /\ timer # "fired" => Satisfied(task)
Exact == pc = "waiting" => counter = Cardinality(Left)

GatherInv ==
  Typed /\ Stages /\ Wakes /\ Calls /\ Counted /\ Exact /\ Earned /\ WaitForKept /\ NothingLeftRunning

-----------------------------------------------------------------------------
(* Handles                                                                  *)

LEMMA HandlesDiffer ==
  /\ Timeout # Resume
  /\ \A k : Callback(k) # Timeout /\ Callback(k) # Resume
  /\ \A j, k : Callback(j) = Callback(k) => j = k
  BY DEF Timeout, Resume, Callback

LEMMA AppendHas ==
  ASSUME NEW queue \in Seq(Handles), NEW new \in Handles
  PROVE  /\ Append(queue, new) \in Seq(Handles)
         /\ \A handle : Has(Append(queue, new), handle) <=> Has(queue, handle) \/ handle = new
         /\ \A handle : Once(queue, handle) /\ (handle # new \/ ~Has(queue, handle)) =>
                          Once(Append(queue, new), handle)
  <1> DEFINE longer == Append(queue, new)
  <1>1. /\ longer \in Seq(Handles) /\ Len(longer) = Len(queue) + 1 /\ Len(queue) \in Nat
        /\ longer[Len(queue) + 1] = new /\ \A n \in 1..Len(queue) : longer[n] = queue[n]
    BY AppendProperties
  <1> HIDE DEF longer
  <1> QED
    BY <1>1 DEF Has, Once, longer

LEMMA TailHas ==
  ASSUME NEW queue \in Seq(Handles), queue # <<>>
  PROVE  /\ Tail(queue) \in Seq(Handles)
         /\ \A handle : Has(Tail(queue), handle) => Has(queue, handle)
         /\ \A handle : Has(queue, handle) /\ handle # Head(queue) => Has(Tail(queue), handle)
         /\ \A handle : Once(queue, handle) => Once(Tail(queue), handle)
         /\ \A handle : Once(queue, handle) /\ handle = Head(queue) => ~Has(Tail(queue), handle)
         /\ Has(queue, Head(queue))
  <1> DEFINE rest == Tail(queue)
  <1>1. /\ rest \in Seq(Handles) /\ Len(rest) = Len(queue) - 1 /\ Len(queue) \in Nat \ {0}
        /\ Head(queue) = queue[1] /\ \A n \in 1..Len(rest) : rest[n] = queue[n + 1]
    BY HeadTailProperties, EmptySeq
  <1> HIDE DEF rest
  <1>2. \A handle : Has(rest, handle) => Has(queue, handle)
    BY <1>1 DEF Has
  <1>3. ASSUME NEW handle, Has(queue, handle), handle # Head(queue)
        PROVE  Has(rest, handle)
    <2>1. PICK n \in 1..Len(queue) : queue[n] = handle
      BY <1>3 DEF Has
    <2>2. n - 1 \in 1..Len(rest) /\ rest[n - 1] = handle
      BY <1>1, <1>3, <2>1
    <2> QED
      BY <2>2 DEF Has
  <1>4. ASSUME NEW handle, Once(queue, handle)
        PROVE  Once(rest, handle)
    <2> SUFFICES ASSUME NEW m \in 1..Len(rest), NEW n \in 1..Len(rest), rest[m] = handle, rest[n] = handle
                 PROVE  m = n
      BY DEF Once
    <2>1. m + 1 \in 1..Len(queue) /\ n + 1 \in 1..Len(queue)
      BY <1>1
    <2>2. m + 1 = n + 1
      BY <1>1, <1>4, <2>1 DEF Once
    <2> QED
      BY <2>2
  <1>5. ASSUME NEW handle, Once(queue, handle), handle = Head(queue), Has(rest, handle)
        PROVE  FALSE
    <2>1. PICK n \in 1..Len(rest) : rest[n] = handle
      BY <1>5 DEF Has
    <2>2. 1 \in 1..Len(queue) /\ n + 1 \in 1..Len(queue) /\ n + 1 # 1
      BY <1>1
    <2> QED
      BY <1>1, <1>5, <2>1, <2>2 DEF Once
  <1>6. Has(queue, Head(queue))
    BY <1>1 DEF Has
  <1> QED
    BY <1>1, <1>2, <1>3, <1>4, <1>5, <1>6 DEF rest

\* The elements of a finite set, as a sequence, are all there and once.
LEMMA SetToSeqIsBijection ==
  ASSUME NEW S, IsFiniteSet(S)
  PROVE  /\ Cardinality(S) \in Nat
         /\ SetToSeq(S) \in [1..Cardinality(S) -> S]
         /\ \A m, n \in 1..Cardinality(S) : SetToSeq(S)[m] = SetToSeq(S)[n] => m = n
         /\ \A x \in S : \E n \in 1..Cardinality(S) : SetToSeq(S)[n] = x
  <1>1. Cardinality(S) \in Nat /\ ExistsBijection(1..Cardinality(S), S)
    BY FS_CardinalityType
  <1>2. PICK f \in Bijection(1..Cardinality(S), S) : TRUE
    BY <1>1 DEF ExistsBijection
  <1>3. f \in [1..Cardinality(S) -> S] /\ IsInjective(f)
    BY <1>2 DEF Bijection, Injection
  <1>4. SetToSeq(S) \in [1..Cardinality(S) -> S] /\ IsInjective(SetToSeq(S))
    BY <1>3 DEF SetToSeq
  <1>5. SetToSeq(S) \in Injection(1..Cardinality(S), S)
    BY <1>4 DEF Injection
  <1>6. IsFiniteSet(1..Cardinality(S)) /\ Cardinality(1..Cardinality(S)) = Cardinality(S)
    BY <1>1, FS_Interval
  <1>7. SetToSeq(S) \in Surjection(1..Cardinality(S), S)
    BY <1>5, <1>6, FS_Injection
  <1> QED
    BY <1>1, <1>4, <1>7 DEF IsInjective, Surjection

-----------------------------------------------------------------------------
(* Steps                                                                    *)

LEMMA LeftIsFinite == IsFiniteSet(Left) /\ Cardinality(Left) \in Nat
  <1>1. Left \in SUBSET Keys
    BY DEF Left
  <1>2. IsFiniteSet(Left)
    BY <1>1, GatherAssumption, FS_Subset
  <1> QED
    BY <1>2, FS_CardinalityType

\* What a release of the waiter does to the handles that are left.
LEMMA ReleaseChanges ==
  ASSUME Typed, Stages, Wakes, NEW how \in {"done", "cancelled"},
         NEW rest \in Seq(Handles), Once(rest, Resume), Has(rest, Resume) => Has(ready, Resume),
         Release(how, rest)
  PROVE  /\ ready' \in Seq(Handles)
         /\ waiter' = IF waiter = "pending" THEN how ELSE waiter
         /\ \A k \in Keys : Has(ready', Callback(k)) <=> Has(rest, Callback(k))
         /\ \A k \in Keys : Once(rest, Callback(k)) => Once(ready', Callback(k))
         /\ Once(ready', Resume)
         /\ Has(ready', Resume) => pc = "waiting" /\ waiter' \in {"done", "cancelled"}
  <1>1. CASE waiter = "pending"
    <2>1. pc = "waiting" /\ ~Has(rest, Resume)
      BY <1>1 DEF Typed, Stages, Wakes
    <2>2. waiter' = how /\ ready' = Append(rest, Resume) /\ Resume \in Handles
      BY <1>1 DEF Release, Handles
    <2> QED
      BY <1>1, <2>1, <2>2, AppendHas, HandlesDiffer
  <1>2. CASE waiter # "pending"
    BY <1>2 DEF Release, Wakes
  <1> QED
    BY <1>1, <1>2

\* Tasks that end after the call has returned change nothing that it reports.
Reported ==
  /\ pc = "returned" => pc' = "returned" /\ UNCHANGED <<awaited, waitFor, results, stopping, cancelled>>
  /\ pc' = "returned" => pc = "returned"
  /\ timer = "fired" => timer' = "fired"
  /\ \A k \in awaited : task[k] # "pending" => task'[k] # "pending"

LEMMA ReportKept ==
  ASSUME Typed, WaitForKept, NothingLeftRunning, Reported
  PROVE  WaitForKept' /\ NothingLeftRunning'
  <1>1. WaitForKept'
    BY DEF WaitForKept, Reported
  <1>2. NothingLeftRunning'
    BY DEF NothingLeftRunning, Reported
  <1> QED
    BY <1>1, <1>2

LEMMA TaskEndsKeeps ==
  ASSUME GatherInv, NEW k \in Keys, NEW outcome \in Outcomes, TaskEnds(k, outcome)
  PROVE  GatherInv'
  <1>1. /\ task[k] = "pending" /\ task' \in [Keys -> Outcomes \cup {"none", "pending"}]
        /\ task'[k] = outcome /\ outcome # "pending"
        /\ \A j \in Keys \ {k} : task'[j] = task[j]
        /\ UNCHANGED <<function, pc, awaited, waitFor, watched, stopping, counter, waiter, timer,
                       cancelled, results>>
    BY DEF TaskEnds, GatherInv, Typed, Outcomes
  <1>2. ready \in Seq(Handles) /\ Callback(k) \in Handles /\ ~Has(ready, Callback(k))
    BY <1>1 DEF GatherInv, Typed, Handles, Calls, Outcomes
  <1>3. /\ ready' \in Seq(Handles)
        /\ k \notin watched => ready' = ready
        /\ \A h \in Handles : Has(ready', h) <=> Has(ready, h) \/ (h = Callback(k) /\ k \in watched)
        /\ \A h \in Handles : Once(ready, h) => Once(ready', h)
    BY <1>2, AppendHas DEF TaskEnds
  <1>4. Resume \in Handles /\ \A j \in Keys : Callback(j) \in Handles
    BY DEF Handles
  <1>5. Typed'
    BY <1>1, <1>3 DEF GatherInv, Typed
  <1>6. Stages'
    BY <1>1, <1>3 DEF GatherInv, Stages
  <1>7. Wakes'
    BY <1>1, <1>3, <1>4, HandlesDiffer DEF GatherInv, Wakes
  <1>8. Calls'
    BY <1>1, <1>3, <1>4, HandlesDiffer DEF GatherInv, Calls, Typed
  <1>9. Left' = Left
    BY <1>1, <1>2, <1>3, <1>4, HandlesDiffer DEF Left
  <1>10. Counted' /\ Exact'
    BY <1>1, <1>9 DEF GatherInv, Counted, Exact
  <1>11. Earned'
    <2>1. \A j \in awaited : task[j] # "pending" => task'[j] = task[j]
      BY <1>1 DEF GatherInv, Typed
    <2>2. Satisfied(task) => Satisfied(task')
      BY <2>1 DEF Satisfied
    <2>3. Satisfied(task)' = Satisfied(task')
      BY <1>1 DEF Satisfied
    <2> QED
      BY <1>1, <2>2, <2>3 DEF GatherInv, Earned
  <1>12. WaitForKept' /\ NothingLeftRunning'
    BY <1>1, ReportKept DEF GatherInv, Typed, Reported
  <1> QED
    BY <1>5, <1>6, <1>7, <1>8, <1>10, <1>11, <1>12 DEF GatherInv

LEMMA TimeIsUpKeeps ==
  ASSUME GatherInv, TimeIsUp
  PROVE  GatherInv'
  <1>1. /\ timer = "armed" /\ timer' = "due" /\ ready' = Append(ready, Timeout)
        /\ UNCHANGED <<function, pc, awaited, waitFor, task, watched, stopping, counter, waiter,
                       cancelled, results>>
    BY DEF TimeIsUp
  <1>2. ready \in Seq(Handles) /\ Timeout \in Handles
    BY DEF GatherInv, Typed, Handles
  <1>3. /\ ready' \in Seq(Handles)
        /\ \A h : h # Timeout => (Has(ready', h) <=> Has(ready, h))
        /\ \A h : h # Timeout /\ Once(ready, h) => Once(ready', h)
    BY <1>1, <1>2, AppendHas
  <1>4. Typed'
    BY <1>1, <1>3 DEF GatherInv, Typed
  <1>5. Stages'
    BY <1>1 DEF GatherInv, Stages
  <1>6. Wakes'
    BY <1>1, <1>3, HandlesDiffer DEF GatherInv, Wakes
  <1>7. Calls'
    BY <1>1, <1>3, HandlesDiffer DEF GatherInv, Calls
  <1>8. Left' = Left
    BY <1>1, <1>3, HandlesDiffer DEF Left
  <1>9. Counted' /\ Exact'
    BY <1>1, <1>8 DEF GatherInv, Counted, Exact
  <1>10. Earned'
    BY <1>1 DEF GatherInv, Earned, Satisfied
  <1>11. WaitForKept' /\ NothingLeftRunning'
    BY <1>1, ReportKept DEF GatherInv, Reported
  <1> QED
    BY <1>4, <1>5, <1>6, <1>7, <1>9, <1>10, <1>11 DEF GatherInv

LEMMA CancelCallerKeeps ==
  ASSUME GatherInv, CancelCaller
  PROVE  GatherInv'
  <1>1. /\ pc = "waiting" /\ cancelled' = TRUE /\ Release("cancelled", ready)
        /\ UNCHANGED <<function, pc, awaited, waitFor, task, watched, stopping, counter, timer,
                       results>>
    BY DEF CancelCaller
  <1>2. /\ ready' \in Seq(Handles)
        /\ waiter' = IF waiter = "pending" THEN "cancelled" ELSE waiter
        /\ \A k \in Keys : Has(ready', Callback(k)) <=> Has(ready, Callback(k))
        /\ \A k \in Keys : Once(ready, Callback(k)) => Once(ready', Callback(k))
        /\ Once(ready', Resume)
        /\ Has(ready', Resume) => pc = "waiting" /\ waiter' \in {"done", "cancelled"}
    BY <1>1, ReleaseChanges DEF GatherInv, Typed, Wakes
  <1>3. Typed'
    BY <1>1, <1>2 DEF GatherInv, Typed
  <1>4. Stages'
    BY <1>1, <1>2 DEF GatherInv, Stages
  <1>5. Wakes' /\ Calls'
    BY <1>1, <1>2 DEF GatherInv, Wakes, Calls
  <1>6. Left' = Left
    BY <1>1, <1>2 DEF Left
  <1>7. Counted' /\ Exact'
    BY <1>1, <1>6 DEF GatherInv, Counted, Exact
  <1>8. Earned'
    BY <1>1, <1>2 DEF GatherInv, Earned, Satisfied
  <1>9. WaitForKept' /\ NothingLeftRunning'
    BY <1>1, ReportKept DEF GatherInv, Reported
  <1> QED
    BY <1>3, <1>4, <1>5, <1>7, <1>8, <1>9 DEF GatherInv

LEMMA ReleaseWaiterKeeps ==
  ASSUME GatherInv, ReleaseWaiter
  PROVE  GatherInv'
  <1> DEFINE rest == Tail(ready)
  <1>1. /\ ready # <<>> /\ Head(ready) = Timeout
        /\ IF timer = "due" THEN timer' = "fired" /\ Release("done", rest)
           ELSE ready' = rest /\ UNCHANGED <<timer, waiter>>
        /\ UNCHANGED <<function, pc, awaited, waitFor, task, watched, stopping, counter, cancelled,
                       results>>
    BY DEF ReleaseWaiter
  <1>2. /\ rest \in Seq(Handles)
        /\ \A h : h # Timeout => (Has(rest, h) <=> Has(ready, h))
        /\ \A h : Once(ready, h) => Once(rest, h)
    BY <1>1, TailHas DEF GatherInv, Typed
  <1> HIDE DEF rest
  <1>3. /\ ready' \in Seq(Handles)
        /\ waiter' \in {waiter, "done"} /\ (waiter # "pending" => waiter' = waiter)
        /\ waiter' # waiter => timer' = "fired"
        /\ timer' \in {timer, "fired"}
        /\ \A k \in Keys : Has(ready', Callback(k)) <=> Has(ready, Callback(k))
        /\ \A k \in Keys : Once(ready', Callback(k))
        /\ Once(ready', Resume)
        /\ Has(ready', Resume) => pc = "waiting" /\ waiter' \in {"done", "cancelled"}
    <2>1. Has(rest, Resume) => Has(ready, Resume)
      BY <1>2, HandlesDiffer DEF GatherInv, Wakes
    <2>2. Once(rest, Resume)
      BY <1>2 DEF GatherInv, Wakes
    <2>3. \A k \in Keys : Once(rest, Callback(k)) /\ (Has(rest, Callback(k)) <=> Has(ready, Callback(k)))
      BY <1>2, HandlesDiffer DEF GatherInv, Calls
    <2>4. CASE timer = "due"
      BY <1>1, <1>2, <2>1, <2>2, <2>3, <2>4, ReleaseChanges DEF GatherInv
    <2>5. CASE timer # "due"
      BY <1>1, <1>2, <2>1, <2>2, <2>3, <2>5, HandlesDiffer DEF GatherInv, Wakes
    <2> QED
      BY <2>4, <2>5
  <1>4. Typed'
    BY <1>1, <1>3 DEF GatherInv, Typed
  <1>5. Stages'
    BY <1>1, <1>3 DEF GatherInv, Stages, Typed
  <1>6. Wakes' /\ Calls'
    BY <1>1, <1>3 DEF GatherInv, Wakes, Calls
  <1>7. Left' = Left
    BY <1>1, <1>3 DEF Left
  <1>8. Counted' /\ Exact'
    BY <1>1, <1>7 DEF GatherInv, Counted, Exact
  <1>9. Earned'
    BY <1>1, <1>3 DEF GatherInv, Earned, Satisfied
  <1>10. WaitForKept' /\ NothingLeftRunning'
    BY <1>1, <1>3, ReportKept DEF GatherInv, Reported
  <1> QED
    BY <1>4, <1>5, <1>6, <1>8, <1>9, <1>10 DEF GatherInv

LEMMA CompletionCallbackKeeps ==
  ASSUME GatherInv, NEW k \in Keys, CompletionCallback(k)
  PROVE  GatherInv'
  <1> DEFINE rest == Tail(ready)
             enough == Enough(k, counter - 1)
  <1>1. /\ ready # <<>> /\ Head(ready) = Callback(k) /\ counter' = counter - 1
        /\ IF enough THEN TimerOff /\ Release("done", rest)
           ELSE ready' = rest /\ UNCHANGED <<timer, waiter>>
        /\ UNCHANGED <<function, pc, awaited, waitFor, task, watched, stopping, cancelled, results>>
    BY DEF CompletionCallback
  <1>2. /\ rest \in Seq(Handles) /\ Has(ready, Callback(k))
        /\ \A h : h # Callback(k) => (Has(rest, h) <=> Has(ready, h))
        /\ \A h : Once(ready, h) => Once(rest, h)
        /\ ~Has(rest, Callback(k))
    BY <1>1, TailHas DEF GatherInv, Typed, Calls
  <1>3. k \in awaited /\ task[k] \in Outcomes /\ task[k] # "pending"
    BY <1>2 DEF GatherInv, Calls, Outcomes
  <1> HIDE DEF rest
  <1>4. /\ Has(rest, Resume) => Has(ready, Resume)
        /\ Once(rest, Resume)
        /\ \A j \in Keys : Once(rest, Callback(j))
        /\ \A j \in Keys : Has(rest, Callback(j)) <=> Has(ready, Callback(j)) /\ j # k
    BY <1>2, HandlesDiffer DEF GatherInv, Wakes, Calls
  <1>5. /\ ready' \in Seq(Handles)
        /\ waiter' = IF enough /\ waiter = "pending" THEN "done" ELSE waiter
        /\ timer' \in {"off", "armed", "due", "fired"} /\ (timer' = "fired" <=> timer = "fired")
        /\ \A j \in Keys : Has(ready', Callback(j)) <=> Has(ready, Callback(j)) /\ j # k
        /\ \A j \in Keys : Once(ready', Callback(j))
        /\ Once(ready', Resume)
        /\ Has(ready', Resume) => pc = "waiting" /\ waiter' \in {"done", "cancelled"}
    <2>1. CASE enough
      <3>1. timer' \in {"off", "armed", "due", "fired"} /\ (timer' = "fired" <=> timer = "fired")
        BY <1>1, <2>1 DEF TimerOff, GatherInv, Typed
      <3> QED
        BY <1>1, <1>2, <1>4, <2>1, <3>1, ReleaseChanges DEF GatherInv
    <2>2. CASE ~enough
      BY <1>1, <1>2, <1>4, <2>2 DEF GatherInv, Wakes, Typed
    <2> QED
      BY <2>1, <2>2
  <1>6. pc # "idle" /\ (waiter = "pending" => pc = "waiting" /\ watched = awaited)
    BY <1>1 DEF GatherInv, Stages, Typed
  <1>7. Typed'
    BY <1>1, <1>5 DEF GatherInv, Typed
  <1>8. Stages'
    BY <1>1, <1>5, <1>6 DEF GatherInv, Stages, Typed
  <1>9. Wakes' /\ Calls'
    BY <1>1, <1>5 DEF GatherInv, Wakes, Calls
  <1>10. k \in Left /\ Left' = Left \ {k}
    BY <1>1, <1>2, <1>3, <1>5 DEF Left
  <1>11. Cardinality(Left') = Cardinality(Left) - 1
    BY <1>10, LeftIsFinite, FS_RemoveElement
  <1>12. Counted' /\ Exact'
    BY <1>1, <1>11, LeftIsFinite DEF GatherInv, Counted, Exact, Typed
  <1>13. Earned'
    <2>1. CASE enough /\ waiter = "pending"
      <3>1. CASE counter - 1 <= 0
        <4>1. counter = Cardinality(Left)
          BY <1>6, <2>1 DEF GatherInv, Exact
        <4>2. IsFiniteSet(Left') /\ Cardinality(Left') \in Nat
          BY <1>10, LeftIsFinite, FS_RemoveElement, FS_CardinalityType
        <4>3. Left' = {}
          BY <1>11, <3>1, <4>1, <4>2, LeftIsFinite, FS_EmptySet
        <4>4. \A j \in awaited : task[j] # "pending"
          BY <1>1, <1>6, <2>1, <4>3 DEF Left, GatherInv, Typed
        <4> QED
          BY <1>1, <4>4 DEF Earned, Satisfied
      <3>2. CASE waitFor = "ANY_DONE" \/ (waitFor = "ANY_FAIL" /\ task[k] = "failed")
        BY <1>1, <1>3, <3>2 DEF Earned, Satisfied
      <3> QED
        BY <2>1, <3>1, <3>2 DEF Enough
    <2>2. CASE ~(enough /\ waiter = "pending")
      BY <1>1, <1>5, <2>2 DEF GatherInv, Earned, Satisfied
    <2> QED
      BY <2>1, <2>2
  <1>14. WaitForKept' /\ NothingLeftRunning'
    BY <1>1, <1>5, ReportKept DEF GatherInv, Reported
  <1> QED
    BY <1>7, <1>8, <1>9, <1>12, <1>13, <1>14 DEF GatherInv

\* The caller leaves: what is scheduled may still run, and counts for nothing.
LEMMA LeavingKeeps ==
  ASSUME GatherInv, ready # <<>>, Head(ready) = Resume, ready' = Tail(ready), TimerOff,
         pc' \in {"returned", "raised"}, watched' = {},
         UNCHANGED <<function, awaited, waitFor, task, counter, waiter, cancelled>>
  PROVE  /\ Typed' /\ Stages' /\ Wakes' /\ Calls' /\ Counted' /\ Exact' /\ Earned'
         /\ waiter \in {"done", "cancelled"} /\ (timer' = "fired" <=> timer = "fired")
  <1>1. /\ ready' \in Seq(Handles) /\ Has(ready, Resume)
        /\ \A h : h # Resume => (Has(ready', h) <=> Has(ready, h))
        /\ \A h : Once(ready, h) => Once(ready', h)
        /\ ~Has(ready', Resume)
    BY TailHas DEF GatherInv, Typed, Wakes
  <1>2. waiter \in {"done", "cancelled"} /\ pc = "waiting"
    BY <1>1 DEF GatherInv, Wakes
  <1>3. timer' \in {"off", "armed", "due", "fired"} /\ (timer' = "fired" <=> timer = "fired")
    BY DEF TimerOff, GatherInv, Typed
  <1>4. Typed'
    BY <1>1, <1>3 DEF GatherInv, Typed
  <1>5. Stages'
    BY <1>2 DEF GatherInv, Stages
  <1>6. Wakes' /\ Calls'
    BY <1>1, HandlesDiffer DEF GatherInv, Wakes, Calls
  <1>7. Left' \subseteq Left
    BY <1>1, HandlesDiffer DEF Left
  <1>8. Cardinality(Left') <= Cardinality(Left) /\ Cardinality(Left') \in Nat
    BY <1>7, LeftIsFinite, FS_Subset, FS_CardinalityType
  <1>9. Counted' /\ Exact'
    BY <1>8, LeftIsFinite DEF GatherInv, Counted, Exact, Typed
  <1>10. Earned'
    BY <1>3 DEF GatherInv, Earned, Satisfied
  <1> QED
    BY <1>2, <1>3, <1>4, <1>5, <1>6, <1>9, <1>10

LEMMA FinalizeKeeps ==
  ASSUME GatherInv, Finalize
  PROVE  GatherInv'
  <1>1. /\ Typed' /\ Stages' /\ Wakes' /\ Calls' /\ Counted' /\ Exact' /\ Earned'
        /\ waiter \in {"done", "cancelled"} /\ (timer' = "fired" <=> timer = "fired")
    BY LeavingKeeps DEF Finalize
  <1>2. /\ results' = [k \in awaited |-> task[k]]
        /\ stopping' = {k \in awaited : task[k] = "pending"}
        /\ UNCHANGED <<awaited, waitFor, task, waiter, cancelled>>
    BY DEF Finalize
  <1>3. WaitForKept'
    <2> SUFFICES ASSUME ~cancelled, timer # "fired"
                 PROVE  WaitForKept'
      BY <1>1, <1>2 DEF WaitForKept
    <2>1. waiter = "done"
      BY <1>1 DEF GatherInv, Stages
    <2>2. Satisfied(task)
      BY <2>1 DEF GatherInv, Earned
    <2> QED
      BY <1>2, <2>2 DEF WaitForKept, Satisfied
  <1>4. NothingLeftRunning'
    BY <1>2 DEF NothingLeftRunning
  <1> QED
    BY <1>1, <1>3, <1>4 DEF GatherInv

LEMMA WaitCancelledKeeps ==
  ASSUME GatherInv, WaitCancelled
  PROVE  GatherInv'
  <1>1. /\ Typed' /\ Stages' /\ Wakes' /\ Calls' /\ Counted' /\ Exact' /\ Earned'
    BY LeavingKeeps DEF WaitCancelled
  <1>2. WaitForKept' /\ NothingLeftRunning'
    BY DEF WaitCancelled, WaitForKept, NothingLeftRunning
  <1> QED
    BY <1>1, <1>2 DEF GatherInv

LEMMA GatherKeeps ==
  ASSUME GatherInv, NEW f \in {"gather_awaitables", "gather_coroutines"},
         NEW keys \in SUBSET Keys, NEW done \in SUBSET Keys, NEW condition \in Conditions,
         NEW timed \in BOOLEAN, Gather(f, keys, done, condition, timed)
  PROVE  GatherInv'
  <1>1. /\ pc = "idle" /\ done \subseteq keys
        /\ function' = f /\ pc' = "waiting" /\ awaited' = keys /\ waitFor' = condition
        /\ task' = [k \in Keys |-> IF k \in done THEN "ok" ELSE IF k \in keys THEN "pending" ELSE "none"]
        /\ watched' = keys /\ counter' = Cardinality(keys) /\ waiter' = "pending"
        /\ timer' = (IF timed THEN "armed" ELSE "off")
        /\ ready' = [n \in 1..Cardinality(done) |-> Callback(SetToSeq(done)[n])]
        /\ UNCHANGED <<stopping, cancelled, results>>
    BY DEF Gather
  <1>2. IsFiniteSet(keys) /\ IsFiniteSet(done) /\ Cardinality(keys) \in Nat
    BY GatherAssumption, FS_Subset, FS_CardinalityType
  <1> DEFINE s == SetToSeq(done)
             total == Cardinality(done)
  <1>3. /\ total \in Nat
        /\ \A n \in 1..total : s[n] \in done
        /\ \A m, n \in 1..total : s[m] = s[n] => m = n
        /\ \A x \in done : \E n \in 1..total : s[n] = x
    BY <1>2, SetToSeqIsBijection
  <1> HIDE DEF s, total
  <1>4. /\ ready' \in Seq(Handles) /\ Len(ready') = total
        /\ \A n \in 1..total : ready'[n] = Callback(s[n])
    <2>1. \A n \in 1..total : Callback(s[n]) \in Handles
      BY <1>3 DEF Handles
    <2>2. ready' = [n \in 1..total |-> Callback(s[n])]
      BY <1>1 DEF s, total
    <2> HIDE DEF Handles
    <2>3. ready' \in [1..total -> Handles]
      BY <2>1, <2>2
    <2>4. ready' \in Seq(Handles)
      BY <1>3, <2>3
    <2> QED
      BY <1>3, <2>2, <2>3, <2>4
  <1>5. ~Has(ready', Resume) /\ Once(ready', Resume)
    BY <1>4, HandlesDiffer DEF Has, Once
  <1>6. \A k \in Keys : Has(ready', Callback(k)) <=> k \in done
    BY <1>3, <1>4, HandlesDiffer DEF Has
  <1>7. \A k \in Keys : Once(ready', Callback(k))
    BY <1>3, <1>4, HandlesDiffer DEF Once
  <1>8. /\ \A k \in done : task'[k] = "ok"
        /\ \A k \in keys \ done : task'[k] = "pending"
        /\ task' \in [Keys -> Outcomes \cup {"none", "pending"}]
    BY <1>1 DEF Outcomes
  <1>9. Typed'
    BY <1>1, <1>2, <1>4, <1>8 DEF GatherInv, Typed
  <1>10. Stages' /\ Earned'
    BY <1>1 DEF GatherInv, Stages, Earned
  <1>11. Wakes' /\ Calls'
    BY <1>1, <1>5, <1>6, <1>7, <1>8 DEF Wakes, Calls, Outcomes
  <1>12. Left' = keys
    BY <1>1, <1>6, <1>8 DEF Left
  <1>13. Counted' /\ Exact'
    BY <1>1, <1>2, <1>12 DEF Counted, Exact
  <1>14. WaitForKept' /\ NothingLeftRunning'
    BY <1>1 DEF WaitForKept, NothingLeftRunning
  <1> QED
    BY <1>9, <1>10, <1>11, <1>13, <1>14 DEF GatherInv

-----------------------------------------------------------------------------
(* Behaviours of the dispatcher and of those who call without it            *)

\* The ids that process_rpc awaits are keys.
AwaitsIds == DOMAIN awaitables \subseteq Keys

\* Every step of the loop's user and of process_rpc is one of the call, or none.
StepOfCall ==
  \/ UNCHANGED gatherVars
  \/ \E f \in {"gather_awaitables", "gather_coroutines"}, keys, done \in SUBSET Keys,
        condition \in Conditions, timed \in BOOLEAN : Gather(f, keys, done, condition, timed)
  \/ \E k \in Keys, outcome \in Outcomes : TaskEnds(k, outcome)
  \/ TimeIsUp \/ CancelCaller \/ RunHandle

LEMMA StepKeeps ==
  ASSUME GatherInv, StepOfCall
  PROVE  GatherInv'
  <1>1. CASE UNCHANGED gatherVars
    BY <1>1 DEF gatherVars, GatherInv, Typed, Stages, Wakes, Calls, Counted, Exact, Left, Earned,
                Satisfied, WaitForKept, NothingLeftRunning
  <1>2. CASE RunHandle
    BY <1>2, CompletionCallbackKeeps, ReleaseWaiterKeeps, FinalizeKeeps, WaitCancelledKeeps DEF RunHandle
  <1> QED
    BY <1>1, <1>2, GatherKeeps, TaskEndsKeeps, TimeIsUpKeeps, CancelCallerKeeps DEF StepOfCall

LEMMA NextIsStepOfCall ==
  ASSUME AwaitsIds, [Next]_vars
  PROVE  StepOfCall
  <1>1. CASE UNCHANGED gatherVars
    BY <1>1 DEF StepOfCall
  <1>2. CASE EndOfBatch
    <2>1. \/ UNCHANGED gatherVars
          \/ Gather("gather_awaitables", DOMAIN awaitables, {}, "ALL_DONE", FALSE)
      BY <1>2 DEF EndOfBatch
    <2>2. DOMAIN awaitables \in SUBSET Keys /\ {} \in SUBSET Keys /\ "ALL_DONE" \in Conditions
      BY DEF AwaitsIds, Conditions
    <2> QED
      BY <2>1, <2>2 DEF StepOfCall
  <1>3. CASE MethodEnds
    BY <1>3 DEF MethodEnds, StepOfCall, Outcomes
  <1>4. CASE CallerCancelled \/ LoopRuns
    BY <1>4 DEF CallerCancelled, LoopRuns, StepOfCall
  <1>5. CASE AwaitDirectly
    <2>1. GatherNext
      BY <1>5 DEF AwaitDirectly
    <2>2. Policies \subseteq Conditions /\ {} \in SUBSET Keys
      BY GatherAssumption
    <2> QED
      BY <2>1, <2>2 DEF GatherNext, GatherStep, StepOfCall
  <1> QED
    BY <1>1, <1>2, <1>3, <1>4, <1>5
       DEF Next, vars, Empty, Single, SingleHandled, SingleRaises, Batch, Proceed, Read, ReadInvalid,
           ReadUnknown, ReadNotification, ReadCall, Respond, RespondRaises

LEMMA AwaitsIdsStays == AwaitsIds /\ [Next]_vars => AwaitsIds'
  <1> SUFFICES ASSUME AwaitsIds, [Next]_vars PROVE AwaitsIds'
    OBVIOUS
  <1>1. CASE UNCHANGED awaitables
    BY <1>1 DEF AwaitsIds
  <1>2. CASE ReadCall
    <2>1. Item.id \in Keys /\ DOMAIN awaitables' = DOMAIN awaitables \cup {Item.id}
      BY <1>2, DispatcherAssumption DEF ReadCall
    <2> QED
      BY <2>1 DEF AwaitsIds
  <1> QED
    BY <1>1, <1>2
       DEF Next, vars, rpcVars, Empty, Single, SingleHandled, SingleRaises, Batch, Proceed, Read,
           ReadInvalid, ReadUnknown, ReadNotification, EndOfBatch, Respond, RespondRaises, Raise,
           MethodEnds, CallerCancelled, LoopRuns, AwaitDirectly

LEMMA GatherBegins == Init => GatherInv /\ AwaitsIds
  <1> SUFFICES ASSUME Init PROVE GatherInv /\ AwaitsIds
    OBVIOUS
  <1>1. /\ pc = "idle" /\ ready = <<>> /\ watched = {} /\ waiter = "none" /\ timer = "off"
        /\ counter = 0 /\ cancelled = FALSE /\ awaited = {} /\ waitFor = "ALL_DONE"
        /\ task = [k \in Keys |-> "none"] /\ function = "gather_awaitables" /\ awaitables = <<>>
    BY DEF Init, GatherInit
  <1>2. Len(ready) = 0 /\ ready \in Seq(Handles) /\ \A h : ~Has(ready, h) /\ Once(ready, h)
    BY <1>1 DEF Has, Once
  <1>3. Typed
    <2>1. awaited \in SUBSET Keys /\ watched \in SUBSET awaited /\ waitFor \in Conditions
      BY <1>1 DEF Conditions
    <2>2. task \in [Keys -> Outcomes \cup {"none", "pending"}]
      BY <1>1
    <2>3. /\ function \in {"gather_awaitables", "gather_coroutines"}
          /\ pc \in {"idle", "waiting", "returned", "raised"} /\ counter \in Int
          /\ waiter \in {"none", "pending", "done", "cancelled"}
          /\ timer \in {"off", "armed", "due", "fired"}
      BY <1>1
    <2>4. cancelled \in BOOLEAN
      BY <1>1
    <2> QED
      BY <1>2, <2>1, <2>2, <2>3, <2>4 DEF Typed
  <1>4. Stages /\ Wakes /\ Calls /\ Exact /\ Earned
    BY <1>1, <1>2 DEF Stages, Wakes, Calls, Exact, Earned
  <1>5. Left = {}
    BY <1>1, <1>2 DEF Left
  <1>6. Counted
    BY <1>1, <1>5, FS_EmptySet DEF Counted
  <1>7. WaitForKept /\ NothingLeftRunning
    BY <1>1 DEF WaitForKept, NothingLeftRunning
  <1>8. AwaitsIds
    BY <1>1 DEF AwaitsIds
  <1> QED
    BY <1>3, <1>4, <1>6, <1>7, <1>8 DEF GatherInv

LEMMA GatherInvHolds == Spec => [](GatherInv /\ AwaitsIds)
  <1>1. GatherInv /\ AwaitsIds /\ [Next]_vars => (GatherInv /\ AwaitsIds)'
    BY NextIsStepOfCall, StepKeeps, AwaitsIdsStays
  <1> QED
    BY <1>1, GatherBegins, PTL DEF Spec

\* The caller of gather_awaitables or gather_coroutines is woken once (basefuncs.py:
\* completion_cb, _release_waiter, the cancellation), for any tasks, condition and timeout.
THEOREM CallerWokenOnce == Spec => []WokenOnce
  <1>1. GatherInv => WokenOnce
    <2> SUFFICES ASSUME GatherInv PROVE WokenOnce
      OBVIOUS
    <2> DEFINE resumes == {n \in 1..Len(ready) : ready[n] = Resume}
    <2>1. Scheduled(Resume) => pc = "waiting" /\ waiter # "pending"
      BY DEF GatherInv, Wakes, Has, Scheduled
    <2>2. CASE resumes = {}
      <3>1. Cardinality(resumes) = 0
        BY <2>2, FS_EmptySet
      <3> QED
        BY <2>1, <3>1 DEF WokenOnce
    <2>3. CASE resumes # {}
      <3>1. PICK n \in resumes : TRUE
        BY <2>3
      <3>2. resumes = {n}
        BY <3>1 DEF GatherInv, Wakes, Once
      <3>3. Cardinality(resumes) = 1
        BY <3>2, FS_Singleton
      <3> QED
        BY <2>1, <3>3 DEF WokenOnce
    <2> QED
      BY <2>2, <2>3
  <1> QED
    BY <1>1, GatherInvHolds, PTL

\* A call that returns of its own accord reports what it waited for: the counter of
\* completion_cb is exact, whatever ends while callbacks are still to run.
THEOREM CallerGetsWhatItWaitsFor == Spec => []WaitForKept
  <1>1. GatherInv => WaitForKept
    BY DEF GatherInv
  <1> QED
    BY <1>1, GatherInvHolds, PTL

\* A call that returns has ended its tasks or told them to stop (_finalize_awaitables),
\* and reports as pending just those it told.
THEOREM CallerLeavesNothingRunning == Spec => []NothingLeftRunning
  <1>1. GatherInv => NothingLeftRunning
    BY DEF GatherInv
  <1> QED
    BY <1>1, GatherInvHolds, PTL

-----------------------------------------------------------------------------
(* The dispatcher: its invariant                                            *)

\* What else holds of a call of gather_awaitables or gather_coroutines.
CallTyped ==
  /\ pc \in {"idle", "waiting"} => stopping = {}
  /\ stopping \in SUBSET awaited
  /\ counter <= Cardinality(Keys)
  /\ pc = "idle" => awaited = {}
  /\ \A k \in awaited : task[k] # "none"
  /\ pc = "returned" => results \in [awaited -> Outcomes \cup {"pending"}]

\* process_rpc waits for everything, without a timeout.
AsDispatched ==
  phase # "direct" =>
    function = "gather_awaitables" /\ waitFor = "ALL_DONE" /\ timer = "off"

RpcTyped ==
  /\ phase \in {"idle", "direct", "handling", "reading", "gathering", "answered", "raised", "asserted"}
  /\ payload \in Payloads /\ cursor \in 1..(Len(payload) + 1)
  /\ spare \in [1..MaxBatch -> {"none", "pending", "ended"}]
  /\ DOMAIN awaitables \in SUBSET Ids
  /\ answers \in Seq([id : Keys \cup {Null, NoId}, report : Reports])

\* Where process_rpc is, and what there is by then.
Phases ==
  /\ phase \in {"idle", "handling", "reading"} => pc = "idle"
  /\ phase \in {"idle", "direct"} =>
       payload = <<>> /\ cursor = 1 /\ awaitables = <<>> /\ order = <<>> /\ answers = <<>>
  /\ phase = "handling" =>
       /\ answers = <<>> /\ Len(payload) = 1 /\ payload[1] \in Requests
  /\ phase = "gathering" =>
       /\ pc \in {"waiting", "returned"} /\ awaited = DOMAIN awaitables
       /\ cursor = Len(payload) + 1

\* The awaitables are the last call of each id read so far; the order has each once.
Awaits ==
  /\ \A k \in DOMAIN awaitables :
       awaitables[k] \in 1..(cursor - 1) /\ payload[awaitables[k]] = [kind |-> "call", id |-> k]
  /\ order \in Seq(DOMAIN awaitables)
  /\ \A m, n \in 1..Len(order) : order[m] = order[n] => m = n
  /\ \A k \in DOMAIN awaitables : \E n \in 1..Len(order) : order[n] = k
  /\ IsFiniteSet(DOMAIN awaitables) /\ Len(order) = Cardinality(DOMAIN awaitables)

Unknown(k) == [kind |-> "unknown", id |-> k]

\* An item that has been read has its answer or its task.
Served ==
  \A n \in 1..(cursor - 1) :
    /\ payload[n] # Alien
    /\ payload[n].kind = "call" /\ payload[n].id # NoId => payload[n].id \in DOMAIN awaitables
    /\ payload[n].kind = "unknown" =>
         payload[n].id # NoId /\ \E m \in 1..Len(answers) : answers[m].id = payload[n].id

\* Every answer of the batch so far is that of an unknown method or of a bad item.
Caused ==
  /\ \A m \in 1..Len(answers) :
       /\ answers[m].id \in Ids \cup {Null} /\ answers[m].report # "pending"
       /\ answers[m].id # Null => \E n \in 1..(cursor - 1) : payload[n] = Unknown(answers[m].id)
  /\ \A m, n \in 1..Len(answers) : m # n /\ answers[m].id = answers[n].id /\ answers[m].id # Null =>
       \E i, j \in 1..(cursor - 1) :
         i # j /\ payload[i] = Unknown(answers[m].id) /\ payload[j] = Unknown(answers[m].id)

BadRead == {n \in 1..(cursor - 1) : payload[n] = Invalid}

\* What the batch has been answered so far.
Batched ==
  phase \in {"reading", "gathering"} =>
    Served /\ Caused /\ Cardinality(AnswersTo(Null)) = Cardinality(BadRead)

\* Every request with an id has an answer, every answer has its request, and two answers
\* have two.
Traced ==
  /\ \A n \in 1..Len(payload) : payload[n] \in Requests /\ payload[n].id \in Keys =>
       \E m \in 1..Len(answers) : answers[m].id = payload[n].id
  /\ \A m \in 1..Len(answers) : answers[m].id \in Keys =>
       \E n \in 1..Len(payload) : payload[n] \in Requests /\ payload[n].id = answers[m].id
  /\ \A l, m \in 1..Len(answers) : l # m /\ answers[l].id = answers[m].id /\ answers[l].id \in Keys =>
       \E i, j \in 1..Len(payload) :
         /\ i # j /\ payload[i] \in Requests /\ payload[i].id = answers[l].id
         /\ payload[j] \in Requests /\ payload[j].id = answers[l].id

RpcInv ==
  /\ RpcTyped /\ Phases /\ Awaits /\ Batched
  /\ phase = "answered" => Traced
  /\ NotificationsSilent /\ WaitsForEveryCall

DispatcherInv == GatherInv /\ CallTyped /\ AsDispatched /\ RpcInv

-----------------------------------------------------------------------------
(* The dispatcher: the call of gather_awaitables                            *)

LEMMA ReportedKeeps ==
  ASSUME GatherInv, CallTyped, StepOfCall
  PROVE  CallTyped'
  <1>1. CASE UNCHANGED gatherVars
    BY <1>1 DEF gatherVars, CallTyped
  <1>2. ASSUME NEW f \in {"gather_awaitables", "gather_coroutines"},
               NEW keys \in SUBSET Keys, NEW done \in SUBSET Keys, NEW condition \in Conditions,
               NEW timed \in BOOLEAN, Gather(f, keys, done, condition, timed)
        PROVE  CallTyped'
    <2>1. Cardinality(keys) <= Cardinality(Keys)
      BY GatherAssumption, FS_Subset
    <2>2. \A k \in keys : task'[k] # "none"
      BY <1>2 DEF Gather
    <2> QED
      BY <1>2, <2>1, <2>2 DEF Gather, CallTyped
  <1>3. ASSUME NEW k \in Keys, NEW outcome \in Outcomes, TaskEnds(k, outcome)
        PROVE  CallTyped'
    BY <1>3 DEF TaskEnds, CallTyped, GatherInv, Typed, Outcomes
  <1>4. CASE TimeIsUp \/ CancelCaller \/ ReleaseWaiter
    BY <1>4 DEF TimeIsUp, CancelCaller, ReleaseWaiter, CallTyped
  <1>5. ASSUME NEW k \in Keys, CompletionCallback(k)
        PROVE  CallTyped'
    <2>1. counter' <= Cardinality(Keys)
      BY <1>5, GatherAssumption, FS_CardinalityType
      DEF CompletionCallback, CallTyped, GatherInv, Typed
    <2> QED
      BY <1>5, <2>1 DEF CompletionCallback, CallTyped
  <1>6. CASE Finalize
    <2>1. results' \in [awaited -> Outcomes \cup {"pending"}]
      BY <1>6 DEF Finalize, CallTyped, GatherInv, Typed
    <2> QED
      BY <1>6, <2>1 DEF Finalize, CallTyped
  <1>7. CASE WaitCancelled
    BY <1>7 DEF WaitCancelled, CallTyped
  <1> QED
    BY <1>1, <1>2, <1>3, <1>4, <1>5, <1>6, <1>7 DEF StepOfCall, RunHandle

\* What the loop does with a call that process_rpc made.
LEMMA LoopKeepsDispatched ==
  ASSUME GatherInv, AsDispatched, phase # "direct", UNCHANGED phase, RunHandle
  PROVE  /\ AsDispatched' /\ pc' \in {pc, "returned"} /\ awaited' = awaited
         /\ UNCHANGED cancelled
  <1>1. CASE Finalize
    BY <1>1 DEF Finalize, AsDispatched, TimerOff, GatherInv, Typed
  <1>2. CASE ~Finalize
    BY <1>2 DEF RunHandle, CompletionCallback, ReleaseWaiter, WaitCancelled, AsDispatched, TimerOff
  <1> QED
    BY <1>1, <1>2

LEMMA DispatchedKeeps ==
  ASSUME GatherInv, AsDispatched, DOMAIN awaitables \in SUBSET Keys, [Next]_vars
  PROVE  AsDispatched'
  <1>1. CASE UNCHANGED gatherVars /\ (phase' # "direct" => phase # "direct")
    BY <1>1 DEF gatherVars, AsDispatched
  <1>2. CASE EndOfBatch /\ Gather("gather_awaitables", DOMAIN awaitables, {}, "ALL_DONE", FALSE)
    BY <1>2 DEF Gather, AsDispatched
  <1>3. CASE MethodEnds /\ ~UNCHANGED gatherVars
    <2>1. PICK k \in Keys, outcome \in Outcomes : TaskEnds(k, outcome)
      BY <1>3 DEF MethodEnds
    <2>2. UNCHANGED phase
      BY <1>3 DEF MethodEnds
    <2> QED
      BY <2>1, <2>2 DEF TaskEnds, AsDispatched, GatherInv, Typed
  <1>4. CASE CallerCancelled
    BY <1>4 DEF CallerCancelled, CancelCaller, rpcVars, AsDispatched
  <1>5. CASE LoopRuns
    BY <1>5, LoopKeepsDispatched DEF LoopRuns, rpcVars
  <1>6. CASE AwaitDirectly
    BY <1>6 DEF AwaitDirectly, rpcVars, AsDispatched
  <1> QED
    BY <1>1, <1>2, <1>3, <1>4, <1>5, <1>6
       DEF Next, vars, rpcVars, Empty, Single, SingleHandled, SingleRaises, Batch, Proceed, Read,
           ReadInvalid, ReadUnknown, ReadNotification, ReadCall, EndOfBatch, Respond, RespondRaises,
           Raise, NextItem, MethodEnds, Reading
-----------------------------------------------------------------------------
(* The dispatcher: items and answers                                        *)

Items == Requests \cup {Invalid, Alien}
Entries == [id : Keys \cup {Null, NoId}, report : Reports]

LEMMA ItemsAre ==
  /\ \A it \in Requests : /\ it.kind \in {"call", "unknown"} /\ it.id \in Ids \cup {NoId}
                          /\ it = [kind |-> it.kind, id |-> it.id]
  /\ \A it \in Items : it \in Requests \/ it = Invalid \/ it = Alien
  /\ \A it \in Items : it.kind \in {"call", "unknown"} => it \in Requests
  /\ Invalid.kind = "invalid" /\ Alien.kind = "alien" /\ Invalid.id = Null
  /\ Invalid \notin Requests /\ Alien \notin Requests /\ Invalid # Alien
  /\ \A k \in Ids : Unknown(k) \in Requests /\ Unknown(k).id = k /\ Unknown(k).kind = "unknown"
  /\ Ids \subseteq Keys /\ NoId \notin Ids /\ Null \notin Ids /\ NoId # Null
  BY DispatcherAssumption DEF Items, Requests, Invalid, Alien, Unknown

LEMMA PayloadsAre ==
  /\ \A p \in Payloads : p \in Seq(Items) /\ Len(p) \in 0..MaxBatch /\ \A n \in 1..Len(p) : p[n] \in Items
  /\ <<>> \in Payloads
  /\ \A it \in Items : <<it>> \in Payloads
  <1> MaxBatch \in Nat \ {0}
    BY DispatcherAssumption
  <1>1. ASSUME NEW p \in Payloads
        PROVE  p \in Seq(Items) /\ Len(p) \in 0..MaxBatch /\ \A n \in 1..Len(p) : p[n] \in Items
    <2>1. PICK n \in 0..MaxBatch : p \in [1..n -> Items]
      BY <1>1 DEF Payloads, Items
    <2>2. p \in Seq(Items) /\ Len(p) = n
      BY <2>1
    <2> QED
      BY <2>1, <2>2
  <1>2. <<>> \in Payloads
    <2>1. <<>> \in [1..0 -> Items] /\ 0 \in 0..MaxBatch
      OBVIOUS
    <2> QED
      BY <2>1 DEF Payloads, Items
  <1>3. ASSUME NEW it \in Items
        PROVE  <<it>> \in Payloads
    <2>1. <<it>> \in [1..1 -> Items] /\ 1 \in 0..MaxBatch
      OBVIOUS
    <2> QED
      BY <2>1 DEF Payloads, Items
  <1> QED
    BY <1>1, <1>2, <1>3

LEMMA ConcatFacts ==
  ASSUME NEW S, NEW s \in Seq(S), NEW new \in Seq(S)
  PROVE  /\ s \o new \in Seq(S) /\ Len(s \o new) = Len(s) + Len(new)
         /\ Len(s) \in Nat /\ Len(new) \in Nat
         /\ \A n \in 1..Len(s) : (s \o new)[n] = s[n]
         /\ \A n \in 1..Len(new) : (s \o new)[Len(s) + n] = new[n]
  BY ConcatProperties, LenProperties

\* What it means that the answers have grown by one.
LEMMA OneMore ==
  ASSUME answers \in Seq(Entries), NEW e \in Entries,
         answers' = Append(answers, e) \/ answers' = answers \o <<e>>
  PROVE  /\ answers' \in Seq(Entries) /\ Len(answers') = Len(answers) + 1 /\ Len(answers) \in Nat
         /\ answers'[Len(answers) + 1] = e
         /\ \A n \in 1..Len(answers) : answers'[n] = answers[n]
  <1>1. CASE answers' = Append(answers, e)
    BY <1>1, AppendProperties, LenProperties
  <1>2. CASE answers' = answers \o <<e>>
    <2>1. <<e>> \in Seq(Entries) /\ Len(<<e>>) = 1 /\ <<e>>[1] = e
      OBVIOUS
    <2>2. Len(answers') = Len(answers) + 1 /\ Len(answers) \in Nat /\ answers' \in Seq(Entries)
      BY <1>2, <2>1, ConcatFacts
    <2>3. \A n \in 1..Len(answers) : answers'[n] = answers[n]
      BY <1>2, <2>1, ConcatFacts
    <2>4. answers'[Len(answers) + 1] = e
      <3>1. 1 \in 1..Len(<<e>>)
        BY <2>1
      <3>2. (answers \o <<e>>)[Len(answers) + 1] = <<e>>[1]
        BY <2>1, <3>1, ConcatFacts
      <3> QED
        BY <1>2, <2>1, <3>2
    <2> QED
      BY <2>2, <2>3, <2>4
  <1> QED
    BY <1>1, <1>2

\* The call's outcome counts in the answers of a batch, and what was asked does not change.
LEMMA GatherSideKeeps ==
  ASSUME RpcInv, UNCHANGED <<phase, payload, cursor, awaitables, order, answers>>,
         spare' \in [1..MaxBatch -> {"none", "pending", "ended"}],
         phase \in {"idle", "handling", "reading"} => UNCHANGED pc,
         phase = "gathering" => pc' \in {pc, "returned"} /\ UNCHANGED awaited,
         phase = "answered" => UNCHANGED <<awaited, stopping, cancelled>>,
         phase = "answered" => \A k \in awaited : task[k] \in Outcomes => task'[k] = task[k]
  PROVE  RpcInv'
  <1>1. RpcTyped' /\ Awaits'
    BY DEF RpcInv, RpcTyped, Awaits
  <1>2. Phases'
    BY DEF RpcInv, Phases
  <1>3. Batched'
    BY DEF RpcInv, Batched, Served, Caused, AnswersTo, BadRead
  <1>4. ASSUME phase' = "answered"
        PROVE  Traced'
    <2>1. Traced /\ payload' = payload /\ answers' = answers
      BY <1>4 DEF RpcInv
    <2>2. \A n \in 1..Len(payload') : payload'[n] \in Requests /\ payload'[n].id \in Keys =>
            \E m \in 1..Len(answers') : answers'[m].id = payload'[n].id
      BY <2>1 DEF Traced
    <2>3. \A m \in 1..Len(answers') : answers'[m].id \in Keys =>
            \E n \in 1..Len(payload') : payload'[n] \in Requests /\ payload'[n].id = answers'[m].id
      BY <2>1 DEF Traced
    <2>4. ASSUME NEW l \in 1..Len(answers'), NEW m \in 1..Len(answers'), l # m,
                 answers'[l].id = answers'[m].id, answers'[l].id \in Keys
          PROVE  \E i, j \in 1..Len(payload') :
                   /\ i # j /\ payload'[i] \in Requests /\ payload'[i].id = answers'[l].id
                   /\ payload'[j] \in Requests /\ payload'[j].id = answers'[l].id
      BY <2>1, <2>4 DEF Traced
    <2> QED
      BY <2>2, <2>3, <2>4 DEF Traced
  <1>5. NotificationsSilent'
    BY DEF RpcInv, NotificationsSilent, AnswersTo
  <1>6. WaitsForEveryCall'
    BY DEF RpcInv, WaitsForEveryCall
  <1> QED
    BY <1>1, <1>2, <1>3, <1>4, <1>5, <1>6 DEF RpcInv

-----------------------------------------------------------------------------
(* The dispatcher: one request                                              *)

\* What a request that comes alone is answered, and how an item that is none.
LEMMA SingleAnswered ==
  ASSUME NEW it \in Requests \cup {Invalid}, NEW report \in {"invalid", "unknown", "handled"},
         payload' = <<it>>, answers' = Prepared(it.id, report), phase' = "answered",
         awaited' = {}
  PROVE  Traced' /\ NotificationsSilent' /\ WaitsForEveryCall' /\ answers' \in Seq(Entries)
  <1>1. Len(payload') = 1 /\ payload'[1] = it
    OBVIOUS
  <1>2. /\ it.id \in Ids \cup {NoId, Null} /\ (it.id = Null <=> it = Invalid)
        /\ it.id \in Keys => it \in Requests
    BY ItemsAre, DispatcherAssumption
  <1>3. CASE it.id = NoId
    <2>1. answers' = <<>> /\ Len(answers') = 0 /\ it # Invalid
      BY <1>2, <1>3, ItemsAre DEF Prepared
    <2>2. Traced'
      BY <1>1, <1>3, <2>1, DispatcherAssumption DEF Traced
    <2>3. NotificationsSilent'
      BY <1>1, <2>1 DEF NotificationsSilent, AnswersTo
    <2>4. WaitsForEveryCall'
      BY <2>1 DEF WaitsForEveryCall
    <2> QED
      BY <2>1, <2>2, <2>3, <2>4
  <1>4. CASE it.id # NoId
    <2> DEFINE e == Answer(it.id, report)
    <2>1. answers' = <<e>> /\ e \in Entries /\ e.id = it.id /\ e.report = report
      BY <1>2, <1>4, DispatcherAssumption DEF Prepared, Answer, Entries, Reports
    <2> HIDE DEF e
    <2>2. Len(answers') = 1 /\ answers'[1] = e /\ answers' \in Seq(Entries)
      BY <2>1
    <2>3. Traced'
      BY <1>1, <1>2, <2>1, <2>2 DEF Traced
    <2>4. NotificationsSilent'
      <3>1. AnswersTo(NoId)' = {}
        BY <1>4, <2>1, <2>2 DEF AnswersTo
      <3>2. AnswersTo(Null)' = {n \in 1..Len(payload') : payload'[n] = Invalid}
        BY <1>1, <1>2, <2>1, <2>2 DEF AnswersTo
      <3> QED
        BY <3>1, <3>2 DEF NotificationsSilent
    <2>5. WaitsForEveryCall'
      BY <2>1, <2>2 DEF WaitsForEveryCall
    <2> QED
      BY <2>2, <2>3, <2>4, <2>5
  <1> QED
    BY <1>3, <1>4

LEMMA OnePayload ==
  ASSUME NEW it \in Requests \cup {Invalid}
  PROVE  <<it>> \in Payloads /\ Len(<<it>>) = 1 /\ <<it>>[1] = it
  BY PayloadsAre DEF Items

LEMMA EmptyKeeps ==
  ASSUME DispatcherInv, Empty
  PROVE  RpcInv'
  <1> DEFINE e == Answer(Null, "empty")
  <1>1. /\ phase = "idle" /\ phase' = "answered" /\ answers' = <<e>>
        /\ UNCHANGED <<payload, cursor, awaitables, order, spare>> /\ UNCHANGED gatherVars
        /\ payload = <<>> /\ awaited = {} /\ e \in Entries /\ e.id = Null /\ e.report = "empty"
    BY DEF Empty, DispatcherInv, RpcInv, Phases, CallTyped, Answer, Entries, Reports
  <1> HIDE DEF e
  <1>2. Len(answers') = 1 /\ answers'[1] = e /\ answers' \in Seq(Entries) /\ Len(payload) = 0
    BY <1>1
  <1>3. RpcTyped' /\ Phases' /\ Awaits' /\ Batched'
    BY <1>1, <1>2 DEF DispatcherInv, RpcInv, RpcTyped, Phases, Awaits, Batched, Entries
  <1>4. Traced'
    BY <1>1, <1>2, DispatcherAssumption DEF Traced
  <1>5. NotificationsSilent' /\ WaitsForEveryCall'
    BY <1>1, <1>2, DispatcherAssumption
    DEF NotificationsSilent, AnswersTo, WaitsForEveryCall, gatherVars
  <1> QED
    BY <1>3, <1>4, <1>5 DEF RpcInv

LEMMA SingleKeeps ==
  ASSUME DispatcherInv, NEW it \in Requests \cup {Invalid}, Single(it)
  PROVE  RpcInv'
  <1>1. /\ phase = "idle" /\ payload' = <<it>> /\ cursor = 1 /\ awaitables = <<>> /\ order = <<>>
        /\ answers = <<>> /\ pc = "idle" /\ awaited = {}
        /\ UNCHANGED <<cursor, awaitables, order, spare>> /\ UNCHANGED gatherVars
    BY DEF Single, DispatcherInv, RpcInv, Phases, CallTyped
  <1>2. UNCHANGED <<pc, awaited>>
    BY <1>1 DEF gatherVars
  <1>3. payload' \in Payloads /\ Len(payload') = 1 /\ payload'[1] = it
    BY <1>1, OnePayload
  <1>4. Awaits'
    <2>1. DOMAIN awaitables = {}
      BY <1>1
    <2> QED
      BY <1>1, <2>1 DEF DispatcherInv, RpcInv, Awaits
  <1>5. CASE it.kind = "call"
    <2>1. phase' = "handling" /\ answers' = answers /\ it \in Requests
      BY <1>5, ItemsAre DEF Single
    <2>2. RpcTyped' /\ Phases' /\ Batched'
      BY <1>1, <1>2, <1>3, <2>1 DEF DispatcherInv, RpcInv, RpcTyped, Phases, Batched
    <2> QED
      BY <1>4, <2>1, <2>2 DEF RpcInv, NotificationsSilent, WaitsForEveryCall
  <1>6. CASE it.kind # "call"
    <2>1. /\ phase' = "answered" /\ answers' = Prepared(it.id, it.kind)
          /\ it.kind \in {"invalid", "unknown"}
      BY <1>6, ItemsAre DEF Single
    <2>2. Traced' /\ NotificationsSilent' /\ WaitsForEveryCall' /\ answers' \in Seq(Entries)
      BY <1>1, <1>2, <2>1, SingleAnswered
    <2>3. RpcTyped' /\ Phases' /\ Batched'
      BY <1>1, <1>2, <1>3, <2>1, <2>2
      DEF DispatcherInv, RpcInv, RpcTyped, Phases, Batched, Entries
    <2> QED
      BY <1>4, <2>2, <2>3 DEF RpcInv
  <1> QED
    BY <1>5, <1>6

LEMMA SingleEnds ==
  ASSUME DispatcherInv, SingleHandled \/ SingleRaises
  PROVE  RpcInv'
  <1>1. /\ phase = "handling" /\ pc = "idle" /\ awaited = {} /\ Len(payload) = 1
        /\ payload[1] \in Requests /\ payload \in Payloads
        /\ UNCHANGED <<payload, cursor, awaitables, order, spare>> /\ UNCHANGED gatherVars
    BY DEF SingleHandled, SingleRaises, DispatcherInv, RpcInv, RpcTyped, Phases, CallTyped
  <1>2. UNCHANGED <<pc, awaited>>
    BY <1>1 DEF gatherVars
  <1>3. Awaits'
    BY <1>1 DEF DispatcherInv, RpcInv, Awaits
  <1>4. CASE SingleHandled
    <2>1. phase' = "answered" /\ answers' = Prepared(payload[1].id, "handled")
      BY <1>4 DEF SingleHandled
    <2>2. payload' = <<payload[1]>>
      BY <1>1, PayloadsAre
    <2>3. Traced' /\ NotificationsSilent' /\ WaitsForEveryCall' /\ answers' \in Seq(Entries)
      BY <1>1, <1>2, <2>1, <2>2, SingleAnswered
    <2>4. RpcTyped' /\ Phases' /\ Batched'
      BY <1>1, <1>2, <2>1, <2>3 DEF DispatcherInv, RpcInv, RpcTyped, Phases, Batched, Entries
    <2> QED
      BY <1>3, <2>3, <2>4 DEF RpcInv
  <1>5. CASE SingleRaises
    <2>1. phase' = "raised" /\ UNCHANGED answers
      BY <1>5 DEF SingleRaises
    <2> QED
      BY <1>1, <1>3, <2>1
      DEF DispatcherInv, RpcInv, RpcTyped, Phases, Batched, NotificationsSilent, WaitsForEveryCall
  <1> QED
    BY <1>4, <1>5

-----------------------------------------------------------------------------
(* The dispatcher: the items of a batch                                     *)

LEMMA BatchKeeps ==
  ASSUME DispatcherInv, NEW items \in Payloads, Batch(items)
  PROVE  RpcInv'
  <1>1. /\ phase = "idle" /\ phase' = "reading" /\ payload' = items /\ cursor = 1 /\ awaitables = <<>>
        /\ order = <<>> /\ answers = <<>> /\ pc = "idle"
        /\ UNCHANGED <<cursor, awaitables, order, spare, answers>> /\ UNCHANGED pc
    BY DEF Batch, DispatcherInv, RpcInv, Phases, gatherVars
  <1>2. Len(payload') \in Nat
    BY <1>1, PayloadsAre
  <1>3. DOMAIN awaitables = {} /\ Len(order) = 0 /\ Len(answers) = 0
    BY <1>1
  <1>4. RpcTyped' /\ Phases' /\ Awaits'
    BY <1>1, <1>2, <1>3 DEF DispatcherInv, RpcInv, RpcTyped, Phases, Awaits
  <1>5. AnswersTo(Null)' = {} /\ BadRead' = {}
    BY <1>1, <1>3 DEF AnswersTo, BadRead
  <1>6. Batched'
    BY <1>1, <1>3, <1>5 DEF Batched, Served, Caused
  <1> QED
    BY <1>1, <1>4, <1>6 DEF RpcInv, NotificationsSilent, WaitsForEveryCall

\* A batch being read, and its next item.
LEMMA ReadingFacts ==
  ASSUME DispatcherInv, Reading
  PROVE  /\ phase = "reading" /\ pc = "idle" /\ cursor \in 1..Len(payload) /\ Len(payload) \in 0..MaxBatch
         /\ Item \in Items /\ answers \in Seq(Entries) /\ Len(answers) \in Nat
         /\ RpcTyped /\ Awaits /\ Served /\ Caused
         /\ Cardinality(AnswersTo(Null)) = Cardinality(BadRead)
  <1>1. payload \in Payloads /\ cursor \in 1..(Len(payload) + 1) /\ answers \in Seq(Entries)
    BY DEF DispatcherInv, RpcInv, RpcTyped, Entries
  <1>2. Len(payload) \in 0..MaxBatch /\ \A n \in 1..Len(payload) : payload[n] \in Items
    BY <1>1, PayloadsAre
  <1>3. cursor \in 1..Len(payload)
    BY <1>1, <1>2, DispatcherAssumption DEF Reading
  <1> QED
    BY <1>1, <1>2, <1>3, LenProperties DEF Reading, Item, DispatcherInv, RpcInv, Phases, Batched

\* What the next item changes besides its own part of the invariant.
LEMMA NextItemFrame ==
  ASSUME DispatcherInv, Reading, NextItem, UNCHANGED <<payload, pc>>
  PROVE  /\ phase' = "reading" /\ Phases' /\ NotificationsSilent' /\ WaitsForEveryCall'
         /\ cursor' = cursor + 1 /\ cursor' \in 1..(Len(payload') + 1)
         /\ \A n \in 1..(cursor' - 1) : n \in 1..(cursor - 1) \/ n = cursor
         /\ 1..(cursor - 1) \subseteq 1..(cursor' - 1) /\ cursor \in 1..(cursor' - 1)
  <1>1. /\ phase = "reading" /\ phase' = "reading" /\ pc = "idle" /\ pc' = "idle"
        /\ cursor \in 1..Len(payload) /\ Len(payload) \in Nat /\ cursor' = cursor + 1 /\ payload' = payload
    BY ReadingFacts, DispatcherAssumption DEF NextItem
  <1> QED
    BY <1>1 DEF Phases, NotificationsSilent, WaitsForEveryCall

\* The answers and the items with no id count the same, with one more of each or of neither.
LEMMA NullsMatch ==
  ASSUME NEW A, NEW B, IsFiniteSet(A), IsFiniteSet(B), Cardinality(A) = Cardinality(B),
         NEW a, NEW b, a \notin A, b \notin B
  PROVE  Cardinality(A \cup {a}) = Cardinality(B \cup {b})
  BY FS_AddElement

LEMMA NullsFinite ==
  ASSUME DispatcherInv, Reading
  PROVE  IsFiniteSet(AnswersTo(Null)) /\ IsFiniteSet(BadRead)
  <1>1. Len(answers) \in Nat /\ cursor - 1 \in Nat
    BY ReadingFacts, DispatcherAssumption
  <1>2. IsFiniteSet(1..Len(answers)) /\ IsFiniteSet(1..(cursor - 1))
    BY <1>1, FS_Interval
  <1>3. AnswersTo(Null) \in SUBSET (1..Len(answers)) /\ BadRead \in SUBSET (1..(cursor - 1))
    BY DEF AnswersTo, BadRead
  <1> QED
    BY <1>2, <1>3, FS_Subset

LEMMA RaiseKeeps ==
  ASSUME DispatcherInv, Reading, NEW why \in {"raised", "asserted"}, Raise(why), UNCHANGED payload
  PROVE  RpcInv'
  <1>1. phase' = why /\ UNCHANGED <<payload, cursor, awaitables, order, answers>> /\ spare' = Abandoned
    BY DEF Raise
  <1>2. RpcTyped /\ Awaits
    BY DEF DispatcherInv, RpcInv
  <1>3. Abandoned \in [1..MaxBatch -> {"none", "pending", "ended"}]
    BY <1>2 DEF RpcTyped, Abandoned
  <1>4. RpcTyped' /\ Awaits'
    BY <1>1, <1>2, <1>3 DEF RpcTyped, Awaits
  <1> QED
    BY <1>1, <1>4 DEF RpcInv, Phases, Batched, NotificationsSilent, WaitsForEveryCall

\* The next item is answered at once.
LEMMA AnsweredAtOnce ==
  ASSUME DispatcherInv, Reading, NextItem, UNCHANGED <<payload, pc, awaitables, order, spare>>,
         NEW e \in Entries, answers' = Append(answers, e) \/ answers' = answers \o <<e>>,
         e.report # "pending",
         \/ Item = Invalid /\ e.id = Null
         \/ e.id \in Ids /\ Item = Unknown(e.id)
  PROVE  RpcInv'
  <1>1. /\ answers' \in Seq(Entries) /\ Len(answers') = Len(answers) + 1 /\ Len(answers) \in Nat
        /\ answers'[Len(answers) + 1] = e /\ \A n \in 1..Len(answers) : answers'[n] = answers[n]
    BY ReadingFacts, OneMore
  <1>2. \A m \in 1..Len(answers') : m \in 1..Len(answers) \/ m = Len(answers) + 1
    BY <1>1
  <1>3. RpcTyped'
    BY <1>1, ReadingFacts, NextItemFrame DEF RpcTyped, Entries
  <1>4. Awaits'
    BY ReadingFacts, NextItemFrame DEF Awaits
  <1>5. Served'
    <2>1. ASSUME NEW n \in 1..(cursor' - 1)
          PROVE  /\ payload[n] # Alien
                 /\ payload[n].kind = "call" /\ payload[n].id # NoId => payload[n].id \in DOMAIN awaitables
                 /\ payload[n].kind = "unknown" =>
                      payload[n].id # NoId /\ \E m \in 1..Len(answers') : answers'[m].id = payload[n].id
      <3>1. CASE n \in 1..(cursor - 1)
        BY <3>1, <1>1, ReadingFacts DEF Served
      <3>2. CASE n = cursor
        <4>1. payload[n] = Item /\ Len(answers) + 1 \in 1..Len(answers')
          BY <3>2, <1>1 DEF Item
        <4> QED
          BY <4>1, <1>1, ItemsAre
      <3> QED
        BY <3>1, <3>2, <2>1, NextItemFrame
    <2> QED
      BY <2>1 DEF Served
  <1>6. Caused'
    <2>1. ASSUME NEW m \in 1..Len(answers')
          PROVE  /\ answers'[m].id \in Ids \cup {Null} /\ answers'[m].report # "pending"
                 /\ answers'[m].id # Null =>
                      \E n \in 1..(cursor' - 1) : payload[n] = Unknown(answers'[m].id)
      <3>1. CASE m \in 1..Len(answers)
        BY <3>1, <1>1, ReadingFacts, NextItemFrame DEF Caused
      <3>2. CASE m = Len(answers) + 1
        BY <3>2, <1>1, NextItemFrame DEF Item
      <3> QED
        BY <1>2, <3>1, <3>2
    <2>2. ASSUME NEW m \in 1..Len(answers), NEW n \in 1..Len(answers), m # n,
                 answers'[m].id = answers'[n].id, answers'[m].id # Null
          PROVE  \E i, j \in 1..(cursor' - 1) :
                   i # j /\ payload[i] = Unknown(answers'[m].id) /\ payload[j] = Unknown(answers'[m].id)
      <3>1. PICK i \in 1..(cursor - 1), j \in 1..(cursor - 1) :
              i # j /\ payload[i] = Unknown(answers[m].id) /\ payload[j] = Unknown(answers[m].id)
        BY <2>2, <1>1, ReadingFacts DEF Caused
      <3> QED
        BY <3>1, <1>1, NextItemFrame
    <2>3. ASSUME NEW m \in 1..Len(answers), answers'[m].id = e.id, e.id # Null
          PROVE  \E i, j \in 1..(cursor' - 1) :
                   i # j /\ payload[i] = Unknown(e.id) /\ payload[j] = Unknown(e.id)
      <3>1. PICK j \in 1..(cursor - 1) : payload[j] = Unknown(e.id)
        BY <2>3, <1>1, ReadingFacts DEF Caused
      <3>2. payload[cursor] = Unknown(e.id) /\ cursor # j /\ cursor \in 1..(cursor' - 1)
            /\ j \in 1..(cursor' - 1)
        BY <2>3, <3>1, NextItemFrame, ReadingFacts DEF Item
      <3> QED
        BY <3>1, <3>2
    <2>4. ASSUME NEW m \in 1..Len(answers'), NEW n \in 1..Len(answers'), m # n,
                 answers'[m].id = answers'[n].id, answers'[m].id # Null
          PROVE  \E i, j \in 1..(cursor' - 1) :
                   i # j /\ payload[i] = Unknown(answers'[m].id) /\ payload[j] = Unknown(answers'[m].id)
      <3>1. CASE m \in 1..Len(answers) /\ n \in 1..Len(answers)
        BY <2>2, <2>4, <3>1
      <3>2. CASE m \in 1..Len(answers) /\ n = Len(answers) + 1
        BY <2>3, <2>4, <3>2, <1>1
      <3>3. CASE m = Len(answers) + 1 /\ n \in 1..Len(answers)
        BY <2>3, <2>4, <3>3, <1>1
      <3> QED
        BY <1>2, <2>4, <3>1, <3>2, <3>3
    <2> QED
      BY <2>1, <2>4 DEF Caused
  <1>7. Cardinality(AnswersTo(Null))' = Cardinality(BadRead)'
    <2>1. CASE Item = Invalid
      <3>1. e.id = Null
        BY <2>1, ItemsAre
      <3>2. AnswersTo(Null)' = AnswersTo(Null) \cup {Len(answers) + 1} /\ Len(answers) + 1 \notin AnswersTo(Null)
        BY <1>1, <1>2, <3>1 DEF AnswersTo
      <3>3. BadRead' = BadRead \cup {cursor} /\ cursor \notin BadRead
        BY <2>1, NextItemFrame, ReadingFacts DEF BadRead, Item
      <3> QED
        BY <3>2, <3>3, NullsFinite, NullsMatch, ReadingFacts
    <2>2. CASE Item # Invalid
      <3>1. e.id # Null
        BY <2>2, ItemsAre
      <3>2. AnswersTo(Null)' = AnswersTo(Null)
        BY <1>1, <1>2, <3>1 DEF AnswersTo
      <3>3. BadRead' = BadRead
        BY <2>2, NextItemFrame, ReadingFacts DEF BadRead, Item
      <3> QED
        BY <3>2, <3>3, ReadingFacts
    <2> QED
      BY <2>1, <2>2
  <1> QED
    BY <1>3, <1>4, <1>5, <1>6, <1>7, NextItemFrame DEF RpcInv, Batched

LEMMA ReadInvalidKeeps ==
  ASSUME DispatcherInv, ReadInvalid
  PROVE  RpcInv'
  <1>1. Reading /\ UNCHANGED payload /\ UNCHANGED pc
    BY DEF ReadInvalid, gatherVars
  <1>2. CASE Item = Alien /\ Raise("raised")
    BY <1>1, <1>2, RaiseKeeps
  <1>3. CASE ~(Item = Alien /\ Raise("raised"))
    <2> DEFINE e == Answer(Null, "invalid")
    <2>1. /\ Item = Invalid /\ answers' = Append(answers, e) /\ NextItem
          /\ UNCHANGED <<awaitables, order, spare>>
      BY <1>3 DEF ReadInvalid
    <2>2. e \in Entries /\ e.id = Null /\ e.report = "invalid"
      BY DEF Answer, Entries, Reports
    <2> HIDE DEF e
    <2> QED
      BY <1>1, <2>1, <2>2, AnsweredAtOnce
  <1> QED
    BY <1>2, <1>3

LEMMA ReadUnknownKeeps ==
  ASSUME DispatcherInv, ReadUnknown
  PROVE  RpcInv'
  <1>1. Reading /\ UNCHANGED payload /\ UNCHANGED pc /\ Item.kind = "unknown"
    BY DEF ReadUnknown, gatherVars
  <1>2. Item \in Requests /\ Item.id \in Ids \cup {NoId} /\ Item = Unknown(Item.id)
    BY <1>1, ReadingFacts, ItemsAre DEF Unknown
  <1>3. CASE Item.id = NoId
    <2>1. Raise("asserted")
      BY <1>3 DEF ReadUnknown, Prepared
    <2> QED
      BY <1>1, <2>1, RaiseKeeps
  <1>4. CASE Item.id # NoId
    <2> DEFINE e == Answer(Item.id, "unknown")
    <2>1. answers' = answers \o <<e>> /\ NextItem /\ UNCHANGED <<awaitables, order, spare>>
      BY <1>4 DEF ReadUnknown, Prepared
    <2>2. e \in Entries /\ e.id = Item.id /\ e.report = "unknown"
      BY <1>2, ItemsAre DEF Answer, Entries, Reports
    <2>3. e.id \in Ids /\ Item = Unknown(e.id)
      BY <1>2, <1>4, <2>2
    <2> HIDE DEF e
    <2> QED
      BY <1>1, <2>1, <2>2, <2>3, AnsweredAtOnce
  <1> QED
    BY <1>3, <1>4

\* The next item is answered later, or never.
LEMMA AnsweredLater ==
  ASSUME DispatcherInv, Reading, NextItem, UNCHANGED <<payload, pc, answers>>,
         spare' \in [1..MaxBatch -> {"none", "pending", "ended"}],
         Item.kind = "call", Item.id # NoId => Item.id \in DOMAIN awaitables',
         DOMAIN awaitables \subseteq DOMAIN awaitables', DOMAIN awaitables' \in SUBSET Ids, Awaits'
  PROVE  RpcInv'
  <1>1. RpcTyped'
    BY ReadingFacts, NextItemFrame DEF RpcTyped
  <1>2. Item # Invalid /\ Item # Alien
    BY ItemsAre
  <1>3. Served'
    BY <1>2, ReadingFacts, NextItemFrame DEF Served, Item
  <1>4. Caused'
    BY ReadingFacts, NextItemFrame DEF Caused
  <1>5. BadRead' = BadRead /\ AnswersTo(Null)' = AnswersTo(Null)
    BY <1>2, ReadingFacts, NextItemFrame DEF BadRead, Item, AnswersTo
  <1> QED
    BY <1>1, <1>3, <1>4, <1>5, NextItemFrame, ReadingFacts DEF RpcInv, Batched

LEMMA ReadNotificationKeeps ==
  ASSUME DispatcherInv, ReadNotification
  PROVE  RpcInv'
  <1>1. /\ Reading /\ NextItem /\ UNCHANGED <<payload, pc, answers>> /\ Item.kind = "call" /\ Item.id = NoId
        /\ UNCHANGED <<awaitables, order>> /\ spare' = [spare EXCEPT ![cursor] = "pending"]
    BY DEF ReadNotification, gatherVars
  <1>2. spare' \in [1..MaxBatch -> {"none", "pending", "ended"}]
    BY <1>1, ReadingFacts DEF RpcTyped
  <1>3. Awaits'
    BY <1>1, ReadingFacts, NextItemFrame DEF Awaits
  <1>4. DOMAIN awaitables' = DOMAIN awaitables /\ DOMAIN awaitables \in SUBSET Ids
    BY <1>1, ReadingFacts DEF RpcTyped
  <1> QED
    BY <1>1, <1>2, <1>3, <1>4, AnsweredLater

\* An order of S with k at its end is one of S and k.
LEMMA OrderGrows ==
  ASSUME NEW S, IsFiniteSet(S), NEW k, k \notin S, NEW o \in Seq(S), Len(o) = Cardinality(S),
         \A m, n \in 1..Len(o) : o[m] = o[n] => m = n,
         \A j \in S : \E n \in 1..Len(o) : o[n] = j
  PROVE  LET T == S \cup {k}
             p == Append(o, k)
         IN  /\ IsFiniteSet(T) /\ p \in Seq(T) /\ Len(p) = Cardinality(T)
             /\ \A m, n \in 1..Len(p) : p[m] = p[n] => m = n
             /\ \A j \in T : \E n \in 1..Len(p) : p[n] = j
  <1> DEFINE T == S \cup {k}
             p == Append(o, k)
  <1>1. IsFiniteSet(T) /\ Cardinality(T) = Cardinality(S) + 1
    BY FS_AddElement
  <1>2. Len(o) \in Nat /\ \A n \in 1..Len(o) : o[n] \in S
    BY LenProperties, ElementOfSeq
  <1>3. o \in Seq(T) /\ k \in T
    OBVIOUS
  <1>4. /\ p \in Seq(T) /\ Len(p) = Len(o) + 1 /\ p[Len(o) + 1] = k
        /\ \A n \in 1..Len(o) : p[n] = o[n]
    BY <1>3, AppendProperties
  <1>5. \A j \in T : j \in S \/ j = k
    OBVIOUS
  <1> HIDE DEF T, p
  <1>6. \A m \in 1..Len(p) : m \in 1..Len(o) \/ m = Len(o) + 1
    BY <1>2, <1>4
  <1>7. \A m, n \in 1..Len(p) : p[m] = p[n] => m = n
    BY <1>2, <1>4, <1>6
  <1>8. \A j \in T : \E n \in 1..Len(p) : p[n] = j
    BY <1>2, <1>4, <1>5
  <1> QED
    BY <1>1, <1>4, <1>7, <1>8 DEF T, p

LEMMA ReadCallKeeps ==
  ASSUME DispatcherInv, ReadCall
  PROVE  RpcInv'
  <1> DEFINE k == Item.id
  <1>1. /\ Reading /\ NextItem /\ UNCHANGED <<payload, pc, answers>> /\ Item.kind = "call" /\ k \in Ids
        /\ awaitables' = [j \in DOMAIN awaitables \cup {k} |-> IF j = k THEN cursor ELSE awaitables[j]]
        /\ order' = IF k \in DOMAIN awaitables THEN order ELSE Append(order, k)
        /\ spare' = IF k \in DOMAIN awaitables
                    THEN [spare EXCEPT ![awaitables[k]] = "pending"] ELSE spare
    BY DEF ReadCall, gatherVars
  <1>2. Item = [kind |-> "call", id |-> k] /\ Item = payload[cursor]
    BY <1>1, ReadingFacts, ItemsAre DEF Item
  <1> HIDE DEF k
  <1>3. spare' \in [1..MaxBatch -> {"none", "pending", "ended"}]
    BY <1>1, ReadingFacts DEF RpcTyped
  <1>4. /\ DOMAIN awaitables' = DOMAIN awaitables \cup {k} /\ DOMAIN awaitables \in SUBSET Ids
        /\ awaitables'[k] = cursor /\ \A j \in DOMAIN awaitables : j # k => awaitables'[j] = awaitables[j]
    BY <1>1, ReadingFacts DEF RpcTyped
  <1>5. Awaits'
    <2>1. ASSUME NEW j \in DOMAIN awaitables'
          PROVE  /\ awaitables'[j] \in 1..(cursor' - 1)
                 /\ payload'[awaitables'[j]] = [kind |-> "call", id |-> j]
      <3>1. CASE j = k
        BY <3>1, <1>1, <1>2, <1>4, NextItemFrame
      <3>2. CASE j # k
        BY <3>2, <2>1, <1>1, <1>4, ReadingFacts, NextItemFrame DEF Awaits
      <3> QED
        BY <3>1, <3>2
    <2>2. /\ order' \in Seq(DOMAIN awaitables')
          /\ \A m, n \in 1..Len(order') : order'[m] = order'[n] => m = n
          /\ \A j \in DOMAIN awaitables' : \E n \in 1..Len(order') : order'[n] = j
          /\ IsFiniteSet(DOMAIN awaitables') /\ Len(order') = Cardinality(DOMAIN awaitables')
      <3>1. CASE k \in DOMAIN awaitables
        <4>1. DOMAIN awaitables' = DOMAIN awaitables /\ order' = order
          BY <3>1, <1>1, <1>4
        <4>2. Awaits
          BY <1>1, ReadingFacts
        <4> QED
          BY <4>1, <4>2 DEF Awaits
      <3>2. CASE k \notin DOMAIN awaitables
        <4>1. order' = Append(order, k)
          BY <3>2, <1>1
        <4>2. /\ IsFiniteSet(DOMAIN awaitables) /\ order \in Seq(DOMAIN awaitables)
              /\ Len(order) = Cardinality(DOMAIN awaitables)
              /\ \A m, n \in 1..Len(order) : order[m] = order[n] => m = n
              /\ \A j \in DOMAIN awaitables : \E n \in 1..Len(order) : order[n] = j
          BY <1>1, ReadingFacts DEF Awaits
        <4> DEFINE S == DOMAIN awaitables
        <4>3. DOMAIN awaitables' = S \cup {k}
          BY <1>4
        <4> HIDE DEF S
        <4>4. /\ IsFiniteSet(S) /\ order \in Seq(S) /\ Len(order) = Cardinality(S) /\ k \notin S
              /\ \A j \in S : \E n \in 1..Len(order) : order[n] = j
          BY <3>2, <4>2 DEF S
        <4> QED
          BY <4>1, <4>2, <4>3, <4>4, OrderGrows
      <3> QED
        BY <3>1, <3>2
    <2> QED
      BY <2>1, <2>2 DEF Awaits
  <1>6. Item.id \in DOMAIN awaitables' /\ DOMAIN awaitables' \in SUBSET Ids
    BY <1>1, <1>4 DEF k
  <1> QED
    BY <1>1, <1>3, <1>4, <1>5, <1>6, AnsweredLater

-----------------------------------------------------------------------------
(* The dispatcher: the answers of a batch                                   *)

\* One answer for each id in the order, after those of the items answered at once.
Appended(new) ==
  /\ new \in Seq(Entries) /\ answers' = answers \o new /\ Len(new) = Len(order)
  /\ \A n \in 1..Len(new) : new[n].id = order[n]

LEMMA AppendedFacts ==
  ASSUME RpcTyped, Awaits, NEW new, Appended(new)
  PROVE  /\ answers' \in Seq(Entries) /\ Len(answers') = Len(answers) + Len(order)
         /\ Len(answers) \in Nat /\ Len(order) \in Nat
         /\ \A m \in 1..Len(answers) : answers'[m] = answers[m]
         /\ \A n \in 1..Len(order) : /\ Len(answers) + n \in 1..Len(answers')
                                     /\ answers'[Len(answers) + n] = new[n]
                                     /\ new[n].id = order[n] /\ order[n] \in DOMAIN awaitables
         /\ \A m \in 1..Len(answers') :
              m \in 1..Len(answers) \/ \E n \in 1..Len(order) : m = Len(answers) + n
  <1>1. answers \in Seq(Entries) /\ new \in Seq(Entries) /\ order \in Seq(DOMAIN awaitables)
    BY DEF RpcTyped, Awaits, Appended, Entries
  <1>2. /\ answers' \in Seq(Entries) /\ Len(answers') = Len(answers) + Len(order)
        /\ Len(answers) \in Nat /\ Len(order) \in Nat
        /\ \A m \in 1..Len(answers) : answers'[m] = answers[m]
        /\ \A n \in 1..Len(order) : answers'[Len(answers) + n] = new[n]
    <2>1. answers' = answers \o new /\ Len(new) = Len(order)
      BY DEF Appended
    <2>2. /\ answers \o new \in Seq(Entries) /\ Len(answers \o new) = Len(answers) + Len(new)
          /\ Len(answers) \in Nat /\ Len(new) \in Nat
          /\ \A m \in 1..Len(answers) : (answers \o new)[m] = answers[m]
          /\ \A n \in 1..Len(new) : (answers \o new)[Len(answers) + n] = new[n]
      BY <1>1, ConcatFacts
    <2> QED
      BY <2>1, <2>2
  <1>3. \A n \in 1..Len(order) : order[n] \in DOMAIN awaitables
    BY <1>1, ElementOfSeq
  <1>4. \A m \in 1..Len(answers') :
          m \in 1..Len(answers) \/ \E n \in 1..Len(order) : m = Len(answers) + n
    <2> TAKE m \in 1..Len(answers')
    <2>1. CASE m > Len(answers)
      <3>1. m - Len(answers) \in 1..Len(order) /\ m = Len(answers) + (m - Len(answers))
        BY <1>2, <2>1
      <3> QED
        BY <3>1
    <2>2. CASE ~(m > Len(answers))
      BY <1>2, <2>2
    <2> QED
      BY <2>1, <2>2
  <1> QED
    BY <1>2, <1>3, <1>4 DEF Appended

\* The answers of a batch that is read and whose calls are answered are those of its items.
LEMMA BatchAnswered ==
  ASSUME RpcTyped, Awaits, Served, Caused, cursor = Len(payload) + 1, UNCHANGED payload,
         Cardinality(AnswersTo(Null)) = Cardinality(BadRead),
         NEW new, Appended(new)
  PROVE  Traced' /\ NotificationsSilent' /\ answers' \in Seq(Entries)
  <1>1. payload' = payload /\ Len(payload) \in Nat /\ 1..(cursor - 1) = 1..Len(payload)
    BY PayloadsAre DEF RpcTyped
  <1>2. \A n \in 1..Len(payload) : payload[n] \in Items
    BY PayloadsAre DEF RpcTyped
  <1>3. \A k \in DOMAIN awaitables : /\ awaitables[k] \in 1..Len(payload) /\ k \in Ids
                                     /\ payload[awaitables[k]].kind = "call"
                                     /\ payload[awaitables[k]].id = k
                                     /\ payload[awaitables[k]] \in Requests
    <2> TAKE k \in DOMAIN awaitables
    <2>1. awaitables[k] \in 1..Len(payload) /\ payload[awaitables[k]] = [kind |-> "call", id |-> k]
      BY <1>1 DEF Awaits
    <2>2. k \in Ids
      BY DEF RpcTyped
    <2>3. payload[awaitables[k]].kind = "call" /\ payload[awaitables[k]].id = k
      BY <2>1
    <2>4. payload[awaitables[k]] \in Requests
      BY <2>1, <2>2 DEF Requests
    <2> QED
      BY <2>1, <2>2, <2>3, <2>4
  <1>4. /\ answers' \in Seq(Entries) /\ Len(answers') = Len(answers) + Len(order)
        /\ Len(answers) \in Nat /\ Len(order) \in Nat
        /\ \A m \in 1..Len(answers) : answers'[m] = answers[m]
        /\ \A n \in 1..Len(order) : /\ Len(answers) + n \in 1..Len(answers')
                                    /\ answers'[Len(answers) + n].id = order[n]
                                    /\ order[n] \in DOMAIN awaitables
        /\ \A m \in 1..Len(answers') :
             m \in 1..Len(answers) \/ \E n \in 1..Len(order) : m = Len(answers) + n
    BY AppendedFacts
  <1>5. \A k \in Ids : Unknown(k) \in Requests /\ Unknown(k).id = k /\ Unknown(k).kind = "unknown"
    BY ItemsAre
  <1>6. ASSUME NEW n \in 1..Len(payload), payload[n] \in Requests, payload[n].id \in Keys
        PROVE  \E m \in 1..Len(answers') : answers'[m].id = payload[n].id
    <2>1. payload[n].id # NoId /\ payload[n].kind \in {"call", "unknown"}
      BY <1>6, ItemsAre, DispatcherAssumption
    <2>2. CASE payload[n].kind = "call"
      <3>1. payload[n].id \in DOMAIN awaitables
        BY <1>1, <2>1, <2>2 DEF Served
      <3>2. PICK j \in 1..Len(order) : order[j] = payload[n].id
        BY <3>1 DEF Awaits
      <3> QED
        BY <1>4, <3>2
    <2>3. CASE payload[n].kind = "unknown"
      <3>1. PICK m \in 1..Len(answers) : answers[m].id = payload[n].id
        BY <1>1, <2>3 DEF Served
      <3>2. m \in 1..Len(answers')
        BY <1>4
      <3> QED
        BY <1>4, <3>1, <3>2
    <2> QED
      BY <2>1, <2>2, <2>3
  <1>7. ASSUME NEW m \in 1..Len(answers), answers'[m].id \in Keys
        PROVE  \E n \in 1..Len(payload) : payload[n] = Unknown(answers'[m].id) /\ answers'[m].id \in Ids
    BY <1>1, <1>4, <1>7, DispatcherAssumption DEF Caused
  <1>8. ASSUME NEW m \in 1..Len(answers'), answers'[m].id \in Keys
        PROVE  \E n \in 1..Len(payload) : payload[n] \in Requests /\ payload[n].id = answers'[m].id
    <2>1. CASE m \in 1..Len(answers)
      BY <1>5, <1>7, <1>8, <2>1
    <2>2. CASE \E n \in 1..Len(order) : m = Len(answers) + n
      BY <1>3, <1>4, <2>2
    <2> QED
      BY <1>4, <2>1, <2>2
  <1>9. ASSUME NEW l \in 1..Len(answers), NEW n \in 1..Len(order),
               answers'[l].id = order[n], answers'[l].id \in Keys
        PROVE  \E i, j \in 1..Len(payload) :
                 /\ i # j /\ payload[i] \in Requests /\ payload[i].id = answers'[l].id
                 /\ payload[j] \in Requests /\ payload[j].id = answers'[l].id
    <2>1. PICK i \in 1..Len(payload) : payload[i] = Unknown(answers'[l].id) /\ answers'[l].id \in Ids
      BY <1>7, <1>9
    <2>2. order[n] \in DOMAIN awaitables
      BY <1>4
    <2>3. /\ payload[i].kind = "unknown" /\ payload[i].id = answers'[l].id /\ payload[i] \in Requests
          /\ payload[awaitables[order[n]]].kind = "call"
      BY <1>3, <1>5, <2>1, <2>2
    <2>4. i # awaitables[order[n]] /\ awaitables[order[n]] \in 1..Len(payload)
      BY <1>3, <2>2, <2>3
    <2> QED
      BY <1>3, <1>9, <2>2, <2>3, <2>4
  <1>10. ASSUME NEW l \in 1..Len(answers), NEW m \in 1..Len(answers), l # m,
                answers'[l].id = answers'[m].id, answers'[l].id \in Keys
         PROVE  \E i, j \in 1..Len(payload) :
                  /\ i # j /\ payload[i] \in Requests /\ payload[i].id = answers'[l].id
                  /\ payload[j] \in Requests /\ payload[j].id = answers'[l].id
    <2>1. answers[l].id = answers[m].id /\ answers[l].id # Null /\ answers'[l] = answers[l]
      BY <1>4, <1>10, DispatcherAssumption
    <2>2. answers[l].id \in Ids
      BY <2>1 DEF Caused
    <2>3. PICK i \in 1..Len(payload), j \in 1..Len(payload) :
            i # j /\ payload[i] = Unknown(answers[l].id) /\ payload[j] = Unknown(answers[l].id)
      BY <1>1, <1>10, <2>1 DEF Caused
    <2> QED
      BY <1>5, <2>1, <2>2, <2>3
  <1>11. ASSUME NEW l \in 1..Len(answers'), NEW m \in 1..Len(answers'), l # m,
                answers'[l].id = answers'[m].id, answers'[l].id \in Keys
         PROVE  \E i, j \in 1..Len(payload) :
                  /\ i # j /\ payload[i] \in Requests /\ payload[i].id = answers'[l].id
                  /\ payload[j] \in Requests /\ payload[j].id = answers'[l].id
    <2>1. CASE l \in 1..Len(answers) /\ m \in 1..Len(answers)
      BY <1>10, <1>11, <2>1
    <2>2. CASE l \in 1..Len(answers) /\ m \notin 1..Len(answers)
      <3>1. PICK n \in 1..Len(order) : m = Len(answers) + n
        BY <1>4, <2>2
      <3> QED
        BY <1>4, <1>9, <1>11, <2>2, <3>1
    <2>3. CASE l \notin 1..Len(answers) /\ m \in 1..Len(answers)
      <3>1. PICK n \in 1..Len(order) : l = Len(answers) + n
        BY <1>4, <2>3
      <3> QED
        BY <1>4, <1>9, <1>11, <2>3, <3>1
    <2>4. CASE l \notin 1..Len(answers) /\ m \notin 1..Len(answers)
      <3>1. PICK n \in 1..Len(order) : l = Len(answers) + n
        BY <1>4, <2>4
      <3>2. PICK i \in 1..Len(order) : m = Len(answers) + i
        BY <1>4, <2>4
      <3>3. order[n] = order[i] /\ n # i
        BY <1>4, <1>11, <3>1, <3>2
      <3> QED
        BY <3>3 DEF Awaits
    <2> QED
      BY <2>1, <2>2, <2>3, <2>4
  <1>12. Traced'
    BY <1>1, <1>6, <1>8, <1>11 DEF Traced
  <1>13. AnswersTo(NoId)' = {}
    <2>1. \A m \in 1..Len(answers) : answers'[m].id # NoId
      BY <1>4, ItemsAre DEF Caused
    <2>2. \A n \in 1..Len(order) : answers'[Len(answers) + n].id # NoId
      BY <1>3, <1>4, ItemsAre
    <2> QED
      BY <1>4, <2>1, <2>2 DEF AnswersTo
  <1>14. AnswersTo(Null)' = AnswersTo(Null)
    <2>1. \A n \in 1..Len(order) : answers'[Len(answers) + n].id # Null
      BY <1>3, <1>4, ItemsAre
    <2> QED
      BY <1>4, <2>1 DEF AnswersTo
  <1>15. BadRead = {n \in 1..Len(payload') : payload'[n] = Invalid}
    BY <1>1 DEF BadRead
  <1> QED
    BY <1>4, <1>12, <1>13, <1>14, <1>15 DEF NotificationsSilent

\* A batch without calls to wait for has all its answers.
LEMMA EndOfBatchKeeps ==
  ASSUME DispatcherInv, EndOfBatch
  PROVE  RpcInv'
  <1>1. /\ phase = "reading" /\ cursor > Len(payload)
        /\ UNCHANGED <<payload, cursor, awaitables, order, spare, answers>>
        /\ RpcTyped /\ Phases /\ Awaits /\ Served /\ Caused
        /\ Cardinality(AnswersTo(Null)) = Cardinality(BadRead)
    BY DEF EndOfBatch, DispatcherInv, RpcInv, Batched
  <1>2. cursor = Len(payload) + 1 /\ Len(payload) \in Nat
    BY <1>1, PayloadsAre DEF RpcTyped
  <1>3. RpcTyped' /\ Awaits'
    <2>1. phase' \in {"answered", "gathering"}
      BY DEF EndOfBatch
    <2>2. RpcTyped'
      BY <1>1, <2>1 DEF RpcTyped
    <2>3. Awaits'
      BY <1>1 DEF Awaits
    <2> QED
      BY <2>2, <2>3
  <1>4. CASE awaitables = <<>>
    <2>1. phase' = "answered" /\ UNCHANGED <<pc, awaited, task, cancelled, stopping>> /\ awaited = {}
      BY <1>1, <1>4 DEF EndOfBatch, gatherVars, Phases, DispatcherInv, CallTyped
    <2>2. Len(order) = 0
      <3>1. DOMAIN awaitables = {}
        BY <1>4
      <3> QED
        BY <1>1, <3>1, FS_EmptySet DEF Awaits
    <2>3. Appended(<<>>)
      <3>1. answers \in Seq(Entries)
        BY <1>1 DEF RpcTyped, Entries
      <3>2. answers \o <<>> = answers
        BY <3>1, ConcatEmptySeq
      <3> QED
        BY <1>1, <2>2, <3>2 DEF Appended
    <2>4. Traced' /\ NotificationsSilent'
      BY <1>1, <1>2, <2>3, BatchAnswered
    <2>5. WaitsForEveryCall'
      BY <1>1, <2>1 DEF WaitsForEveryCall, Caused
    <2> QED
      BY <1>1, <1>3, <2>1, <2>4, <2>5 DEF RpcInv, Phases, Batched
  <1>5. CASE awaitables # <<>>
    <2>1. phase' = "gathering" /\ pc' = "waiting" /\ awaited' = DOMAIN awaitables
      BY <1>5 DEF EndOfBatch, Gather
    <2>2. Phases'
      BY <1>1, <1>2, <2>1 DEF Phases
    <2>3. Batched'
      BY <1>1, <2>1 DEF Batched, Served, Caused, AnswersTo, BadRead
    <2> QED
      BY <1>3, <2>1, <2>2, <2>3 DEF RpcInv, NotificationsSilent, WaitsForEveryCall
  <1> QED
    BY <1>4, <1>5

\* What the call of process_rpc has come to when it returns.
LEMMA GatheredFacts ==
  ASSUME DispatcherInv, phase = "gathering", pc = "returned"
  PROVE  /\ awaited = DOMAIN awaitables /\ timer = "off" /\ waitFor = "ALL_DONE"
         /\ \A k \in awaited : results[k] \in Outcomes \cup {"pending"}
         /\ \A k \in awaited : results[k] = "pending" => cancelled /\ k \in stopping
         /\ \A k \in awaited : task[k] \in Outcomes \/ (cancelled /\ k \in stopping)
  <1>1. awaited = DOMAIN awaitables /\ timer = "off" /\ waitFor = "ALL_DONE"
    BY DEF DispatcherInv, RpcInv, Phases, AsDispatched
  <1>2. \A k \in awaited : results[k] \in Outcomes \cup {"pending"}
    BY DEF DispatcherInv, CallTyped
  <1>3. ASSUME NEW k \in awaited
        PROVE  results[k] = "pending" <=> k \in stopping
    BY <1>3 DEF DispatcherInv, GatherInv, NothingLeftRunning
  <1>4. ASSUME NEW k \in awaited, results[k] = "pending"
        PROVE  cancelled /\ k \in stopping
    <2>1. cancelled
      BY <1>1, <1>4 DEF DispatcherInv, GatherInv, WaitForKept
    <2> QED
      BY <1>3, <1>4, <2>1
  <1>5. ASSUME NEW k \in awaited
        PROVE  task[k] \in Outcomes \/ (cancelled /\ k \in stopping)
    <2>1. task[k] # "pending" \/ k \in stopping
      BY <1>5 DEF DispatcherInv, GatherInv, NothingLeftRunning
    <2>2. task[k] \in Outcomes \cup {"none", "pending"} /\ k \in Keys
      BY <1>5 DEF DispatcherInv, GatherInv, Typed
    <2>3. task[k] # "none"
      BY <1>5 DEF DispatcherInv, CallTyped
    <2> QED
      BY <1>3, <1>4, <2>1, <2>2, <2>3
  <1> QED
    BY <1>1, <1>2, <1>4, <1>5

LEMMA AnswerIs ==
  ASSUME NEW id, NEW report
  PROVE  Answer(id, report).id = id /\ Answer(id, report).report = report
  BY DEF Answer

LEMMA RespondKeeps ==
  ASSUME DispatcherInv, Respond
  PROVE  RpcInv'
  <1>1. /\ phase = "gathering" /\ pc = "returned" /\ phase' = "answered" /\ answers' = answers \o Results
        /\ UNCHANGED <<payload, cursor, awaitables, order, spare>>
        /\ UNCHANGED <<pc, awaited, task, cancelled, stopping>>
        /\ RpcTyped /\ Phases /\ Awaits /\ Served /\ Caused
        /\ Cardinality(AnswersTo(Null)) = Cardinality(BadRead)
    BY DEF Respond, gatherVars, DispatcherInv, RpcInv, Batched
  <1>2. cursor = Len(payload) + 1
    BY <1>1 DEF Phases
  <1>3. order \in Seq(DOMAIN awaitables) /\ Len(order) \in Nat /\ \A n \in 1..Len(order) : order[n] \in awaited
    <2>1. order \in Seq(DOMAIN awaitables)
      BY <1>1 DEF Awaits
    <2> QED
      BY <1>1, <2>1, GatheredFacts, LenProperties, ElementOfSeq
  <1>4. \A n \in 1..Len(order) :
          /\ ReportOf(order[n]) \in {"handled", "failed", "cancelled", "pending"}
          /\ ReportOf(order[n]) = "pending" => cancelled /\ order[n] \in stopping
    BY <1>1, <1>3, GatheredFacts DEF ReportOf, Outcomes
  <1>5. \A n \in 1..Len(order) : order[n] \in Keys
    BY <1>3 DEF DispatcherInv, GatherInv, Typed
  <1>6. /\ Results \in [1..Len(order) -> Entries]
        /\ \A n \in 1..Len(order) : Results[n].id = order[n] /\ Results[n].report = ReportOf(order[n])
    <2>1. \A n \in 1..Len(order) : Answer(order[n], ReportOf(order[n])) \in Entries
      BY <1>4, <1>5 DEF Answer, Entries, Reports
    <2>2. \A n \in 1..Len(order) : Results[n] = Answer(order[n], ReportOf(order[n]))
      BY DEF Results
    <2>3. \A n \in 1..Len(order) : Results[n].id = order[n] /\ Results[n].report = ReportOf(order[n])
      BY <2>2, AnswerIs
    <2>4. Results \in [1..Len(order) -> Entries]
      BY <2>1 DEF Results
    <2> QED
      BY <2>3, <2>4
  <1>7. Appended(Results)
    <2>1. Results \in Seq(Entries) /\ Len(Results) = Len(order)
      BY <1>3, <1>6
    <2> QED
      BY <1>1, <1>6, <2>1 DEF Appended
  <1>8. Traced' /\ NotificationsSilent' /\ answers' \in Seq(Entries)
    BY <1>1, <1>2, <1>7, BatchAnswered
  <1>9. WaitsForEveryCall'
    <2> SUFFICES /\ \A m \in 1..Len(answers') :
                      answers'[m].report = "pending" => cancelled /\ answers'[m].id \in stopping
                 /\ \A k \in awaited : task[k] \in Outcomes \/ (cancelled /\ k \in stopping)
      BY <1>1 DEF WaitsForEveryCall
    <2>1. \A m \in 1..Len(answers) : answers'[m].report # "pending"
      BY <1>1, <1>7, AppendedFacts DEF Caused
    <2>2. \A n \in 1..Len(order) :
            answers'[Len(answers) + n].report = "pending" =>
              cancelled /\ answers'[Len(answers) + n].id \in stopping
      <3>1. \A n \in 1..Len(order) : answers'[Len(answers) + n] = Results[n]
        BY <1>1, <1>7, AppendedFacts
      <3> QED
        BY <1>4, <1>6, <3>1
    <2> QED
      BY <1>1, <1>7, <2>1, <2>2, AppendedFacts, GatheredFacts
  <1>10. RpcTyped' /\ Awaits'
    BY <1>1, <1>8 DEF RpcTyped, Awaits, Entries
  <1> QED
    BY <1>1, <1>8, <1>9, <1>10 DEF RpcInv, Phases, Batched

LEMMA RespondRaisesKeeps ==
  ASSUME DispatcherInv, RespondRaises
  PROVE  RpcInv'
  <1>1. phase' = "raised" /\ UNCHANGED <<payload, cursor, awaitables, order, spare, answers>>
    BY DEF RespondRaises
  <1>2. RpcTyped' /\ Awaits'
    BY <1>1 DEF DispatcherInv, RpcInv, RpcTyped, Awaits
  <1> QED
    BY <1>1, <1>2 DEF RpcInv, Phases, Batched, NotificationsSilent, WaitsForEveryCall

LEMMA MethodEndsKeeps ==
  ASSUME DispatcherInv, MethodEnds
  PROVE  RpcInv'
  <1>1. RpcInv /\ UNCHANGED <<phase, payload, cursor, awaitables, order, answers>>
    BY DEF DispatcherInv, MethodEnds
  <1>2. spare \in [1..MaxBatch -> {"none", "pending", "ended"}]
    BY <1>1 DEF RpcInv, RpcTyped
  <1>3. CASE \E k \in Keys, outcome \in Outcomes : TaskEnds(k, outcome) /\ UNCHANGED spare
    <2>1. PICK k \in Keys, outcome \in Outcomes : TaskEnds(k, outcome) /\ UNCHANGED spare
      BY <1>3
    <2>2. UNCHANGED <<pc, awaited, stopping, cancelled>>
      BY <2>1 DEF TaskEnds
    <2>3. \A j \in Keys : task[j] \in Outcomes => task'[j] = task[j]
      BY <2>1 DEF TaskEnds, DispatcherInv, GatherInv, Typed, Outcomes
    <2>4. awaited \in SUBSET Keys
      BY DEF DispatcherInv, GatherInv, Typed
    <2> QED
      BY <1>1, <1>2, <2>1, <2>2, <2>3, <2>4, GatherSideKeeps
  <1>4. CASE UNCHANGED gatherVars /\ spare' \in [1..MaxBatch -> {"none", "pending", "ended"}]
    <2>1. UNCHANGED <<pc, awaited, stopping, task, cancelled>>
      BY <1>4 DEF gatherVars
    <2> QED
      BY <1>1, <1>4, <2>1, GatherSideKeeps
  <1> QED
    BY <1>2, <1>3, <1>4 DEF MethodEnds

\* What the loop and the callers do leaves what has been read and answered alone.
LEMMA LoopKeeps ==
  ASSUME DispatcherInv, CallerCancelled \/ LoopRuns \/ AwaitDirectly
  PROVE  RpcInv'
  <1>1. RpcInv /\ UNCHANGED <<phase, payload, cursor, awaitables, order, answers>> /\ UNCHANGED spare
    BY DEF DispatcherInv, CallerCancelled, LoopRuns, AwaitDirectly, rpcVars
  <1>2. spare' \in [1..MaxBatch -> {"none", "pending", "ended"}]
    BY <1>1 DEF RpcInv, RpcTyped
  <1>3. CASE AwaitDirectly
    <2>1. phase = "direct"
      BY <1>3 DEF AwaitDirectly
    <2> QED
      BY <1>1, <1>2, <2>1, GatherSideKeeps
  <1>4. CASE CallerCancelled
    <2>1. phase = "gathering" /\ UNCHANGED <<pc, awaited>>
      BY <1>4 DEF CallerCancelled, CancelCaller
    <2> QED
      BY <1>1, <1>2, <2>1, GatherSideKeeps
  <1>5. CASE LoopRuns
    <2>1. phase = "gathering" /\ RunHandle
      BY <1>5 DEF LoopRuns
    <2>2. pc' \in {pc, "returned"} /\ awaited' = awaited
      BY <1>1, <2>1, LoopKeepsDispatched DEF DispatcherInv
    <2> QED
      BY <1>1, <1>2, <2>1, <2>2, GatherSideKeeps
  <1> QED
    BY <1>3, <1>4, <1>5

-----------------------------------------------------------------------------
(* The dispatcher: theorems                                                 *)

LEMMA DispatcherKeeps == DispatcherInv /\ [Next]_vars => DispatcherInv'
  <1> SUFFICES ASSUME DispatcherInv, [Next]_vars PROVE DispatcherInv'
    OBVIOUS
  <1>1. AwaitsIds /\ DOMAIN awaitables \in SUBSET Keys
    BY DispatcherAssumption DEF DispatcherInv, RpcInv, RpcTyped, AwaitsIds
  <1>2. GatherInv' /\ CallTyped'
    BY <1>1, NextIsStepOfCall, StepKeeps, ReportedKeeps DEF DispatcherInv
  <1>3. AsDispatched'
    BY <1>1, DispatchedKeeps DEF DispatcherInv
  <1>4. RpcInv'
    <2>1. CASE UNCHANGED vars
      <3>1. /\ UNCHANGED <<phase, payload, cursor, awaitables, order, answers>> /\ UNCHANGED spare
            /\ UNCHANGED <<pc, awaited, stopping, task, cancelled>>
        BY <2>1 DEF vars, gatherVars, rpcVars
      <3>2. RpcInv /\ spare' \in [1..MaxBatch -> {"none", "pending", "ended"}]
        BY <3>1 DEF DispatcherInv, RpcInv, RpcTyped
      <3> QED
        BY <3>1, <3>2, GatherSideKeeps
    <2>2. CASE Empty \/ (\E item \in Requests \cup {Invalid} : Single(item)) \/ SingleHandled \/ SingleRaises
      BY <2>2, EmptyKeeps, SingleKeeps, SingleEnds
    <2>3. CASE \E items \in Payloads : Batch(items)
      BY <2>3, BatchKeeps
    <2>4. CASE Read
      BY <2>4, ReadInvalidKeeps, ReadUnknownKeeps, ReadNotificationKeeps, ReadCallKeeps, EndOfBatchKeeps
         DEF Read
    <2>5. CASE CallerCancelled \/ LoopRuns \/ AwaitDirectly
      BY <2>5, LoopKeeps
    <2>6. CASE MethodEnds \/ Respond \/ RespondRaises
      BY <2>6, MethodEndsKeeps, RespondKeeps, RespondRaisesKeeps
    <2> QED
      BY <2>1, <2>2, <2>3, <2>4, <2>5, <2>6 DEF Next, Proceed
  <1> QED
    BY <1>2, <1>3, <1>4 DEF DispatcherInv

LEMMA DispatcherBegins == Init => DispatcherInv
  <1> SUFFICES ASSUME Init PROVE DispatcherInv
    OBVIOUS
  <1>1. /\ pc = "idle" /\ awaited = {} /\ waitFor = "ALL_DONE" /\ timer = "off" /\ counter = 0
        /\ stopping = {} /\ task = [k \in Keys |-> "none"] /\ function = "gather_awaitables"
        /\ phase \in {"idle", "direct"} /\ payload = <<>> /\ cursor = 1 /\ awaitables = <<>>
        /\ order = <<>> /\ spare = [n \in 1..MaxBatch |-> "none"] /\ answers = <<>>
    BY DEF Init, GatherInit
  <1>2. GatherInv
    BY GatherBegins
  <1>3. CallTyped
    <2>1. Cardinality(Keys) >= 0
      BY GatherAssumption, FS_CardinalityType
    <2> QED
      BY <1>1, <2>1 DEF CallTyped
  <1>4. AsDispatched
    BY <1>1 DEF AsDispatched
  <1>5. DOMAIN awaitables = {} /\ Len(order) = 0 /\ Len(answers) = 0 /\ Len(payload) = 0
    BY <1>1
  <1>6. RpcTyped
    BY <1>1, <1>5, PayloadsAre DEF RpcTyped
  <1>7. Awaits
    BY <1>1, <1>5, FS_EmptySet DEF Awaits
  <1>8. Phases /\ Batched /\ NotificationsSilent /\ WaitsForEveryCall
    BY <1>1 DEF Phases, Batched, NotificationsSilent, WaitsForEveryCall
  <1> QED
    BY <1>1, <1>2, <1>3, <1>4, <1>6, <1>7, <1>8 DEF DispatcherInv, RpcInv

LEMMA DispatcherInvHolds == Spec => []DispatcherInv
  BY DispatcherBegins, DispatcherKeeps, PTL DEF Spec

\* Every step leaves the state one that the code can be in: tasks, handles, the payload's
\* items, the awaitables in their order and the answers (process_rpc, gather_awaitables).
THEOREM DispatcherTyped == Spec => []TypeOK
  <1>1. DispatcherInv => TypeOK
    <2> SUFFICES ASSUME DispatcherInv PROVE TypeOK
      OBVIOUS
    <2>1. counter \in 0..Cardinality(Keys)
      <3>1. Cardinality(Left) \in Nat /\ counter >= Cardinality(Left) /\ counter \in Int
        BY LeftIsFinite DEF DispatcherInv, GatherInv, Typed, Counted
      <3>2. counter <= Cardinality(Keys) /\ Cardinality(Keys) \in Nat
        BY GatherAssumption, FS_CardinalityType DEF DispatcherInv, CallTyped
      <3> QED
        BY <3>1, <3>2
    <2>2. \A n \in 1..Len(ready) : ready[n] \in {Timeout, Resume} \cup {Callback(k) : k \in Keys}
      BY ElementOfSeq DEF DispatcherInv, GatherInv, Typed, Handles
    <2>3. GatherTypeOK
      BY <2>1, <2>2 DEF GatherTypeOK, DispatcherInv, GatherInv, Typed, CallTyped
    <2>4. RpcTyped /\ Awaits
      BY DEF DispatcherInv, RpcInv
    <2>5. cursor \in 1..(MaxBatch + 1)
      BY <2>4, PayloadsAre, DispatcherAssumption DEF RpcTyped
    <2>6. \A n \in 1..Len(answers) :
            answers[n].id \in Keys \cup {Null, NoId} /\ answers[n].report \in Reports
      <3>1. answers \in Seq(Entries)
        BY <2>4 DEF RpcTyped, Entries
      <3>2. \A n \in 1..Len(answers) : answers[n] \in Entries
        BY <3>1, ElementOfSeq
      <3> QED
        BY <3>2 DEF Entries
    <2>7. DOMAIN awaitables \subseteq Keys
      BY <2>4, DispatcherAssumption DEF RpcTyped
    <2>8. \A k \in DOMAIN awaitables : payload[awaitables[k]] = [kind |-> "call", id |-> k]
      BY <2>4 DEF Awaits
    <2> QED
      BY <2>3, <2>4, <2>5, <2>6, <2>7, <2>8 DEF TypeOK, RpcTyped, Awaits
  <1> QED
    BY <1>1, DispatcherInvHolds, PTL

LEMMA OneOf ==
  ASSUME NEW S, S # {}, \A a, b \in S : a = b
  PROVE  Cardinality(S) = 1
  <1>1. PICK a \in S : S = {a}
    OBVIOUS
  <1> QED
    BY <1>1, FS_Singleton

\* Cardinality 1 is one element.
LEMMA OneIs ==
  ASSUME NEW S, Cardinality(S) = 1, IsFiniteSet(S)
  PROVE  S # {} /\ \A a, b \in S : a = b
  <1>1. S # {}
    BY FS_EmptySet
  <1>2. PICK a \in S : TRUE
    BY <1>1
  <1>3. Cardinality(S \ {a}) = 0 /\ IsFiniteSet(S \ {a})
    BY <1>2, FS_RemoveElement
  <1>4. S \ {a} = {}
    BY <1>3, FS_EmptySet
  <1> QED
    BY <1>1, <1>4

\* A payload that is answered is answered in full and no request twice, whichever of its
\* items are bad, unknown or calls, and whatever ends while process_rpc waits.
THEOREM RequestsAnswered == Spec => []EveryRequestAnswered
  <1>1. DispatcherInv => EveryRequestAnswered
    <2> SUFFICES ASSUME DispatcherInv, phase = "answered", NEW k \in Keys
                 PROVE  /\ Asking(k) = {} <=> AnswersTo(k) = {}
                        /\ Cardinality(Asking(k)) = 1 => Cardinality(AnswersTo(k)) = 1
      BY DEF EveryRequestAnswered
    <2>1. Traced /\ Len(payload) \in Nat
      BY PayloadsAre DEF DispatcherInv, RpcInv, RpcTyped
    <2>2. Asking(k) = {} <=> AnswersTo(k) = {}
      BY <2>1 DEF Traced, Asking, AnswersTo
    <2>3. ASSUME Cardinality(Asking(k)) = 1
          PROVE  Cardinality(AnswersTo(k)) = 1
      <3>1. IsFiniteSet(Asking(k))
        <4>1. Asking(k) \in SUBSET (1..Len(payload)) /\ IsFiniteSet(1..Len(payload))
          BY <2>1, FS_Interval DEF Asking
        <4> QED
          BY <4>1, FS_Subset
      <3>2. Asking(k) # {} /\ \A i, j \in Asking(k) : i = j
        BY <2>3, <3>1, OneIs
      <3>3. \A l, m \in AnswersTo(k) : l = m
        BY <2>1, <3>2 DEF Traced, Asking, AnswersTo
      <3> QED
        BY <2>2, <3>2, <3>3, OneOf
    <2> QED
      BY <2>2, <2>3
  <1> QED
    BY <1>1, DispatcherInvHolds, PTL

\* No notification is answered (_prepared_response), and the answers with the null id are as
\* many as the items that are no requests.
THEOREM NotificationsUnanswered == Spec => []NotificationsSilent
  <1>1. DispatcherInv => NotificationsSilent
    BY DEF DispatcherInv, RpcInv
  <1> QED
    BY <1>1, DispatcherInvHolds, PTL

\* A batch is answered after its calls have ended, or, the caller cancelled, been told to
\* stop: the invariant of gather_awaitables, at the call that process_rpc makes of it.
THEOREM CallsAwaited == Spec => []WaitsForEveryCall
  <1>1. DispatcherInv => WaitsForEveryCall
    BY DEF DispatcherInv, RpcInv
  <1> QED
    BY <1>1, DispatcherInvHolds, PTL

-----------------------------------------------------------------------------
(* Nobody is left waiting                                                   *)

\* What a waiting call rests on: a released waiter has scheduled the caller's wake-up, the
\* timer its handle, and a waiter not yet released some task or callback to release it.
Pending == pc = "waiting" /\ waiter = "pending"
Held ==
  /\ pc = "waiting" /\ waiter # "pending" => Has(ready, Resume)
  /\ pc = "waiting" /\ timer = "due" => Has(ready, Timeout)
  /\ Pending => timer # "fired" /\ ~cancelled /\ Left # {}

\* A call that must return: what Returns says of it.
MustReturn == pc = "waiting" /\ (timer # "off" \/ cancelled \/ \A k \in awaited : task[k] # "pending")

\* The call has a way on: its wake-up is scheduled, or a handle that looks after it, or
\* its timer runs.
WakeUpScheduled ==
  IF waiter = "pending"
  THEN \/ timer = "armed"
       \/ timer = "due" /\ Has(ready, Timeout)
       \/ \E k \in awaited : Has(ready, Callback(k))
  ELSE Has(ready, Resume)
CallersWakeUp == MustReturn => WakeUpScheduled

\* A batch that is gathered has a way on: a call still runs, or a handle that ends the
\* waiting is scheduled, or the results are there to respond with.
BatchesGoOn ==
  phase = "gathering" =>
    \/ pc = "returned"
    \/ pc = "waiting" /\ \/ \E k \in awaited : task[k] = "pending"
                         \/ WakeUpScheduled

\* The release of a waiter schedules the caller, and takes no other handle away.
LEMMA ReleaseSchedules ==
  ASSUME NEW how \in {"done", "cancelled"}, NEW rest \in Seq(Handles), Release(how, rest)
  PROVE  /\ waiter' # "pending"
         /\ waiter = "pending" => Has(ready', Resume)
         /\ waiter # "pending" => ready' = rest
         /\ \A handle : Has(rest, handle) => Has(ready', handle)
  <1>1. CASE waiter = "pending"
    <2>1. waiter' = how /\ ready' = Append(rest, Resume) /\ Resume \in Handles
      BY <1>1 DEF Release, Handles
    <2> QED
      BY <1>1, <2>1, AppendHas
  <1>2. CASE waiter # "pending"
    BY <1>2 DEF Release
  <1> QED
    BY <1>1, <1>2

LEMMA TaskEndsHolds ==
  ASSUME GatherInv, Held, NEW k \in Keys, NEW outcome \in Outcomes, TaskEnds(k, outcome)
  PROVE  Held'
  <1>1. /\ task[k] = "pending" /\ task' = [task EXCEPT ![k] = outcome]
        /\ ready' = IF k \in watched THEN Append(ready, Callback(k)) ELSE ready
        /\ UNCHANGED <<pc, watched, waiter, timer, cancelled>>
    BY DEF TaskEnds
  <1>2. ready \in Seq(Handles) /\ Callback(k) \in Handles /\ task \in [Keys -> Outcomes \cup {"none", "pending"}]
    BY DEF GatherInv, Typed, Handles
  <1>3. /\ \A h : Has(ready, h) => Has(ready', h)
        /\ k \in watched => Has(ready', Callback(k))
    BY <1>1, <1>2, AppendHas
  <1>4. Left # {} => Left' # {}
    <2> SUFFICES ASSUME NEW j \in Left PROVE j \in Left'
      OBVIOUS
    <2>1. CASE j = k
      BY <1>1, <1>3, <2>1 DEF Left
    <2>2. CASE j # k
      BY <1>1, <1>2, <1>3, <2>2 DEF Left
    <2> QED
      BY <2>1, <2>2
  <1> QED
    BY <1>1, <1>3, <1>4 DEF Held, Pending

LEMMA TimeIsUpHolds ==
  ASSUME GatherInv, Held, TimeIsUp
  PROVE  Held'
  <1>1. /\ timer' = "due" /\ ready' = Append(ready, Timeout)
        /\ UNCHANGED <<pc, task, watched, waiter, cancelled>>
    BY DEF TimeIsUp
  <1>2. ready \in Seq(Handles) /\ Timeout \in Handles
    BY DEF GatherInv, Typed, Handles
  <1>3. Has(ready', Timeout) /\ \A h : Has(ready, h) => Has(ready', h)
    BY <1>1, <1>2, AppendHas
  <1>4. Left # {} => Left' # {}
    BY <1>1, <1>3 DEF Left
  <1> QED
    BY <1>1, <1>3, <1>4 DEF Held, Pending

LEMMA CancelCallerHolds ==
  ASSUME GatherInv, Held, CancelCaller
  PROVE  Held'
  <1>1. /\ pc = "waiting" /\ cancelled' = TRUE /\ Release("cancelled", ready)
        /\ UNCHANGED <<pc, timer>>
    BY DEF CancelCaller
  <1>2. /\ waiter' # "pending" /\ (waiter = "pending" => Has(ready', Resume))
        /\ waiter # "pending" => ready' = ready
        /\ \A h : Has(ready, h) => Has(ready', h)
    BY <1>1, ReleaseSchedules DEF GatherInv, Typed
  <1> QED
    BY <1>1, <1>2 DEF Held, Pending

LEMMA ReleaseWaiterHolds ==
  ASSUME GatherInv, Held, ReleaseWaiter
  PROVE  Held'
  <1> DEFINE rest == Tail(ready)
  <1>1. /\ ready # <<>> /\ Head(ready) = Timeout
        /\ IF timer = "due" THEN timer' = "fired" /\ Release("done", rest)
           ELSE ready' = rest /\ UNCHANGED <<timer, waiter>>
        /\ UNCHANGED <<pc, task, watched, cancelled>>
    BY DEF ReleaseWaiter
  <1>2. rest \in Seq(Handles) /\ \A h : h # Timeout /\ Has(ready, h) => Has(rest, h)
    BY <1>1, TailHas DEF GatherInv, Typed
  <1> HIDE DEF rest
  <1>3. Has(ready, Resume) => Has(rest, Resume)
    BY <1>2, HandlesDiffer
  <1>4. CASE timer = "due"
    <2>1. timer' = "fired" /\ Release("done", rest)
      BY <1>1, <1>4
    <2>2. waiter' # "pending" /\ (waiter = "pending" => Has(ready', Resume)) /\ (waiter # "pending" => ready' = rest)
      BY <1>2, <2>1, ReleaseSchedules
    <2> QED
      BY <1>1, <1>3, <2>1, <2>2 DEF Held, Pending
  <1>5. CASE timer # "due"
    <2>1. ready' = rest /\ UNCHANGED <<pc, task, watched, timer, waiter, cancelled>>
      BY <1>1, <1>5
    <2>2. Left # {} => Left' # {}
      BY <1>2, <2>1, HandlesDiffer DEF Left
    <2> QED
      BY <1>3, <1>5, <2>1, <2>2 DEF Held, Pending
  <1> QED
    BY <1>4, <1>5

LEMMA CompletionCallbackHolds ==
  ASSUME GatherInv, Held, NEW k \in Keys, CompletionCallback(k)
  PROVE  Held'
  <1> DEFINE rest == Tail(ready)
             enough == Enough(k, counter - 1)
  <1>1. /\ ready # <<>> /\ Head(ready) = Callback(k)
        /\ IF enough THEN TimerOff /\ Release("done", rest)
           ELSE ready' = rest /\ UNCHANGED <<timer, waiter>>
        /\ UNCHANGED <<pc, task, watched, cancelled>>
    BY DEF CompletionCallback
  <1>2. /\ rest \in Seq(Handles) /\ Has(ready, Callback(k))
        /\ \A h : h # Callback(k) /\ Has(ready, h) => Has(rest, h)
    BY <1>1, TailHas DEF GatherInv, Typed
  <1> HIDE DEF rest
  <1>3. Has(ready, Resume) => Has(rest, Resume)
    BY <1>2, HandlesDiffer
  <1>4. Has(ready, Timeout) => Has(rest, Timeout)
    BY <1>2, HandlesDiffer
  <1>5. CASE enough
    <2>1. timer' \in {timer, "off"} /\ timer' # "due"
      BY <1>1, <1>5 DEF TimerOff
    <2>2. waiter' # "pending" /\ (waiter = "pending" => Has(ready', Resume)) /\ (waiter # "pending" => ready' = rest)
      BY <1>1, <1>2, <1>5, ReleaseSchedules
    <2> QED
      BY <1>1, <1>3, <2>1, <2>2 DEF Held, Pending
  <1>6. CASE ~enough
    <2>1. ready' = rest /\ UNCHANGED <<pc, task, watched, timer, waiter, cancelled>> /\ counter - 1 > 0
      BY <1>1, <1>6 DEF Enough, GatherInv, Typed
    <2>2. Pending => Left' # {}
      <3> SUFFICES ASSUME Pending PROVE Left' # {}
        OBVIOUS
      <3>1. counter = Cardinality(Left) /\ counter > 1
        BY <2>1 DEF Pending, GatherInv, Exact, Typed
      <3>2. k \in Left
        BY <1>2 DEF Left
      <3>3. Cardinality(Left \ {k}) = Cardinality(Left) - 1
        BY <3>2, LeftIsFinite, FS_RemoveElement
      <3>4. PICK j \in Left : j # k
        <4>1. Left \ {k} # {}
          BY <3>1, <3>3, LeftIsFinite, FS_EmptySet
        <4> QED
          BY <4>1
      <3>5. Callback(j) # Callback(k)
        BY <3>4, HandlesDiffer
      <3>6. j \in Left'
        BY <1>2, <2>1, <3>4, <3>5 DEF Left
      <3> QED
        BY <3>6
    <2> QED
      BY <1>3, <1>4, <2>1, <2>2 DEF Held, Pending
  <1> QED
    BY <1>5, <1>6

LEMMA GatherHolds ==
  ASSUME GatherInv, Held, NEW f \in {"gather_awaitables", "gather_coroutines"},
         NEW keys \in SUBSET Keys, NEW done \in SUBSET Keys, NEW condition \in Conditions,
         NEW timed \in BOOLEAN, Gather(f, keys, done, condition, timed)
  PROVE  Held'
  <1>1. /\ pc = "idle" /\ keys # {} /\ done \subseteq keys /\ watched' = keys
        /\ task' = [k \in Keys |-> IF k \in done THEN "ok" ELSE IF k \in keys THEN "pending" ELSE "none"]
        /\ counter' = Cardinality(keys) /\ waiter' = "pending" /\ pc' = "waiting"
        /\ timer' \in {"armed", "off"} /\ cancelled' = cancelled
    BY DEF Gather
  <1>2. ~cancelled
    BY <1>1 DEF GatherInv, Stages
  <1>3. IsFiniteSet(keys) /\ Cardinality(keys) \in Nat /\ Cardinality(keys) # 0
    BY <1>1, GatherAssumption, FS_Subset, FS_CardinalityType, FS_EmptySet
  <1>4. GatherInv'
    BY GatherKeeps
  <1>5. counter' = Cardinality(Left')
    BY <1>1, <1>4 DEF GatherInv, Exact
  <1>6. Left' # {}
    BY <1>1, <1>3, <1>5, FS_EmptySet
  <1> QED
    BY <1>1, <1>2, <1>6 DEF Held, Pending

LEMMA HeldStays ==
  ASSUME GatherInv, Held, StepOfCall
  PROVE  Held'
  <1>1. CASE UNCHANGED gatherVars
    BY <1>1 DEF gatherVars, Held, Pending, Left
  <1>2. CASE RunHandle
    <2>1. CASE Finalize \/ WaitCancelled
      BY <2>1 DEF Finalize, WaitCancelled, Held, Pending
    <2> QED
      BY <1>2, <2>1, CompletionCallbackHolds, ReleaseWaiterHolds DEF RunHandle
  <1> QED
    BY <1>1, <1>2, GatherHolds, TaskEndsHolds, TimeIsUpHolds, CancelCallerHolds DEF StepOfCall

LEMMA HeldBegins == Init => Held
  BY DEF Init, GatherInit, Held, Pending

LEMMA HeldHolds == Spec => []Held
  <1>1. GatherInv /\ AwaitsIds /\ Held /\ [Next]_vars => Held'
    BY NextIsStepOfCall, HeldStays
  <1> QED
    BY <1>1, HeldBegins, GatherInvHolds, PTL DEF Spec

\* The handle that has to end the waiting is there, unless a task still runs.
LEMMA WaitingGoesOn ==
  ASSUME GatherInv, Held, pc = "waiting"
  PROVE  WakeUpScheduled \/ \E k \in awaited : task[k] = "pending"
  <1>1. CASE waiter = "pending"
    <2>1. PICK k \in Left : TRUE
      BY <1>1 DEF Held, Pending
    <2>2. k \in awaited /\ (task[k] = "pending" \/ Has(ready, Callback(k)))
      BY <2>1 DEF Left, GatherInv, Typed, Calls
    <2> QED
      BY <1>1, <2>2 DEF WakeUpScheduled
  <1>2. CASE waiter # "pending"
    BY <1>2 DEF Held, WakeUpScheduled
  <1> QED
    BY <1>1, <1>2

\* A call that must return (its time limited, its caller cancelled or its tasks ended) has
\* the handle scheduled that lets it: completion_cb, _release_waiter and the cancellation
\* never leave a caller waiting for a release that nothing brings.
THEOREM CallersAreWoken == Spec => []CallersWakeUp
  <1>1. GatherInv /\ Held => CallersWakeUp
    <2> SUFFICES ASSUME GatherInv, Held, MustReturn PROVE WakeUpScheduled
      BY DEF CallersWakeUp
    <2>1. CASE waiter = "pending"
      BY <2>1, WaitingGoesOn DEF MustReturn, Held, Pending, WakeUpScheduled, GatherInv, Typed
    <2>2. CASE waiter # "pending"
      BY <2>2 DEF MustReturn, Held, WakeUpScheduled
    <2> QED
      BY <2>1, <2>2
  <1> QED
    BY <1>1, GatherInvHolds, HeldHolds, PTL

\* process_rpc never hangs in a batch: while it gathers, a call still runs, a handle
\* that ends the waiting is scheduled, or the results are there.
THEOREM GatheringGoesOn == Spec => []BatchesGoOn
  <1>1. DispatcherInv /\ Held => BatchesGoOn
    <2> SUFFICES ASSUME DispatcherInv, Held, phase = "gathering", pc # "returned"
                 PROVE  /\ pc = "waiting"
                        /\ (\E k \in awaited : task[k] = "pending") \/ WakeUpScheduled
      BY DEF BatchesGoOn
    <2>1. pc = "waiting"
      BY DEF DispatcherInv, RpcInv, Phases
    <2> QED
      BY <2>1, WaitingGoesOn DEF DispatcherInv
  <1> QED
    BY <1>1, DispatcherInvHolds, HeldHolds, PTL
=============================================================================
