---------------------------- MODULE MprocLogging ----------------------------
(***************************************************************************)
(* Logging from several processes (core/ayuna_core/logging/handlers.py): a *)
(* handler in each process puts records in one multiprocessing queue, and a*)
(* listener process gets them and hands them to the real handlers.  The    *)
(* main process starts the listener and stops it when it exits.            *)
(*                                                                         *)
(* A put goes to a buffer, from which a thread of the same process pickles *)
(* it into the queue's pipe: what the listener gets is a copy.             *)
(***************************************************************************)
EXTENDS Naturals, SequencesExt

CONSTANTS
  Main, Workers, Listener,  \* the processes
  Capacity,                 \* the slots of the queue
  MaxRecords,               \* bound: the records each process logs
  Faults                    \* "kill", "interrupt": a signal; "raise": a handler raises

Producers == Workers \cup {Main}

ASSUME LoggingAssumption ==
  /\ Main \notin Workers /\ Listener \notin Producers
  /\ Capacity \in Nat /\ MaxRecords \in Nat
  /\ Faults \subseteq {"kill", "interrupt", "raise"}

VARIABLES
  context,   \* __mproc_ctx, the multiprocessing context of the application
  listener,  \* the listener process, and where it is in _monitor
  record,    \* the record it handles
  stopping,  \* the call of stop() by the exit of the main process
  running,   \* the processes that run
  slots,     \* the free slots of the queue
  buffer,    \* what each process has put and not yet written
  pipe,      \* what is on its way to the listener
  jammed,    \* a process was killed as it wrote into the pipe, and holds its lock for ever
  logged,    \* how many records each process has logged
  accepted,  \* those of them that the queue took and a handler waits for
  handled,   \* the records of each process that reached a handler, in order
  lost       \* the records whose handling raised or was interrupted

vars == <<context, listener, record, stopping, running, slots, buffer, pipe, jammed, logged,
          accepted, handled, lost>>

\* An unpicklable record is one with a traceback, say.  A record of a logger that
\* has no handlers of its own in the listener's configuration reaches none: handle()
\* asks the record's own logger only, and not those above it.
Kinds == {"heard", "unheard", "unpicklable"}
NoRecord == [kind |-> "none"]
LogSentinel == [kind |-> "sentinel", copy |-> FALSE]

Init ==
  /\ context = "unset"
  /\ listener = "unborn" /\ record = NoRecord
  /\ stopping = "no"
  /\ running = Producers
  /\ slots = Capacity
  /\ buffer = [p \in Producers \cup {Listener} |-> <<>>]
  /\ pipe = <<>> /\ jammed = FALSE
  /\ logged = [p \in Producers |-> 0]
  /\ accepted = {} /\ lost = {}
  /\ handled = [p \in Producers |-> <<>>]

queue == <<slots, buffer, pipe, jammed>>
past == <<logged, accepted, handled, lost>>

-----------------------------------------------------------------------------
(* The application and its processes                                        *)

\* ayuna_app_init: a second call changes nothing.
AppInit ==
  /\ Main \in running
  /\ context = "unset"
  /\ context' \in {"fork", "spawn"}
  /\ UNCHANGED <<listener, record, stopping, running, queue, past>>

\* The handler of the main process starts the listener, if there is a context.
Start ==
  /\ Main \in running /\ stopping = "no"
  /\ listener = "unborn" /\ context # "unset"
  /\ listener' = "waiting"
  /\ UNCHANGED <<context, record, stopping, running, queue, past>>

\* put_nowait, which raises Full without a free slot.
Put(p, r) ==
  /\ slots > 0
  /\ slots' = slots - 1
  /\ buffer' = [buffer EXCEPT ![p] = Append(@, r)]

\* emit: what cannot be pickled is dropped, and so is what meets a full queue.
Emit(p, kind) ==
  /\ p \in running /\ logged[p] < MaxRecords
  /\ p = Main => stopping = "no"
  /\ logged' = [logged EXCEPT ![p] = @ + 1]
  /\ LET r == [kind |-> kind, from |-> p, number |-> logged'[p], copy |-> FALSE] IN
       \/ /\ kind # "unpicklable"
          /\ Put(p, r)
          /\ accepted' = IF kind = "heard" THEN accepted \cup {<<p, r.number>>} ELSE accepted
       \/ /\ kind = "unpicklable" \/ slots = 0
          /\ UNCHANGED <<slots, buffer, accepted>>
  /\ UNCHANGED <<context, listener, record, stopping, running, pipe, jammed, handled, lost>>

\* The queue's thread pickles what was put first, and writes it when it has the pipe's
\* lock.
Feed(p) ==
  /\ buffer[p] # <<>> /\ ~jammed
  /\ pipe' = Append(pipe, [Head(buffer[p]) EXCEPT !.copy = TRUE])
  /\ buffer' = [buffer EXCEPT ![p] = Tail(@)]
  /\ UNCHANGED <<context, listener, record, stopping, running, slots, jammed, past>>

\* What goes with a process that is killed: its buffer; and the pipe, if the kill meets the
\* thread in the middle of a write, since nobody releases the lock or ends the message.
Killed(p) ==
  /\ buffer' = [buffer EXCEPT ![p] = <<>>]
  /\ jammed' \in {jammed, jammed \/ buffer[p] # <<>>}

\* A worker ends, when its buffer is written; or is killed, with its buffer.
EndWorker(p) ==
  /\ p \in running \cap Workers
  /\ buffer[p] = <<>> \/ "kill" \in Faults
  /\ running' = running \ {p}
  /\ Killed(p)
  /\ lost' = lost \cup {<<p, buffer[p][i].number>> : i \in DOMAIN buffer[p]}
  /\ UNCHANGED <<context, listener, record, stopping, slots, pipe, logged, accepted, handled>>

Alive == listener \in {"waiting", "handling"}

\* stop(), from atexit: the sentinel, and the join.  Full raises out of it.
Stop ==
  /\ Main \in running /\ stopping = "no"
  /\ \/ Alive /\ Put(Main, LogSentinel) /\ stopping' = "joining"
     \/ (~Alive \/ slots = 0) /\ UNCHANGED <<slots, buffer>> /\ stopping' = "done"
  /\ UNCHANGED <<context, listener, record, running, pipe, jammed, past>>

Join ==
  /\ stopping = "joining" /\ ~Alive
  /\ stopping' = "done"
  /\ UNCHANGED <<context, listener, record, running, queue, past>>

-----------------------------------------------------------------------------
(* The listener: _monitor                                                   *)

\* The sentinel is recognised by its name.
DequeueByName ==
  /\ listener = "waiting" /\ pipe # <<>>
  /\ pipe' = Tail(pipe) /\ slots' = slots + 1
  /\ IF Head(pipe).kind = "sentinel"
     THEN listener' = "ended" /\ UNCHANGED record
     ELSE listener' = "handling" /\ record' = Head(pipe)
  /\ UNCHANGED <<context, stopping, running, buffer, jammed, past>>

\* The record is compared with the sentinel by identity; at the sentinel (or at
\* LOOP_BREAK_MSG, which nothing here puts) handlers are closed and the loop ends.
Dequeue ==
  /\ listener = "waiting" /\ pipe # <<>>
  /\ pipe' = Tail(pipe) /\ slots' = slots + 1
  /\ IF Head(pipe) = LogSentinel
     THEN listener' = "ended" /\ UNCHANGED record
     ELSE listener' = "handling" /\ record' = Head(pipe)
  /\ UNCHANGED <<context, stopping, running, buffer, jammed, past>>

\* The handlers of the record's logger, if it has any, take it.
Handle ==
  /\ listener = "handling"
  /\ listener' = "waiting" /\ record' = NoRecord
  /\ handled' = IF record.kind # "heard" THEN handled
                ELSE [handled EXCEPT ![record.from] = Append(@, record.number)]
  /\ UNCHANGED <<context, stopping, running, queue, logged, accepted, lost>>

Unhandled == IF record.kind = "heard" THEN {<<record.from, record.number>>} ELSE {}

\* A record that a handler raises on is put back, to be tried again.
HandleRetries ==
  /\ "raise" \in Faults
  /\ listener = "handling" /\ record.kind = "heard"
  /\ listener' = "waiting" /\ record' = NoRecord
  /\ Put(Listener, record)
  /\ UNCHANGED <<context, stopping, running, pipe, jammed, past>>

\* A handler raises: it is printed, and the loop goes on with the next record.
HandleRaises ==
  /\ "raise" \in Faults
  /\ listener = "handling" /\ record.kind = "heard"
  /\ listener' = "waiting" /\ record' = NoRecord
  /\ lost' = lost \cup Unhandled
  /\ UNCHANGED <<context, stopping, running, queue, logged, accepted, handled>>

\* KeyboardInterrupt: the listener puts the sentinel itself, and goes on; a full
\* queue raises Full out of the loop.
Interrupt ==
  /\ "interrupt" \in Faults
  /\ Alive
  /\ record' = NoRecord
  /\ lost' = lost \cup Unhandled
  /\ \/ Put(Listener, LogSentinel) /\ listener' = "waiting"
     \/ slots = 0 /\ listener' = "dead" /\ UNCHANGED <<slots, buffer>>
  /\ UNCHANGED <<context, stopping, running, pipe, jammed, logged, accepted, handled>>

KillListener ==
  /\ "kill" \in Faults
  /\ Alive
  /\ listener' = "dead"
  /\ Killed(Listener)
  /\ UNCHANGED <<context, record, stopping, running, slots, pipe, past>>

ListenerStep == Dequeue \/ Handle \/ HandleRaises

Next ==
  \/ AppInit \/ Start \/ Stop \/ Join
  \/ \E p \in Producers, kind \in Kinds : Emit(p, kind)
  \/ \E p \in Producers \cup {Listener} : Feed(p)
  \/ \E p \in Workers : EndWorker(p)
  \/ ListenerStep \/ Interrupt \/ KillListener

\* The listener and the queue's threads go on, and stop() does when it can.
Fairness ==
  /\ WF_vars(ListenerStep) /\ WF_vars(Join)
  /\ \A p \in Producers \cup {Listener} : WF_vars(Feed(p))

Spec == Init /\ [][Next]_vars /\ Fairness

-----------------------------------------------------------------------------
(* Properties                                                               *)

\* The records of one process reach the handlers in the order it logged them, and
\* none does twice, however the processes interleave and whatever raises.
InOrder == \A p \in Producers : \A i, j \in DOMAIN handled[p] :
             i < j => handled[p][i] < handled[p][j]

\* A process holds a record back because another was killed with the pipe's lock.
Stuck(p, n) ==
  jammed /\ Contains(buffer[p], [kind |-> "heard", from |-> p, number |-> n, copy |-> FALSE])

\* A record that the queue took reaches a handler, unless handling it raised or was
\* interrupted, or its process or the listener was killed: also those that other
\* processes log while the main process stops the listener, and those that were in the
\* pipe when a process was killed in the middle of a write (those still in a buffer are
\* stuck there).
EveryRecordHandled ==
  \A p \in Producers, n \in 1..MaxRecords :
    <<p, n>> \in accepted ~>
      \/ Contains(handled[p], n) \/ <<p, n>> \in lost \/ Stuck(p, n)
      \/ listener \in {"unborn", "dead"}

\* stop() "Sends the sentinel record and waits for the process to terminate": it
\* comes back.
StopReturns == stopping = "joining" ~> stopping = "done"
=============================================================================
