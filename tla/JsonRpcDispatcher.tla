------------------------- MODULE JsonRpcDispatcher -------------------------
(***************************************************************************)
(* process_rpc (core/ayuna_core/jsonrpc/dispatcher.py): one payload, single*)
(* or batch, dispatched on an event loop.  A batch is read item by item    *)
(* without giving the loop away; the tasks of its calls are then awaited   *)
(* through gather_awaitables, keyed by request id, and their results are   *)
(* turned into responses.  Or the loop's user calls gather_awaitables      *)
(* or gather_coroutines itself, with any keys, conditions and timeouts.    *)
(*                                                                         *)
(* Some of the keys of GatherAwaitables are the request ids.               *)
(***************************************************************************)
EXTENDS GatherAwaitables

CONSTANTS
  Ids,       \* the keys that requests have as ids
  NoId,      \* NOID, the id of a notification
  Null,      \* the null id of a response to what is not a request
  MaxBatch   \* the most items in a batch

ASSUME DispatcherAssumption ==
  /\ Ids \subseteq Keys /\ NoId \notin Keys /\ Null \notin Keys /\ NoId # Null
  /\ MaxBatch \in Nat \ {0}

VARIABLES
  phase,      \* where process_rpc is; "asserted" when an assertion has failed;
              \* "direct" when it is not called but gather_awaitables is
  payload,    \* the items received
  cursor,     \* the item of the loop over the batch
  awaitables, \* request id -> position of the item whose task is awaited
  order,      \* its keys, in the order of the dictionary
  spare,      \* what the tasks nobody awaits have come to, by position
  answers     \* the responses, in order: their ids and what they report

rpcVars == <<phase, payload, cursor, awaitables, order, spare, answers>>
vars == <<gatherVars, rpcVars>>

\* A request has a method, known or not, and may have an id; what the model of a
\* request rejects is "invalid"; what is not even a mapping is "alien".
Requests == [kind : {"call", "unknown"}, id : Ids \cup {NoId}]
Invalid == [kind |-> "invalid", id |-> Null]
Alien == [kind |-> "alien", id |-> Null]
Payloads == UNION {[1..n -> Requests \cup {Invalid, Alien}] : n \in 0..MaxBatch}

Reports == {"empty", "invalid", "unknown", "handled", "failed", "cancelled", "pending"}
Answer(id, report) == [id |-> id, report |-> report]

\* A notification is answered like any other request.
PreparedForAll(id, report) == <<Answer(id, report)>>

\* _prepared_response: nothing for a notification.
Prepared(id, report) == IF id = NoId THEN <<>> ELSE <<Answer(id, report)>>

Init ==
  /\ GatherInit
  /\ phase \in {"idle", "direct"}
  /\ payload = <<>> /\ cursor = 1
  /\ awaitables = <<>> /\ order = <<>>
  /\ spare = [n \in 1..MaxBatch |-> "none"]
  /\ answers = <<>>

-----------------------------------------------------------------------------
(* One request.                                                             *)

\* A falsy payload is answered with an error.
Empty ==
  /\ phase = "idle"
  /\ phase' = "answered"
  /\ answers' = <<Answer(Null, "empty")>>
  /\ UNCHANGED <<payload, cursor, awaitables, order, spare, gatherVars>>

\* A mapping goes to _dispatch_single, which awaits the handler itself.
Single(item) ==
  /\ phase = "idle"
  /\ item # Alien
  /\ payload' = <<item>>
  /\ IF item.kind = "call"
     THEN phase' = "handling" /\ UNCHANGED answers
     ELSE phase' = "answered" /\ answers' = Prepared(item.id, item.kind)
  /\ UNCHANGED <<cursor, awaitables, order, spare, gatherVars>>

\* The handler answers: a registered one makes a JsonRpcError of every Exception.
SingleHandled ==
  /\ phase = "handling"
  /\ phase' = "answered"
  /\ answers' = Prepared(payload[1].id, "handled")
  /\ UNCHANGED <<payload, cursor, awaitables, order, spare, gatherVars>>

\* A cancellation, of the caller or by the method, is no Exception; nothing catches what
\* rpc.discover raises; and a result JSON cannot carry makes to_json_dict raise.
SingleRaises ==
  /\ phase = "handling"
  /\ phase' = "raised"
  /\ UNCHANGED <<payload, cursor, awaitables, order, spare, answers, gatherVars>>

-----------------------------------------------------------------------------
(* A batch.                                                                 *)

Batch(items) ==
  /\ phase = "idle" /\ items # <<>>
  /\ phase' = "reading"
  /\ payload' = items
  /\ UNCHANGED <<cursor, awaitables, order, spare, answers, gatherVars>>

Item == payload[cursor]
Reading == phase = "reading" /\ cursor <= Len(payload)
NextItem == cursor' = cursor + 1 /\ UNCHANGED phase

\* The tasks a raised batch leaves behind run all the same.
Abandoned == [n \in DOMAIN spare |->
                IF \E k \in DOMAIN awaitables : awaitables[k] = n THEN "pending" ELSE spare[n]]

Raise(why) ==
  /\ phase' = why
  /\ spare' = Abandoned
  /\ UNCHANGED <<cursor, awaitables, order, answers>>

\* JsonRpcRequest(**item) raises ValidationError, or TypeError, which escapes.
ReadInvalid ==
  /\ Reading
  /\ \/ /\ Item = Invalid
        /\ answers' = Append(answers, Answer(Null, "invalid"))
        /\ NextItem /\ UNCHANGED <<awaitables, order, spare>>
     \/ Item = Alien /\ Raise("raised")
  /\ UNCHANGED <<payload, gatherVars>>

\* No handler: an error is prepared, and asserted to be one.
ReadUnknown ==
  /\ Reading /\ Item.kind = "unknown"
  /\ IF Prepared(Item.id, "unknown") = <<>>
     THEN Raise("asserted")
     ELSE /\ answers' = answers \o Prepared(Item.id, "unknown")
          /\ NextItem /\ UNCHANGED <<awaitables, order, spare>>
  /\ UNCHANGED <<payload, gatherVars>>

\* A notification's task joins the awaited ones, under some id.
ReadNotificationAwaited ==
  /\ Reading /\ Item.kind = "call" /\ Item.id = NoId
  /\ \E k \in Ids : /\ awaitables' = (k :> cursor) @@ awaitables
                    /\ order' = IF k \in DOMAIN awaitables THEN order ELSE Append(order, k)
  /\ NextItem
  /\ UNCHANGED <<payload, spare, answers, gatherVars>>

\* A notification's task is made and let go.
ReadNotification ==
  /\ Reading /\ Item.kind = "call" /\ Item.id = NoId
  /\ spare' = [spare EXCEPT ![cursor] = "pending"]
  /\ NextItem
  /\ UNCHANGED <<payload, awaitables, order, answers, gatherVars>>

\* A call's task is awaited under its id, in the place of an earlier one's.
ReadCall ==
  /\ Reading /\ Item.kind = "call" /\ Item.id \in Ids
  /\ awaitables' = [k \in DOMAIN awaitables \cup {Item.id} |->
                      IF k = Item.id THEN cursor ELSE awaitables[k]]
  /\ order' = IF Item.id \in DOMAIN awaitables THEN order ELSE Append(order, Item.id)
  /\ spare' = IF Item.id \in DOMAIN awaitables
              THEN [spare EXCEPT ![awaitables[Item.id]] = "pending"] ELSE spare
  /\ NextItem
  /\ UNCHANGED <<payload, answers, gatherVars>>

\* The responses are prepared as soon as one call is done.
EndOfBatchHasty ==
  /\ phase = "reading" /\ cursor > Len(payload)
  /\ IF awaitables = <<>>
     THEN phase' = "answered" /\ UNCHANGED gatherVars
     ELSE /\ phase' = "gathering"
          /\ Gather("gather_awaitables", DOMAIN awaitables, {}, "ANY_DONE", FALSE)
  /\ UNCHANGED <<payload, cursor, awaitables, order, spare, answers>>

\* The batch is read: wait for all its calls, if it has any.
EndOfBatch ==
  /\ phase = "reading" /\ cursor > Len(payload)
  /\ IF awaitables = <<>>
     THEN phase' = "answered" /\ UNCHANGED gatherVars
     ELSE /\ phase' = "gathering"
          /\ Gather("gather_awaitables", DOMAIN awaitables, {}, "ALL_DONE", FALSE)
  /\ UNCHANGED <<payload, cursor, awaitables, order, spare, answers>>

-----------------------------------------------------------------------------
\* A method ends: with a JsonRpcSuccess or a JsonRpcError, or cancelled; or, if it is
\* rpc.discover, which is not wrapped as the registered ones are, with what it raised.
MethodEnds ==
  /\ phase \notin {"reading", "direct"}
  /\ \/ \E k \in Keys, outcome \in Outcomes :
          TaskEnds(k, outcome) /\ UNCHANGED spare
     \/ \E n \in DOMAIN spare :
          /\ spare[n] = "pending"
          /\ spare' = [spare EXCEPT ![n] = "ended"]
          /\ UNCHANGED gatherVars
  /\ UNCHANGED <<phase, payload, cursor, awaitables, order, answers>>

\* The task of process_rpc is cancelled while gather_awaitables waits.
CallerCancelled ==
  /\ phase = "gathering" /\ CancelCaller
  /\ UNCHANGED rpcVars

LoopRuns ==
  /\ phase = "gathering" /\ RunHandle
  /\ UNCHANGED rpcVars

\* The user awaits the call without process_rpc, and may be cancelled.
AwaitDirectly ==
  /\ phase = "direct" /\ GatherNext
  /\ UNCHANGED rpcVars

ReportOf(k) == IF results[k] = "ok" THEN "handled" ELSE results[k]

\* The dictionary of the results keeps the order of the awaitables.
Results == [n \in 1..Len(order) |-> Answer(order[n], ReportOf(order[n]))]

\* What was not done by the time gather_awaitables returned is left out.
RespondDoneOnly ==
  /\ phase = "gathering" /\ pc = "returned"
  /\ phase' = "answered"
  /\ answers' = answers \o SelectSeq(Results, LAMBDA a : a.report = "handled")
  /\ UNCHANGED <<payload, cursor, awaitables, order, spare, gatherVars>>

\* The responses of the calls that were awaited follow those of the bad items.
Respond ==
  /\ phase = "gathering" /\ pc = "returned"
  /\ phase' = "answered"
  /\ answers' = answers \o Results
  /\ UNCHANGED <<payload, cursor, awaitables, order, spare, gatherVars>>

\* One result that JSON cannot carry costs the batch all its responses.
RespondRaises ==
  /\ phase = "gathering" /\ pc = "returned"
  /\ \E k \in DOMAIN results : results[k] = "ok"
  /\ phase' = "raised"
  /\ UNCHANGED <<payload, cursor, awaitables, order, spare, answers, gatherVars>>

-----------------------------------------------------------------------------
Read == ReadInvalid \/ ReadUnknown \/ ReadNotification \/ ReadCall \/ EndOfBatch

Proceed == Read \/ LoopRuns \/ Respond \/ RespondRaises

Next ==
  \/ Empty
  \/ \E item \in Requests \cup {Invalid} : Single(item)
  \/ SingleHandled \/ SingleRaises
  \/ \E items \in Payloads : Batch(items)
  \/ CallerCancelled
  \/ MethodEnds
  \/ AwaitDirectly
  \/ Proceed

Spec == Init /\ [][Next]_vars

\* The loop runs what is ready, methods of requests end, and time passes.  Nothing
\* says that a task awaited directly ends.
FairSpec ==
  /\ Spec
  /\ WF_vars(phase = "direct" /\ RunHandle /\ UNCHANGED rpcVars)
  /\ WF_vars(phase = "direct" /\ TimeIsUp /\ UNCHANGED rpcVars)
  /\ WF_vars(Proceed) /\ WF_vars(MethodEnds) /\ WF_vars(SingleHandled \/ SingleRaises)

-----------------------------------------------------------------------------
TypeOK ==
  /\ GatherTypeOK
  /\ phase \in {"idle", "direct", "handling", "reading", "gathering", "answered", "raised", "asserted"}
  /\ payload \in Payloads /\ cursor \in 1..(MaxBatch + 1)
  /\ DOMAIN awaitables \subseteq Keys
  /\ \A k \in DOMAIN awaitables : payload[awaitables[k]] = [kind |-> "call", id |-> k]
  /\ order \in Seq(DOMAIN awaitables) /\ Len(order) = Cardinality(DOMAIN awaitables)
  /\ spare \in [1..MaxBatch -> {"none", "pending", "ended"}]
  /\ \A n \in 1..Len(answers) :
       answers[n].id \in Keys \cup {Null, NoId} /\ answers[n].report \in Reports

Asking(id) == {n \in 1..Len(payload) : payload[n] \in Requests /\ payload[n].id = id}
AnswersTo(id) == {n \in 1..Len(answers) : answers[n].id = id}

\* A payload that is answered is answered in full: every id that was asked for
\* has a response, and exactly one if no two requests share it; no id that was
\* not asked for has one.
EveryRequestAnswered ==
  phase = "answered" =>
    \A k \in Keys :
      /\ Asking(k) = {} <=> AnswersTo(k) = {}
      /\ Cardinality(Asking(k)) = 1 => Cardinality(AnswersTo(k)) = 1

\* A notification is never answered, whatever becomes of it: every response
\* carries the id of a request, or is the null one of an item that is none.
NotificationsSilent ==
  phase = "answered" =>
    /\ AnswersTo(NoId) = {}
    /\ payload # <<>> =>
         Cardinality(AnswersTo(Null)) = Cardinality({n \in 1..Len(payload) : payload[n] = Invalid})

\* A batch is answered after all its calls have ended; if its caller was cancelled, which
\* process_rpc answers all the same, after they have ended or been told to stop.  A response
\* says that its call is pending only then, and of no call but one that was told to stop.
WaitsForEveryCall ==
  phase = "answered" =>
    /\ \A k \in awaited : task[k] \in Outcomes \/ (cancelled /\ k \in stopping)
    /\ \A n \in 1..Len(answers) :
         answers[n].report = "pending" => cancelled /\ answers[n].id \in stopping

\* A payload is answered or refused once its methods have ended; and a call of
\* gather_awaitables returns as it should, whoever makes it.
Settles ==
  /\ phase \notin {"idle", "direct"} ~> phase \in {"answered", "raised", "asserted"}
  /\ Returns
=============================================================================
