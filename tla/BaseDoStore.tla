---------------------------- MODULE BaseDoStore ----------------------------
(***************************************************************************)
(* What the object stores of dostore/ayuna_dostore have in common: a bucket*)
(* (or a directory), the calls that are under way, and the thread pool and *)
(* the close() of BaseDoStore (base.py).                                   *)
(*                                                                         *)
(* A call runs on the event loop until it awaits; close() holds the loop's *)
(* thread while it waits for the pool.                                     *)
(***************************************************************************)
EXTENDS Integers, Sequences, FiniteSets

CONSTANTS
  Keys,
  MaxCalls,                       \* how many calls of the store's methods there are
  Concurrency,                    \* dostore_env().concurrency, the threads of the pool
  Absent, Old, Partial, Garbled   \* what a key holds besides the data of a put

ASSUME CallsAssumption == MaxCalls \in Nat
ASSUME ConcurrencyAssumption == Concurrency \in Nat \ {0}
ASSUME AbsentAssumption == Absent \notin {Partial, Garbled} \cup 1..MaxCalls

VARIABLES
  kind,       \* config.typid, which create() turns into a class
  readonly,   \* config.is_readonly, of the unix-fs store
  bucket,     \* the object under each key
  call,       \* what each call asks for
  pc,         \* where each call is
  written,    \* the puts that return "Written ..."; of other results nothing is kept
  deserted,   \* calls whose caller was cancelled while their work went on
  queue,      \* the work queue of the thread pool
  executor,   \* _thread_executor: open, being shut down, or None
  kept,       \* puts without overwrite whose key has held an object since they began
  rivals      \* for each put the other changes of its key that were under way or came later

config == <<kind, readonly>>
past == <<kept, rivals>>
baseVars == <<config, bucket, call, pc, written, deserted, queue, executor, past>>

PooledKinds == {"unix-fs", "aws-s3", "gcp-storage"}
Kinds == PooledKinds \cup {"azure-blob"}

\* Calls are numbered in the order they begin; a put's data is named after its call.
Calls == 1..MaxCalls

\* A file is partial while it is being written; two writers can garble their data.
Contents == Calls \cup {Absent, Old, Partial, Garbled}

NoRequest == [op |-> "none"]
Close == [op |-> "close"]

Requests ==
  [op : {"get", "delete"}, key : Keys] \cup [op : {"put"}, key : Keys, overwrite : BOOLEAN]
  \cup {Close}

Places == {"out", "queued", "run", "write", "fill", "orphan", "returned",
           "probe", "create", "remote", "closing", "uncontain", "unset", "shutting", "joining",
           "back"}

\* A thread of the pool has the call.
Running == {x \in Calls : pc[x] \in {"run", "write", "fill", "orphan"}}

\* shutdown(wait=True) keeps the loop's thread to itself.
LoopFree == executor # "draining"

Of(op) == {x \in Calls : call[x].op = op}
OnKey(k) == {x \in Of("get") \cup Of("put") \cup Of("delete") : call[x].key = k}

BaseInit ==
  /\ kind \in Kinds
  /\ readonly \in BOOLEAN /\ (readonly => kind = "unix-fs")
  /\ \E v \in {Absent, Old} : bucket = [k \in Keys |-> v]
  /\ call = [c \in Calls |-> NoRequest]
  /\ pc = [c \in Calls |-> "out"]
  /\ written = {}
  /\ deserted = {} /\ kept = {}
  /\ rivals = [c \in Calls |-> {}]
  /\ queue = <<>>
  /\ executor = "open"

-----------------------------------------------------------------------------
(* Steps that calls of every store are made of                              *)

Goto(c, place) == pc' = [pc EXCEPT ![c] = place]

Changes == Of("put") \cup Of("delete")

\* The call begins: its coroutine runs until it first waits for something.
Begins(c, r) ==
  /\ pc[c] = "out" /\ LoopFree
  /\ \A x \in 1..(c - 1) : pc[x] # "out"
  /\ call' = [call EXCEPT ![c] = r]
  /\ kept' = kept \cup {x \in {c} : r.op = "put" /\ ~r.overwrite /\ bucket[r.key] # Absent}
  /\ rivals' = [x \in Calls |->
                  IF x = c THEN {y \in Changes : r.op = "put" /\ y \in OnKey(r.key) /\ pc[y] # "back"}
                  ELSE rivals[x] \cup {y \in {c} : r.op \in {"put", "delete"} /\ x \in Of("put")
                                                 /\ call[x].key = r.key}]
  /\ UNCHANGED <<config, bucket, deserted>>

\* The thread or the service is done with the call and the loop has to be told,
\* unless the caller was cancelled.
Returns(c) == Goto(c, IF c \in deserted THEN "back" ELSE "returned")
Says(c) == written' = written \cup ({c} \ deserted)

\* The loop resumes the coroutine that awaited the result.
Deliver(c) ==
  /\ pc[c] = "returned" /\ LoopFree
  /\ Goto(c, "back")
  /\ UNCHANGED <<config, bucket, call, written, deserted, queue, executor, past>>

\* An object is stored under the key of the call.
Stores(c, v) == bucket' = [bucket EXCEPT ![call[c].key] = v]

\* The object under the key of the call is gone.
Removes(c) ==
  /\ Stores(c, Absent)
  /\ kept' = kept \ OnKey(call[c].key)
  /\ UNCHANGED rivals

-----------------------------------------------------------------------------
(* BaseDoStore.close(), after what each store does before                   *)

\* The pool refuses work from now on, and the loop waits for its threads.
ShutdownPool(c) ==
  /\ pc[c] = "shutting" /\ LoopFree
  /\ IF executor = "none"
     THEN Goto(c, "back") /\ UNCHANGED executor
     ELSE Goto(c, "joining") /\ executor' = "draining"
  /\ UNCHANGED <<config, bucket, call, written, deserted, queue, past>>

\* close() returns without waiting for the threads.
JoinPoolHasty(c) ==
  /\ pc[c] = "joining"
  /\ executor' = "none"
  /\ Goto(c, "back")
  /\ UNCHANGED <<config, bucket, call, written, deserted, queue, past>>

JoinPool(c) ==
  /\ pc[c] = "joining"
  /\ queue = <<>> /\ Running = {}
  /\ executor' = "none"
  /\ Goto(c, "back")
  /\ UNCHANGED <<config, bucket, call, written, deserted, queue, past>>

=============================================================================
