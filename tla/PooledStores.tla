---------------------------- MODULE PooledStores ----------------------------
(***************************************************************************)
(* The stores that do their work in the pool of BaseDoStore: UnixFsStore   *)
(* (unix_fs.py, over core's fileops.py), AwsS3Store (aws_s3.py) and        *)
(* GoogleCloudStore (google_cs.py).                                        *)
(***************************************************************************)
EXTENDS BaseDoStore

\* A call that writes asks a read-only store in vain; one that comes after
\* close() finds no pool; the others put their work in the pool's queue.
BeginPooled(c) ==
  /\ kind \in PooledKinds
  /\ \E r \in Requests \ {Close} :
       /\ Begins(c, r)
       /\ IF executor = "none" \/ (readonly /\ r.op # "get")
          THEN Goto(c, "back") /\ UNCHANGED queue
          ELSE Goto(c, "queued") /\ queue' = Append(queue, c)
  /\ UNCHANGED <<written, executor>>

\* close() yields to the loop before it goes on; closing the client of GCS changes
\* nothing here.
BeginPooledClose(c) ==
  /\ kind \in PooledKinds
  /\ Begins(c, Close)
  /\ Goto(c, "shutting")
  /\ UNCHANGED <<written, queue, executor>>

-----------------------------------------------------------------------------
(* The threads of the pool                                                  *)

\* The threads stop at the shutdown and leave the queue as it is.
StartUnlessShut ==
  /\ queue # <<>> /\ Cardinality(Running) < Concurrency /\ executor = "open"
  /\ queue' = Tail(queue)
  /\ IF pc[Head(queue)] = "queued" THEN Goto(Head(queue), "run") ELSE UNCHANGED pc
  /\ UNCHANGED <<config, bucket, call, written, deserted, executor, past>>

\* A thread takes the next call, or drops it if it was cancelled in the queue.
Start ==
  /\ queue # <<>> /\ Cardinality(Running) < Concurrency
  /\ queue' = Tail(queue)
  /\ IF pc[Head(queue)] = "queued" THEN Goto(Head(queue), "run") ELSE UNCHANGED pc
  /\ UNCHANGED <<config, bucket, call, written, deserted, executor, past>>

\* The object is read, or there is none.
GetInPool(c) ==
  /\ pc[c] = "run" /\ c \in Of("get")
  /\ Returns(c)
  /\ UNCHANGED <<config, bucket, call, written, deserted, queue, executor, past>>

\* A file that is open for writing loses its name with the delete: what is written
\* to it later is lost, though the put that writes it succeeds.
DeleteInPool(c) ==
  /\ pc[c] = "run" /\ c \in Of("delete")
  /\ Removes(c)
  /\ pc' = [x \in Calls |->
              IF x = c THEN IF c \in deserted THEN "back" ELSE "returned"
              ELSE IF pc[x] = "fill" /\ x \in OnKey(call[c].key) THEN "orphan" ELSE pc[x]]
  /\ UNCHANGED <<config, call, written, deserted, queue, executor>>

\* The put forgets to ask whether the object exists.
CheckPutBlindly(c) ==
  /\ pc[c] = "run" /\ c \in Of("put")
  /\ Goto(c, "write")
  /\ UNCHANGED <<config, bucket, call, written, deserted, queue, executor, past>>

\* Without overwrite, the object must not exist yet: head_object, blob.exists(),
\* file_exists().
CheckPut(c) ==
  /\ pc[c] = "run" /\ c \in Of("put")
  /\ IF ~call[c].overwrite /\ bucket[call[c].key] # Absent
     THEN Returns(c)
     ELSE Goto(c, "write")
  /\ UNCHANGED <<config, bucket, call, written, deserted, queue, executor, past>>

\* The cloud services replace the object as a whole; the answer may get lost.
Upload(c) ==
  /\ kind # "unix-fs" /\ pc[c] = "write"
  /\ Stores(c, c)
  /\ Says(c) \/ UNCHANGED written
  /\ Returns(c)
  /\ UNCHANGED <<config, call, deserted, queue, executor, past>>

\* open(path, "wb") empties the file ...
OpenFile(c) ==
  /\ kind = "unix-fs" /\ pc[c] = "write"
  /\ Stores(c, Partial)
  /\ Goto(c, "fill")
  /\ UNCHANGED <<config, call, written, deserted, queue, executor, past>>

\* Nobody else has the file open, or wrote to it since the call opened it.
Undisturbed(c) ==
  /\ bucket[call[c].key] = Partial
  /\ \A x \in OnKey(call[c].key) \ {c} : pc[x] # "fill"

\* ... and f.write fills it.  Every writer has a position of its own in the file:
\* what another one put there may show behind or between the data.
FillFile(c) ==
  /\ pc[c] = "fill"
  /\ \E v \in {c, Garbled} : (Undisturbed(c) => v = c) /\ Stores(c, v)
  /\ Says(c) /\ Returns(c)
  /\ UNCHANGED <<config, call, deserted, queue, executor, past>>

FillOrphan(c) ==
  /\ pc[c] = "orphan"
  /\ Says(c) /\ Returns(c)
  /\ UNCHANGED <<config, bucket, call, deserted, queue, executor, past>>

\* A write that fails is reported as done.
FailSilently(c) ==
  /\ c \in Running
  /\ IF pc[c] = "fill" THEN \E v \in {bucket[call[c].key], Garbled} : Stores(c, v)
                       ELSE UNCHANGED bucket
  /\ IF pc[c] = "run" THEN UNCHANGED written ELSE Says(c)
  /\ Returns(c)
  /\ UNCHANGED <<config, call, deserted, queue, executor, past>>

\* The service or the file system fails, which may leave a file half written.
FailInPool(c) ==
  /\ c \in Running
  /\ IF pc[c] = "fill" THEN \E v \in {bucket[call[c].key], Garbled} : Stores(c, v)
                       ELSE UNCHANGED bucket
  /\ Returns(c)
  /\ UNCHANGED <<config, call, written, deserted, queue, executor, past>>

ThreadStep(c) ==
  \/ GetInPool(c) \/ DeleteInPool(c) \/ CheckPut(c) \/ Upload(c)
  \/ OpenFile(c) \/ FillFile(c) \/ FillOrphan(c) \/ FailInPool(c)

-----------------------------------------------------------------------------
(* Cancellation of the caller                                               *)

\* What no thread has taken is withdrawn; a thread that has the call goes on with
\* it, unobserved.
CancelPooled(c) ==
  /\ kind \in PooledKinds /\ LoopFree
  /\ \/ /\ pc[c] \in {"queued", "returned", "shutting"}
        /\ Goto(c, "back") /\ written' = written \ {c}
        /\ UNCHANGED deserted
     \/ /\ c \in Running \ deserted
        /\ deserted' = deserted \cup {c}
        /\ UNCHANGED <<pc, written>>
  /\ UNCHANGED <<config, bucket, call, queue, executor, past>>
=============================================================================
