------------------------------ MODULE DoStore ------------------------------
(***************************************************************************)
(* A store made by BaseDoStore.create() (dostore/ayuna_dostore/base.py) and*)
(* its clients on one event loop: the pooled stores and the one of Azure,  *)
(* with the close() they share.                                            *)
(***************************************************************************)
EXTENDS PooledStores, AzureBlobStore

vars == <<baseVars, clientVars>>

Init == BaseInit /\ AzureInit

PoolStep == Start /\ UNCHANGED clientVars

\* What a call does next once it has begun, not counting its cancellation.
CallStep(c) ==
  \/ (ThreadStep(c) \/ Deliver(c) \/ ShutdownPool(c) \/ JoinPool(c)) /\ UNCHANGED clientVars
  \/ ContainerFound(c) \/ ContainerMissing(c) \/ ProbeFails(c) \/ CreateFails(c)
  \/ PutRemote(c) \/ DeleteRemote(c) \/ RemoteUnchanged(c)
  \/ CloseContainer(c) \/ CloseService(c) \/ UnsetService(c)

Begin(c) ==
  \/ (BeginPooled(c) \/ BeginPooledClose(c)) /\ UNCHANGED clientVars
  \/ BeginReady(c) \/ BeginInit(c) \/ BeginRefused(c) \/ BeginAzureClose(c)

Cancel(c) ==
  \/ CancelPooled(c) /\ UNCHANGED clientVars
  \/ CancelAzure(c)

Next == PoolStep \/ \E c \in Calls : Begin(c) \/ CallStep(c) \/ Cancel(c)

Spec == Init /\ [][Next]_vars

\* Threads run, the services answer or fail in the end, and the loop goes on when
\* nothing holds its thread.  Nobody has to call or to cancel.
Fairness == WF_vars(PoolStep) /\ \A c \in Calls : WF_vars(CallStep(c))

FairSpec == Spec /\ Fairness

-----------------------------------------------------------------------------
(* Properties                                                               *)

\* A put without overwrite changes nothing under a key that has held an object ever
\* since the put began, whatever else goes on; in Azure, where upload_blob refuses what
\* exists, not even one that came later.  (In the other stores an object that somebody
\* stores after the check of head_object, blob.exists() or file_exists() is not protected.)
KeepsExisting ==
  [][\A c \in Of("put") :
       /\ ~call[c].overwrite /\ bucket'[call[c].key] # bucket[call[c].key]
       /\ c \in kept \/ (kind = "azure-blob" /\ bucket[call[c].key] # Absent)
       => pc'[c] = pc[c]]_vars

\* What a change of an object may leave behind.
Left(c) == IF c \in Of("delete") THEN {Absent} ELSE {c, Partial, Garbled}

\* A put that returned "Written ..." is what its key holds, or else the key holds what
\* another change of it left that was under way when the put began or began later: a put
\* or delete whose caller was cancelled is one of them, a half-written file too, but
\* nothing that was there before.
WrittenIsThere ==
  \A c \in written :
    \/ bucket[call[c].key] = c
    \/ \E x \in rivals[c] : bucket[call[c].key] \in Left(x)

\* Once close() has let the pool go, no work of the store waits or runs in it.
ClosedIsQuiet ==
  executor = "none" =>
    /\ Running = {}
    /\ \A c \in Calls : pc[c] # "queued"

\* The only service client open is the store's, and none is after close(), but for those
\* of initialisations that were cancelled, failed to create the container, were overtaken
\* by another one or met a close(): these the code loses, one each and no other.
NoClientLeaks ==
  /\ clients \subseteq {service} \cup astray
  /\ executor = "none" => clients \subseteq astray

\* Every call ends, close() included: the threads that close() waits for on the
\* loop's thread need the loop for nothing.  (There are finitely many calls, so that
\* it is enough that again and again none is under way.)
EveryCallAnswered ==
  []<>(\A c \in Calls : pc[c] \in {"out", "back"})
=============================================================================
