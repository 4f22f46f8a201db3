--------------------------- MODULE AzureBlobStore ---------------------------
(***************************************************************************)
(* AzureBlobStore (azure_blob.py), which works on the event loop and makes *)
(* its clients when the first call needs them.  A service client is named  *)
(* after the call that made it; a container client shares the transport of *)
(* its service client, so only service clients have to be closed.          *)
(***************************************************************************)
EXTENDS BaseDoStore

CONSTANT Nothing   \* None

VARIABLES
  service,       \* _service_client
  container,     \* the service client behind _container_client
  initialized,   \* _initialized
  clients,       \* the service clients that are open
  astray         \* initialisations that did not get to their end, that another one
                 \* overtook, that a close() met or that began during or after one

clientVars == <<service, container, initialized, clients, astray>>

Initializing == {x \in Calls : pc[x] \in {"probe", "create"}}
Closing == {x \in Calls : pc[x] \in {"closing", "uncontain", "unset", "shutting", "joining"}}

AzureInit ==
  /\ service = Nothing /\ container = Nothing
  /\ initialized = FALSE
  /\ clients = {}
  /\ astray = {}

-----------------------------------------------------------------------------
(* _ensure_initialized(), _ensure_container()                               *)

\* The clients are there: the operation goes on, or fails for want of a container.
BeginReady(c) ==
  /\ kind = "azure-blob" /\ initialized
  /\ \E r \in Requests \ {Close} : Begins(c, r)
  /\ Goto(c, IF container = Nothing THEN "back" ELSE "remote")
  /\ UNCHANGED <<written, queue, executor, clientVars>>

\* The service client is made, and the container asked for.
BeginInit(c) ==
  /\ kind = "azure-blob" /\ ~initialized
  /\ \E r \in Requests \ {Close} : Begins(c, r)
  /\ service' = c /\ clients' = clients \cup {c}
  /\ astray' = astray \cup Initializing \cup {x \in {c} : Closing # {} \/ executor = "none"}
  /\ Goto(c, "probe")
  /\ UNCHANGED <<written, queue, executor, container, initialized>>

\* The credential is refused, or there is none: nothing is made.
BeginRefused(c) ==
  /\ kind = "azure-blob" /\ ~initialized
  /\ \E r \in Requests \ {Close} : Begins(c, r)
  /\ Goto(c, "back")
  /\ UNCHANGED <<written, queue, executor, clientVars>>

\* The container exists, or was just created by this call or by somebody else.
ContainerFound(c) ==
  /\ c \in Initializing /\ LoopFree
  /\ container' = c /\ initialized' = TRUE
  /\ Goto(c, "remote")
  /\ UNCHANGED <<config, bucket, call, written, deserted, queue, executor, past>>
  /\ UNCHANGED <<service, clients, astray>>

ContainerMissing(c) ==
  /\ pc[c] = "probe" /\ LoopFree
  /\ Goto(c, "create")
  /\ UNCHANGED <<config, bucket, call, written, deserted, queue, executor, past, clientVars>>

\* Any other failure of the probe: the store counts as initialised, without a
\* container, and whatever service client there is now is closed.
ProbeFails(c) ==
  /\ pc[c] = "probe" /\ LoopFree
  /\ container' = Nothing /\ initialized' = TRUE
  /\ clients' = clients \ {service}
  /\ Goto(c, "back")
  /\ UNCHANGED <<config, bucket, call, written, deserted, queue, executor, past, service, astray>>

\* The creation fails: the next call starts again, with a client of its own.
CreateFails(c) ==
  /\ pc[c] = "create" /\ LoopFree
  /\ astray' = astray \cup {c}
  /\ Goto(c, "back")
  /\ UNCHANGED <<config, bucket, call, written, deserted, queue, executor, past>>
  /\ UNCHANGED <<service, container, initialized, clients>>

-----------------------------------------------------------------------------
(* The operations, at the service                                           *)

\* upload_blob is atomic: without overwrite it refuses what exists.  As with the
\* other operations its answer may get lost.
PutRemote(c) ==
  /\ pc[c] = "remote" /\ c \in Of("put")
  /\ IF ~call[c].overwrite /\ bucket[call[c].key] # Absent
     THEN UNCHANGED <<bucket, written>>
     ELSE Stores(c, c) /\ (Says(c) \/ UNCHANGED written)
  /\ Returns(c)
  /\ UNCHANGED <<config, call, deserted, queue, executor, past, clientVars>>

DeleteRemote(c) ==
  /\ pc[c] = "remote" /\ c \in Of("delete")
  /\ Removes(c)
  /\ Returns(c)
  /\ UNCHANGED <<config, call, written, deserted, queue, executor, clientVars>>

\* The object is read, or the operation fails: the service, the network, a client
\* that somebody closed, or no such object.
RemoteUnchanged(c) ==
  /\ pc[c] = "remote"
  /\ Returns(c)
  /\ UNCHANGED <<config, bucket, call, written, deserted, queue, executor, past, clientVars>>

-----------------------------------------------------------------------------
(* close()                                                                  *)

BeginAzureClose(c) ==
  /\ kind = "azure-blob"
  /\ Begins(c, Close)
  /\ Goto(c, "closing")
  /\ astray' = astray \cup Initializing
  /\ UNCHANGED <<written, queue, executor, service, container, initialized, clients>>

\* The container client is closed; the attribute is cleared after the await.
CloseContainer(c) ==
  /\ pc[c] = "closing" /\ LoopFree /\ container # Nothing
  /\ Goto(c, "uncontain")
  /\ UNCHANGED <<config, bucket, call, written, deserted, queue, executor, past, clientVars>>

\* The container is behind close().
PastContainer(c) == pc[c] = "uncontain" \/ (pc[c] = "closing" /\ container = Nothing)

\* close() forgets the service client instead of closing it.
CloseServiceForgets(c) ==
  /\ PastContainer(c) /\ LoopFree
  /\ container' = Nothing
  /\ Goto(c, IF service = Nothing THEN "shutting" ELSE "unset")
  /\ UNCHANGED <<config, bucket, call, written, deserted, queue, executor, past>>
  /\ UNCHANGED <<service, initialized, clients, astray>>

\* The service client that is there now is closed ...
CloseService(c) ==
  /\ PastContainer(c) /\ LoopFree
  /\ container' = Nothing
  /\ clients' = clients \ {service}
  /\ Goto(c, IF service = Nothing THEN "shutting" ELSE "unset")
  /\ UNCHANGED <<config, bucket, call, written, deserted, queue, executor, past>>
  /\ UNCHANGED <<service, initialized, astray>>

\* ... and after the await the attribute is cleared, whatever it holds by then.
UnsetService(c) ==
  /\ pc[c] = "unset" /\ LoopFree
  /\ service' = Nothing
  /\ Goto(c, "shutting")
  /\ UNCHANGED <<config, bucket, call, written, deserted, queue, executor, past>>
  /\ UNCHANGED <<container, initialized, clients, astray>>

-----------------------------------------------------------------------------
(* Cancellation of the caller                                               *)

\* An initialisation or a close() that is cancelled stops where it is; a request
\* that was sent may still be served.
CancelAzure(c) ==
  /\ kind = "azure-blob" /\ LoopFree
  /\ \/ /\ c \in Initializing \/ pc[c] \in {"closing", "uncontain", "unset", "shutting", "returned"}
        /\ Goto(c, "back") /\ written' = written \ {c}
        /\ astray' = astray \cup ({c} \cap Initializing)
        /\ UNCHANGED deserted
     \/ /\ pc[c] = "remote" /\ c \notin deserted
        /\ deserted' = deserted \cup {c}
        /\ UNCHANGED <<pc, written, astray>>
  /\ UNCHANGED <<config, bucket, call, queue, executor, past>>
  /\ UNCHANGED <<service, container, initialized, clients>>
=============================================================================
