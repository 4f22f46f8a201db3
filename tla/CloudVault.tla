----------------------------- MODULE CloudVault -----------------------------
(***************************************************************************)
(* The three cloud stores of secrets/ayuna_secrets.  AWSSecrets and        *)
(* GCPSecrets keep one JSON document: a session reads it once, changes its *)
(* copy, and writes the whole copy back.  AzureSecrets has no copy: it asks*)
(* for a secret and changes it in a second request.  A request may be      *)
(* refused, and a process may end between any two of them.                 *)
(***************************************************************************)
EXTENDS BaseSecrets

CONSTANTS
  Nothing,   \* there is no secret under the key
  Empty,     \* the empty string, which AzureSecrets takes for no secret
  Deleted    \* Azure keeps a deleted name occupied until it is purged

\* No secret is one of them.
ASSUME ContentsAssumption ==
  /\ Nothing \notin Values \cup {Empty, Deleted}
  /\ Empty \notin Values \cup {Deleted} /\ Deleted \notin Values

VARIABLES
  remote,  \* the service: what each key holds
  cache,   \* _secrets_cache, or <<>> for None
  doing,   \* where each session is
  call,    \* what its caller asks for
  missed,  \* sessions whose copy may differ from the document
  held     \* the keys that have held a secret ever since the session last looked

cloudVars == <<remote, cache, doing, call, missed, held>>

Document == typid \in DocumentTypes
NoCall == [op |-> "none"]
Calls == [op : {"retrieve", "delete"}, key : Keys]
         \cup [op : {"store"}, key : Keys, replace : BOOLEAN,
               value : Values \cup IF Document THEN {} ELSE {Empty}]

\* The keys that store_secret takes for those of a secret.
Existing(contents) ==
  {k \in Keys : contents[k] \notin {Nothing, Deleted} \cup (IF Document THEN {} ELSE {Empty})}

CloudInit ==
  /\ remote \in [Keys -> Values \cup {Nothing}]
  /\ cache = [s \in Sessions |-> <<>>]
  /\ doing = [s \in Sessions |-> "closed"]
  /\ call = [s \in Sessions |-> NoCall]
  /\ missed = {}
  /\ held = [s \in Sessions |-> {}]

-----------------------------------------------------------------------------
Become(s, place) == doing' = [doing EXCEPT ![s] = place]

\* The call is over, with its result or an exception.
Back(s) == Become(s, "idle") /\ call' = [call EXCEPT ![s] = NoCall]

\* The service takes new contents.
Accept(contents) ==
  /\ remote' = contents
  /\ held' = [s \in Sessions |-> held[s] \cap Existing(contents)]

CloudOpen(s) ==
  /\ doing[s] = "closed"
  /\ Become(s, "idle")
  /\ UNCHANGED <<remote, cache, call, missed, held>>

\* The process ends, at any point if it crashes, and its copy with it.
CloudEnd(s) ==
  /\ doing[s] = "idle" \/ ("crash" \in Faults /\ doing[s] # "closed")
  /\ Become(s, "closed")
  /\ cache' = [cache EXCEPT ![s] = <<>>]
  /\ call' = [call EXCEPT ![s] = NoCall]
  /\ missed' = missed \ {s}
  /\ held' = [held EXCEPT ![s] = {}]
  /\ UNCHANGED remote

\* A method is called: the document is read first if it has not been yet; Azure's
\* store_secret(replace=True) needs no look at what is there.
CloudCall(s, r) ==
  /\ doing[s] = "idle"
  /\ call' = [call EXCEPT ![s] = r]
  /\ Become(s, IF ~Document THEN (IF r.op = "store" /\ r.replace THEN "write" ELSE "check")
               ELSE IF cache[s] = <<>> THEN "fetch" ELSE "decide")
  /\ held' = IF Document THEN held ELSE [held EXCEPT ![s] = Existing(remote)]
  /\ UNCHANGED <<remote, cache, missed>>

\* A request is refused, or its answer is no JSON object: the caller gets an error.
RequestFails(s) ==
  /\ "io" \in Faults
  /\ doing[s] \in {"fetch", "check"}
  /\ Back(s)
  /\ UNCHANGED <<remote, cache, missed, held>>

-----------------------------------------------------------------------------
(* AWS and GCP                                                              *)

\* _get_all_secrets that takes a document it cannot read for an empty one.
FetchOrEmpty(s) ==
  /\ Document /\ doing[s] = "fetch"
  /\ \E doc \in {remote, [k \in Keys |-> Nothing]} : cache' = [cache EXCEPT ![s] = doc]
  /\ held' = [held EXCEPT ![s] = Existing(remote)]
  /\ missed' = missed \ {s}
  /\ Become(s, "decide")
  /\ UNCHANGED <<remote, call>>

\* _get_all_secrets, the only time the document is read.
Fetch(s) ==
  /\ Document /\ doing[s] = "fetch"
  /\ cache' = [cache EXCEPT ![s] = remote]
  /\ held' = [held EXCEPT ![s] = Existing(remote)]
  /\ missed' = missed \ {s}
  /\ Become(s, "decide")
  /\ UNCHANGED <<remote, call>>

\* retrieve_secret, and the refusals of store_secret and delete_secret.
Answered(s) ==
  /\ doing[s] = "decide"
  /\ LET r == call[s] IN
       \/ r.op = "retrieve"
       \/ r.op = "store" /\ ~r.replace /\ cache[s][r.key] # Nothing
       \/ r.op = "delete" /\ cache[s][r.key] = Nothing
  /\ Back(s)
  /\ UNCHANGED <<remote, cache, missed, held>>

\* store_secret that does not look whether the key is there.
StoreBlindly(s) ==
  /\ doing[s] = "decide"
  /\ call[s].op = "store"
  /\ cache' = [cache EXCEPT ![s][call[s].key] = call[s].value]
  /\ Become(s, "write")
  /\ UNCHANGED <<remote, call, missed, held>>

\* store_secret changes the copy ...
StoreInCache(s) ==
  /\ doing[s] = "decide"
  /\ call[s].op = "store" /\ (call[s].replace \/ cache[s][call[s].key] = Nothing)
  /\ cache' = [cache EXCEPT ![s][call[s].key] = call[s].value]
  /\ Become(s, "write")
  /\ UNCHANGED <<remote, call, missed, held>>

\* ... so does delete_secret, after which the session knows of no secret there ...
DeleteInCache(s) ==
  /\ doing[s] = "decide"
  /\ call[s].op = "delete" /\ cache[s][call[s].key] # Nothing
  /\ cache' = [cache EXCEPT ![s][call[s].key] = Nothing]
  /\ held' = [held EXCEPT ![s] = @ \ {call[s].key}]
  /\ Become(s, "write")
  /\ UNCHANGED <<remote, call, missed>>

\* ... and _update_secret or _add_secret_version writes all of it.  Whether the
\* answer arrives or is lost does not change what the session holds.
Update(s) ==
  /\ Document /\ doing[s] = "write"
  /\ Accept(cache[s])
  /\ missed' = {t \in Sessions \ {s} : cache[t] # <<>>}
  /\ Back(s)
  /\ UNCHANGED cache

\* An update that fails is reported, but the copy keeps the change.
UpdateFails(s) ==
  /\ "io" \in Faults
  /\ Document /\ doing[s] = "write"
  /\ missed' = missed \cup {s}
  /\ Back(s)
  /\ UNCHANGED <<remote, cache, held>>

-----------------------------------------------------------------------------
(* Azure                                                                    *)

\* get_secret, the first request of every method but store_secret(replace=True).
Check(s) ==
  /\ doing[s] = "check"
  /\ LET r == call[s] IN
       IF \/ r.op = "store" /\ r.key \notin Existing(remote)
          \/ r.op = "delete" /\ remote[r.key] \notin {Nothing, Deleted}
       THEN Become(s, "write") /\ UNCHANGED call
       ELSE Back(s)
  /\ UNCHANGED <<remote, cache, missed, held>>

\* set_secret and begin_delete_secret; a name that is deleted refuses both.
SetSecret(s) ==
  /\ ~Document /\ doing[s] = "write"
  /\ LET r == call[s]
         new == IF r.op = "store" THEN r.value ELSE Deleted
         refused == remote[r.key] \in IF r.op = "store" THEN {Deleted} ELSE {Nothing, Deleted}
     IN  \/ ~refused /\ Accept([remote EXCEPT ![r.key] = new])
         \/ (refused \/ "io" \in Faults) /\ UNCHANGED <<remote, held>>
  /\ Back(s)
  /\ UNCHANGED <<cache, missed>>

\* The service forgets a deleted secret in the end.
Purge(k) ==
  /\ remote[k] = Deleted
  /\ remote' = [remote EXCEPT ![k] = Nothing]
  /\ UNCHANGED <<cache, doing, call, missed, held>>

CloudStep(s) ==
  \/ CloudOpen(s) \/ CloudEnd(s) \/ \E r \in Calls : CloudCall(s, r)
  \/ RequestFails(s) \/ Fetch(s) \/ Answered(s) \/ StoreInCache(s) \/ DeleteInCache(s)
  \/ Update(s) \/ UpdateFails(s) \/ Check(s) \/ SetSecret(s)

CloudNext == \E s \in Sessions : CloudStep(s) \/ \E k \in Keys : Purge(k)
=============================================================================
