------------------------------ MODULE Secrets ------------------------------
(***************************************************************************)
(* A secret store made by BaseSecrets.create() (secrets/ayuna_secrets/     *)
(* base.py) and the processes that use it: a vault file or a cloud service.*)
(***************************************************************************)
EXTENDS LocalVault, CloudVault

CONSTANT Types  \* the values of config.typid

ASSUME TypesAssumption == Types \subseteq VaultTypes

vars == <<typid, localVars, cloudVars>>

\* Only the store that create() makes is used; the other stays as it is.
Init ==
  /\ typid \in Types
  /\ LocalInit /\ CloudInit
  /\ IF typid = "local" THEN \A k \in Keys : remote[k] = Nothing
     ELSE \A s \in Sessions : config[s] = [password |-> NoPassword, valuesOnly |-> TRUE]

LocalNext ==
  /\ typid = "local"
  /\ \E s \in Sessions : LocalStep(s)
  /\ UNCHANGED <<typid, cloudVars>>

RemoteNext ==
  /\ typid # "local"
  /\ CloudNext
  /\ UNCHANGED <<typid, localVars>>

Next == LocalNext \/ RemoteNext

Spec == Init /\ [][Next]_vars

-----------------------------------------------------------------------------
(* Properties                                                               *)

\* The types of both; only a session that has read the document holds a copy,
\* and only Azure has names that are deleted and not free.
TypeOK ==
  /\ typid \in Types
  /\ LocalTypeOK
  /\ remote \in [Keys -> Values \cup {Nothing, Empty, Deleted}]
  /\ cache \in [Sessions -> {<<>>} \cup [Keys -> Values \cup {Nothing}]]
  /\ doing \in [Sessions -> {"closed", "idle", "fetch", "decide", "check", "write"}]
  /\ call \in [Sessions -> Calls \cup {NoCall}]
  /\ missed \subseteq {s \in Sessions : cache[s] # <<>>}
  /\ held \in [Sessions -> SUBSET Keys]
  /\ typid # "azure" => \A k \in Keys : remote[k] # Deleted

\* store_secret without replace does not touch a secret that has been there ever
\* since the session looked: since it read the document, or since the call of
\* store_secret began.  (One that appears later is overwritten: the copy is not
\* read again, and Azure is asked in a request of its own.)
KeepsExistingSecret ==
  \A s \in Sessions :
    doing[s] = "write" /\ call[s].op = "store" /\ ~call[s].replace => call[s].key \notin held[s]

\* A change reaches no secret but its own, unless the session's copy misses a
\* change of another session, or holds one of its own that failed.  (Then it
\* undoes the one, or makes the other after all.)
OthersUntouched ==
  [][ \A s \in Sessions :
        doing[s] = "write" /\ s \notin missed /\ remote' # remote /\ doing'[s] = "idle" =>
          \A k \in Keys : k # call[s].key => remote'[k] = remote[k] ]_vars
=============================================================================
