----------------------------- MODULE BaseSecrets -----------------------------
(***************************************************************************)
(* What the secret stores of secrets/ayuna_secrets have in common          *)
(* (base.py): secrets under keys, the sessions that use one store, and the *)
(* class that BaseSecrets.create() picks for it.                           *)
(***************************************************************************)
CONSTANTS
  Keys, Values,
  Sessions,   \* the processes that may open the store
  Faults      \* "crash": a process ends at any point; "io": a write or a request fails

ASSUME FaultsAssumption == Faults \subseteq {"crash", "io"}

VARIABLE typid  \* config.typid

\* The classes that keep all secrets in one remote JSON document.
DocumentTypes == {"aws", "gcp"}
VaultTypes == DocumentTypes \cup {"local", "azure"}
=============================================================================
