------------------------------ MODULE Executor ------------------------------
(***************************************************************************)
(* What an executor promises its clients, with no threads and no queue:    *)
(* work is accepted until it closes, each accepted future is decided once, *)
(* and shutdown(wait=True) returns only when all of them are.              *)
(***************************************************************************)
CONSTANTS Items, Callers

VARIABLES
  future,    \* the state of each item's future
  open,      \* new work is accepted
  returned   \* the calls of shutdown(wait=True) that have returned

vars == <<future, open, returned>>

Undecided == {"PENDING", "RUNNING"}

Init ==
  /\ future = [i \in Items |-> "none"]
  /\ open = TRUE
  /\ returned = {}

Move(i, from, to) ==
  /\ future[i] = from
  /\ future' = [future EXCEPT ![i] = to]
  /\ UNCHANGED <<open, returned>>

Accept(i) == open /\ Move(i, "none", "PENDING")

Refuse(i) == ~open /\ Move(i, "none", "refused")

Run(i) == Move(i, "PENDING", "RUNNING") \/ Move(i, "RUNNING", "FINISHED")

Cancel(i) ==
  Move(i, "PENDING", "CANCELLED") \/ Move(i, "CANCELLED", "CANCELLED_AND_NOTIFIED")

\* Pending work fails when the executor breaks, which also closes it.
Break(i) == ~open /\ Move(i, "PENDING", "BROKEN")

Close == open /\ open' = FALSE /\ UNCHANGED <<future, returned>>

Return(c) ==
  /\ ~open /\ c \notin returned
  /\ \A i \in Items : future[i] \notin Undecided
  /\ returned' = returned \cup {c}
  /\ UNCHANGED <<future, open>>

Next ==
  \/ \E i \in Items : Accept(i) \/ Refuse(i) \/ Run(i) \/ Cancel(i) \/ Break(i)
  \/ Close
  \/ \E c \in Callers : Return(c)

Spec == Init /\ [][Next]_vars
=============================================================================
