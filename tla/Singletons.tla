----------------------------- MODULE Singletons -----------------------------
(***************************************************************************)
(* The singleton metaclasses of core/ayuna_core/basetypes.py.  Threads call*)
(* classes; a class has one instance, made under the lock of its metaclass,*)
(* which all classes of that metaclass share and which is not re-entrant.  *)
(* Constructors may call other such classes, and may raise.  A class of    *)
(* RiSingletonMeta is initialised again, without the lock, by every call   *)
(* that does not make it.                                                  *)
(*                                                                         *)
(* Each thread has a stack of calls.  An instance is named after the thread*)
(* that made it, and so is a setting after the thread that asked for it.   *)
(***************************************************************************)
EXTENDS Naturals, FiniteSets, SequencesExt

CONSTANTS
  Threads,
  Classes, Reinitialised,  \* of which RiSingletonMeta is the metaclass of some
  NoClass, Nobody,
  MaxCalls                 \* bound: the calls a thread makes

ASSUME ClassesAssumption == Reinitialised \subseteq Classes /\ NoClass \notin Classes
ASSUME NobodyAssumption == Nobody \notin Threads

VARIABLES
  makes,     \* the class that the constructor of each class calls
  instances, \* __instances
  settings,  \* the first and the last attribute that __init__ sets on the instance
  lock,      \* who has the lock of each metaclass
  stack,     \* the calls each thread is in
  calls,     \* how many each has made
  returned   \* the instances that calls of each class have returned

singletonVars == <<makes, instances, settings, lock, stack, calls, returned>>

Metaclass(c) == IF c \in Reinitialised THEN "RiSingletonMeta" ELSE "SingletonMeta"
Metaclasses == {"SingletonMeta", "RiSingletonMeta"}

\* fresh: is_fresh; alone: no other call has initialised the instance since.
Frame(c) == [class |-> c, at |-> "look", fresh |-> FALSE, alone |-> FALSE]

\* Bound: the class that a constructor calls has a constructor that calls none.
SingletonInit ==
  /\ makes \in [Classes -> Classes \cup {NoClass}]
  /\ \A c \in Classes : makes[c] # NoClass => makes[makes[c]] = NoClass
  /\ instances = [c \in Classes |-> Nobody]
  /\ settings = [c \in Classes |-> <<Nobody, Nobody>>]
  /\ lock = [m \in Metaclasses |-> Nobody]
  /\ stack = [t \in Threads |-> <<>>]
  /\ calls = [t \in Threads |-> 0]
  /\ returned = [c \in Classes |-> {}]

-----------------------------------------------------------------------------
\* The call a thread is in, and what it does with it.
In(t, place) == stack[t] # <<>> /\ Last(stack[t]).at = place
Class(t) == Last(stack[t]).class
Fresh(t) == Last(stack[t]).fresh
Goto(t, place) == stack' = [stack EXCEPT ![t][Len(stack[t])].at = place]

\* A thread calls a class.
Call(t, c) ==
  /\ stack[t] = <<>> /\ calls[t] < MaxCalls
  /\ calls' = [calls EXCEPT ![t] = @ + 1]
  /\ stack' = [stack EXCEPT ![t] = <<Frame(c)>>]
  /\ UNCHANGED <<makes, instances, settings, lock, returned>>

\* The first look, without the lock.
Look(t) ==
  /\ In(t, "look")
  /\ Goto(t, IF instances[Class(t)] = Nobody THEN "wait" ELSE "found")
  /\ UNCHANGED <<makes, instances, settings, lock, calls, returned>>

\* is_fresh is set before the second look.
LookAgainTooFresh(t) ==
  /\ In(t, "wait") /\ lock[Metaclass(Class(t))] = Nobody
  /\ IF instances[Class(t)] = Nobody
     THEN lock' = [lock EXCEPT ![Metaclass(Class(t))] = t] ELSE UNCHANGED lock
  /\ stack' = [stack EXCEPT ![t][Len(stack[t])] =
                 [@ EXCEPT !.at = IF instances[Class(t)] = Nobody THEN "construct" ELSE "found",
                           !.fresh = TRUE, !.alone = TRUE]]
  /\ UNCHANGED <<makes, instances, settings, calls, returned>>

\* There is no second look.
LookOnce(t) ==
  /\ In(t, "wait") /\ lock[Metaclass(Class(t))] = Nobody
  /\ lock' = [lock EXCEPT ![Metaclass(Class(t))] = t]
  /\ stack' = [stack EXCEPT ![t][Len(stack[t])] =
                 [@ EXCEPT !.at = "construct", !.fresh = TRUE, !.alone = TRUE]]
  /\ UNCHANGED <<makes, instances, settings, calls, returned>>

\* The second look, with the lock: kept if there is still no instance, released at
\* once otherwise.
LookAgain(t) ==
  /\ In(t, "wait") /\ lock[Metaclass(Class(t))] = Nobody
  /\ IF instances[Class(t)] = Nobody
     THEN /\ lock' = [lock EXCEPT ![Metaclass(Class(t))] = t]
          /\ stack' = [stack EXCEPT ![t][Len(stack[t])] =
                         [class |-> Class(t), at |-> "construct", fresh |-> TRUE, alone |-> TRUE]]
     ELSE Goto(t, "found") /\ UNCHANGED lock
  /\ UNCHANGED <<makes, instances, settings, calls, returned>>

\* An instance is there.  A class that is initialised again by this call was so
\* perhaps by others that are not done: none of them is alone any more.
Found(t) ==
  /\ In(t, "found")
  /\ IF Class(t) \notin Reinitialised \/ Fresh(t) THEN Goto(t, "done")
     ELSE LET c == Class(t)
              Busy(f) == f.class = c /\ f.at \in {"construct", "between", "done"}
          IN stack' = [u \in Threads |-> [i \in DOMAIN stack[u] |->
                 IF u = t /\ i = Len(stack[t])
                 THEN [class |-> c, at |-> "construct", fresh |-> FALSE,
                       alone |-> ~ \E v \in Threads : \E j \in DOMAIN stack[v] :
                                     Busy(stack[v][j]) /\ stack[v][j].at # "done"]
                 ELSE [stack[u][i] EXCEPT !.alone = @ /\ ~Busy(stack[u][i])]]]
  /\ UNCHANGED <<makes, instances, settings, lock, calls, returned>>

\* __init__ sets its first attribute, on the instance that the others have as well
\* if it is not new, and calls the class it needs, if any.
Construct(t) ==
  /\ In(t, "construct")
  /\ LET c == Class(t)
         between == [stack EXCEPT ![t][Len(stack[t])].at = "between"]
     IN  /\ settings' = IF Fresh(t) THEN settings ELSE [settings EXCEPT ![c][1] = t]
         /\ stack' = IF makes[c] = NoClass THEN between
                     ELSE [between EXCEPT ![t] = Append(@, Frame(makes[c]))]
  /\ UNCHANGED <<makes, instances, lock, calls, returned>>

\* __init__ ends.  A new instance is published and the lock released.
Constructed(t) ==
  /\ In(t, "between")
  /\ LET c == Class(t) IN
       IF Fresh(t)
       THEN /\ settings' = [settings EXCEPT ![c] = <<t, t>>]
            /\ instances' = [instances EXCEPT ![c] = t]
            /\ lock' = [lock EXCEPT ![Metaclass(c)] = Nobody]
       ELSE /\ settings' = [settings EXCEPT ![c][2] = t]
            /\ UNCHANGED <<instances, lock>>
  /\ Goto(t, "done")
  /\ UNCHANGED <<makes, calls, returned>>

\* The call returns what is registered under the class.
Return(t) ==
  /\ In(t, "done")
  /\ returned' = [returned EXCEPT ![Class(t)] = @ \cup {instances[Class(t)]}]
  /\ stack' = [stack EXCEPT ![t] = Front(@)]
  /\ UNCHANGED <<makes, instances, settings, lock, calls>>

\* A constructor that raises leaves the lock taken.
RaiseLocked(t) ==
  /\ In(t, "construct") \/ In(t, "between")
  /\ stack' = [stack EXCEPT ![t] = <<>>]
  /\ UNCHANGED <<makes, instances, settings, lock, calls, returned>>

\* A constructor raises, as Telemetry's does without the file of its certificate:
\* the exception leaves every call of the thread, and the locks they hold.
Raise(t) ==
  /\ In(t, "construct") \/ In(t, "between")
  /\ stack' = [stack EXCEPT ![t] = <<>>]
  /\ lock' = [m \in Metaclasses |-> IF lock[m] = t THEN Nobody ELSE lock[m]]
  /\ UNCHANGED <<makes, instances, settings, calls, returned>>

CallStep(t) ==
  Look(t) \/ LookAgain(t) \/ Found(t) \/ Construct(t) \/ Constructed(t) \/ Return(t)

SingletonNext == \E t \in Threads : CallStep(t) \/ Raise(t) \/ \E c \in Classes : Call(t, c)

SingletonSpec == SingletonInit /\ [][SingletonNext]_singletonVars

\* Threads that can go on do, and constructors end.  Nobody has to call.
SingletonFairness == \A t \in Threads : WF_singletonVars(CallStep(t))

FairSpec == SingletonSpec /\ SingletonFairness

-----------------------------------------------------------------------------
(* Properties                                                               *)

\* All calls of a class return one instance, whoever meets whom at the lock and
\* whichever constructors raise.
OneInstance ==
  \A c \in Classes : returned[c] \subseteq {instances[c]} \ {Nobody}

\* A call of a class of RiSingletonMeta returns an instance that has its settings,
\* all of them, if no other call has initialised the instance meanwhile; whether
\* the call has made the instance, or lost the race to make it.
ReconfiguredWhole ==
  \A t \in Threads :
    In(t, "done") /\ Class(t) \in Reinitialised /\ Last(stack[t]).alone =>
      settings[Class(t)] = <<t, t>>

\* The constructors that call other classes all do it under the same one of the two
\* locks, for classes of the other.
Ordered ==
  LET nested == {c \in Classes : makes[c] # NoClass}
  IN \A c, d \in nested : Metaclass(c) = Metaclass(d) /\ Metaclass(c) # Metaclass(makes[d])

\* Every call returns or raises, in any number of threads, if constructors keep to
\* one order of the two locks.  (If not, a constructor waits for the lock that its
\* own call holds, or two threads wait for each other.)
CallsReturn == Ordered => \A t \in Threads : stack[t] # <<>> ~> stack[t] = <<>>
=============================================================================
