-------------------------- MODULE SingletonsProofs --------------------------
(***************************************************************************)
(* That a singleton is one, and that a call which initialises it again is  *)
(* not mixed up with others, for any threads, any classes of either        *)
(* metaclass, any calls among their constructors and any that raise.       *)
(***************************************************************************)
EXTENDS Singletons, SequenceTheorems, TLAPS

Stages == {"look", "wait", "found", "construct", "between", "done"}
Frames == [class : Classes, at : Stages, fresh : BOOLEAN, alone : BOOLEAN]

\* A call that makes the instance; and one that takes it for made.
Making(f) == f.fresh /\ f.at \in {"construct", "between"}
Finding(f) == f.at \in {"found", "done"} \/ (f.at \in {"construct", "between"} /\ ~f.fresh)

Typed ==
  /\ makes \in [Classes -> Classes \cup {NoClass}]
  /\ instances \in [Classes -> Threads \cup {Nobody}]
  /\ lock \in [Metaclasses -> Threads \cup {Nobody}]
  /\ stack \in [Threads -> Seq(Frames)]
  /\ returned \in [Classes -> SUBSET Threads]

\* Who makes an instance holds the lock of its class, and there is none yet.
MakersLock ==
  \A t \in Threads : \A i \in 1..Len(stack[t]) :
    Making(stack[t][i]) =>
      lock[Metaclass(stack[t][i].class)] = t /\ instances[stack[t][i].class] = Nobody

\* A thread makes one instance of a metaclass at a time: the lock is not re-entrant.
OneMaking ==
  \A t \in Threads : \A i, j \in 1..Len(stack[t]) :
    Making(stack[t][i]) /\ Making(stack[t][j]) =>
      (Metaclass(stack[t][i].class) = Metaclass(stack[t][j].class) => i = j)

\* Who takes an instance for made is right.
FoundThere ==
  \A t \in Threads : \A i \in 1..Len(stack[t]) :
    Finding(stack[t][i]) => instances[stack[t][i].class] # Nobody

SingletonInv == Typed /\ MakersLock /\ OneMaking /\ FoundThere /\ OneInstance

-----------------------------------------------------------------------------
(* Frames and stacks                                                        *)

\* The frame a thread is in.
LEMMA TopIsFrame ==
  ASSUME Typed, NEW t \in Threads, NEW place, In(t, place)
  PROVE  /\ Len(stack[t]) \in 1..Len(stack[t]) /\ Len(stack[t]) \in Nat
         /\ Last(stack[t]) = stack[t][Len(stack[t])]
         /\ stack[t][Len(stack[t])] \in Frames
         /\ stack[t][Len(stack[t])].at = place
         /\ stack[t][Len(stack[t])].class = Class(t) /\ Class(t) \in Classes
         /\ stack[t][Len(stack[t])].fresh = Fresh(t)
  <1>1. stack[t] \in Seq(Frames) /\ stack[t] # <<>>
    BY DEF Typed, In
  <1>2. Len(stack[t]) \in 1..Len(stack[t]) /\ Len(stack[t]) \in Nat
    BY <1>1
  <1>3. stack[t][Len(stack[t])] \in Frames
    BY <1>1, <1>2
  <1>4. Last(stack[t]) = stack[t][Len(stack[t])]
    BY DEF Last
  <1> QED
    BY <1>2, <1>3, <1>4 DEF In, Class, Fresh, Frames

\* Frames that differ at most in whether they are alone.
Alike(f, g) == f.class = g.class /\ f.at = g.at /\ f.fresh = g.fresh

\* A step that changes the frame on top of one stack, and no other.
TopBecomes(t, f) ==
  /\ stack' \in [Threads -> Seq(Frames)]
  /\ \A u \in Threads : Len(stack'[u]) = Len(stack[u])
  /\ \A u \in Threads : \A i \in 1..Len(stack[u]) :
       Alike(stack'[u][i], IF u = t /\ i = Len(stack[t]) THEN f ELSE stack[u][i])

\* And one that changes nothing else about the others.
TopIs(t, f) ==
  /\ \A u \in Threads : Len(stack'[u]) = Len(stack[u])
  /\ \A u \in Threads : \A i \in 1..Len(stack[u]) :
       stack'[u][i] = IF u = t /\ i = Len(stack[t]) THEN f ELSE stack[u][i]

LEMMA TopChanges ==
  ASSUME Typed, NEW t \in Threads, NEW place, In(t, place), NEW f \in Frames,
         stack' = [stack EXCEPT ![t] = [stack[t] EXCEPT ![Len(stack[t])] = f]]
  PROVE  TopBecomes(t, f) /\ TopIs(t, f)
  <1>1. Len(stack[t]) \in 1..Len(stack[t]) /\ stack[t] \in Seq(Frames)
    BY TopIsFrame DEF Typed
  <1>2. DEFINE s == [stack[t] EXCEPT ![Len(stack[t])] = f]
  <1>3. /\ s \in Seq(Frames) /\ Len(s) = Len(stack[t])
        /\ \A j \in 1..Len(stack[t]) : s[j] = IF j = Len(stack[t]) THEN f ELSE stack[t][j]
    BY <1>1, ExceptSeq
  <1>4. stack'[t] = s /\ \A u \in Threads \ {t} : stack'[u] = stack[u]
    BY DEF Typed
  <1>5. stack' \in [Threads -> Seq(Frames)]
    BY <1>3 DEF Typed
  <1> QED
    BY <1>3, <1>4, <1>5 DEF TopBecomes, TopIs, Alike

LEMMA GotoChanges ==
  ASSUME Typed, NEW t \in Threads, NEW place, In(t, place), NEW next \in Stages, Goto(t, next)
  PROVE  LET f == stack[t][Len(stack[t])]
             g == [class |-> f.class, at |-> next, fresh |-> f.fresh, alone |-> f.alone]
         IN  TopBecomes(t, g) /\ TopIs(t, g)
  <1> DEFINE f == stack[t][Len(stack[t])]
             g == [class |-> f.class, at |-> next, fresh |-> f.fresh, alone |-> f.alone]
  <1>1. f \in Frames
    BY TopIsFrame
  <1>2. [f EXCEPT !.at = next] = g /\ g \in Frames
    BY <1>1 DEF Frames
  <1>3. stack' = [stack EXCEPT ![t] = [stack[t] EXCEPT ![Len(stack[t])] = g]]
    BY <1>2 DEF Goto
  <1> QED
    BY <1>2, <1>3, TopChanges

\* The frames of a step are those before it, or new ones of which nothing is known;
\* none begins to make an instance, and those that take one for made are right.
Follows ==
  /\ stack' \in [Threads -> Seq(Frames)]
  /\ \A u \in Threads : \A i \in 1..Len(stack'[u]) :
       /\ Making(stack'[u][i]) =>
            /\ i \in 1..Len(stack[u]) /\ Making(stack[u][i])
            /\ stack'[u][i].class = stack[u][i].class
       /\ Finding(stack'[u][i]) => instances[stack'[u][i].class] # Nobody

LEMMA FollowsKeeps ==
  ASSUME SingletonInv, Follows, UNCHANGED <<makes, instances, lock, returned>>
  PROVE  SingletonInv'
  <1>1. Typed'
    BY DEF SingletonInv, Typed, Follows
  <1>2. MakersLock'
    BY DEF SingletonInv, MakersLock, Follows
  <1>3. OneMaking'
    BY DEF SingletonInv, OneMaking, Follows
  <1>4. FoundThere'
    BY DEF FoundThere, Follows
  <1>5. OneInstance'
    BY DEF SingletonInv, OneInstance
  <1> QED
    BY <1>1, <1>2, <1>3, <1>4, <1>5 DEF SingletonInv

LEMMA TopFollows ==
  ASSUME SingletonInv, NEW t \in Threads, NEW place, In(t, place), NEW f \in Frames, TopBecomes(t, f),
         f.class = Class(t),
         Making(f) => Making(stack[t][Len(stack[t])]),
         Finding(f) => instances[Class(t)] # Nobody
  PROVE  Follows
  <1>1. /\ stack' \in [Threads -> Seq(Frames)]
        /\ Len(stack[t]) \in 1..Len(stack[t]) /\ stack[t][Len(stack[t])].class = Class(t)
    BY TopIsFrame DEF TopBecomes, SingletonInv
  <1> SUFFICES ASSUME NEW u \in Threads, NEW i \in 1..Len(stack'[u])
               PROVE  /\ Making(stack'[u][i]) =>
                           /\ i \in 1..Len(stack[u]) /\ Making(stack[u][i])
                           /\ stack'[u][i].class = stack[u][i].class
                      /\ Finding(stack'[u][i]) => instances[stack'[u][i].class] # Nobody
    BY <1>1 DEF Follows
  <1>2. i \in 1..Len(stack[u])
    BY DEF TopBecomes
  <1>3. CASE u = t /\ i = Len(stack[t])
    BY <1>1, <1>2, <1>3 DEF TopBecomes, Alike, Making, Finding
  <1>4. CASE ~(u = t /\ i = Len(stack[t]))
    BY <1>2, <1>4 DEF TopBecomes, Alike, Making, Finding, SingletonInv, FoundThere
  <1> QED
    BY <1>3, <1>4

-----------------------------------------------------------------------------
(* The steps of a call                                                      *)

LEMMA CallKeeps ==
  ASSUME SingletonInv, NEW t \in Threads, NEW c \in Classes, Call(t, c)
  PROVE  SingletonInv'
  <1>1. Frame(c) \in Frames /\ ~Making(Frame(c)) /\ ~Finding(Frame(c))
    BY DEF Frame, Frames, Stages, Making, Finding
  <1>2. /\ stack'[t] = <<Frame(c)>> /\ \A u \in Threads \ {t} : stack'[u] = stack[u]
        /\ stack' \in [Threads -> Seq(Frames)]
    BY <1>1 DEF Call, SingletonInv, Typed
  <1>3. \A i \in 1..Len(stack'[t]) : stack'[t][i] = Frame(c)
    BY <1>2
  <1>4. Follows
    BY <1>1, <1>2, <1>3 DEF Follows, SingletonInv, FoundThere
  <1> QED
    BY <1>4, FollowsKeeps DEF Call

LEMMA LookKeeps ==
  ASSUME SingletonInv, NEW t \in Threads, Look(t)
  PROVE  SingletonInv'
  <1> DEFINE next == IF instances[Class(t)] = Nobody THEN "wait" ELSE "found"
             f == stack[t][Len(stack[t])]
             g == [class |-> f.class, at |-> next, fresh |-> f.fresh, alone |-> f.alone]
  <1>1. In(t, "look") /\ Goto(t, next) /\ next \in Stages
    BY DEF Look, Stages
  <1>2. TopBecomes(t, g)
    BY <1>1, GotoChanges DEF SingletonInv
  <1>3. f \in Frames /\ g \in Frames /\ g.class = Class(t)
    BY <1>1, TopIsFrame DEF SingletonInv, Frames
  <1>4. ~Making(g) /\ (Finding(g) => instances[Class(t)] # Nobody)
    BY DEF Making, Finding
  <1>5. Follows
    BY <1>1, <1>2, <1>3, <1>4, TopFollows
  <1> QED
    BY <1>5, FollowsKeeps DEF Look

LEMMA LookAgainKeeps ==
  ASSUME SingletonInv, NEW t \in Threads, LookAgain(t)
  PROVE  SingletonInv'
  <1> DEFINE f == stack[t][Len(stack[t])]
             c == Class(t)
  <1>1. /\ In(t, "wait") /\ f \in Frames /\ f.class = c /\ c \in Classes
        /\ Len(stack[t]) \in 1..Len(stack[t])
    BY TopIsFrame DEF LookAgain, SingletonInv
  <1>2. CASE instances[c] # Nobody
    <2> DEFINE g == [class |-> f.class, at |-> "found", fresh |-> f.fresh, alone |-> f.alone]
    <2>1. TopBecomes(t, g) /\ UNCHANGED <<makes, instances, lock, returned>>
      BY <1>1, <1>2, GotoChanges DEF LookAgain, SingletonInv, Stages
    <2>2. g \in Frames /\ g.class = c /\ ~Making(g)
      BY <1>1 DEF Frames, Stages, Making
    <2>3. Follows
      BY <1>1, <1>2, <2>1, <2>2, TopFollows
    <2> QED
      BY <2>1, <2>3, FollowsKeeps
  <1>3. CASE instances[c] = Nobody
    <2> DEFINE g == [class |-> f.class, at |-> "construct", fresh |-> TRUE, alone |-> TRUE]
               m == Metaclass(c)
    <2>1. g \in Frames
      BY <1>1 DEF Frames, Stages
    <2>2. /\ stack' = [stack EXCEPT ![t] = [stack[t] EXCEPT ![Len(stack[t])] = g]]
          /\ lock[m] = Nobody /\ lock' = [lock EXCEPT ![m] = t]
          /\ UNCHANGED <<makes, instances, returned>>
      BY <1>1, <1>3 DEF LookAgain
    <2>3. TopBecomes(t, g)
      BY <1>1, <2>1, <2>2, TopChanges DEF SingletonInv
    <2>4. m \in Metaclasses /\ lock'[m] = t /\ \A n \in Metaclasses \ {m} : lock'[n] = lock[n]
      BY <2>2 DEF SingletonInv, Typed, Metaclass, Metaclasses
    <2>5. \A u \in Threads : \A i \in 1..Len(stack[u]) :
            Making(stack[u][i]) => Metaclass(stack[u][i].class) # m
      BY <2>2, NobodyAssumption DEF SingletonInv, MakersLock
    <2>6. Typed'
      BY <2>2, <2>3 DEF SingletonInv, Typed, TopBecomes
    <2>7. ASSUME NEW u \in Threads, NEW i \in 1..Len(stack'[u]), ~(u = t /\ i = Len(stack[t]))
          PROVE  /\ i \in 1..Len(stack[u]) /\ Alike(stack'[u][i], stack[u][i])
                 /\ Making(stack'[u][i]) => Making(stack[u][i])
                 /\ Finding(stack'[u][i]) => Finding(stack[u][i])
      <3>1. i \in 1..Len(stack[u]) /\ Alike(stack'[u][i], stack[u][i])
        BY <2>3, <2>7 DEF TopBecomes
      <3> QED
        BY <3>1 DEF Alike, Making, Finding
    <2>8. /\ Making(stack'[t][Len(stack[t])]) /\ ~Finding(stack'[t][Len(stack[t])])
          /\ stack'[t][Len(stack[t])].class = c
      BY <1>1, <2>3 DEF TopBecomes, Alike, Making, Finding
    <2>9. MakersLock'
      <3> SUFFICES ASSUME NEW u \in Threads, NEW i \in 1..Len(stack'[u]), Making(stack'[u][i])
                   PROVE  /\ lock'[Metaclass(stack'[u][i].class)] = u
                          /\ instances'[stack'[u][i].class] = Nobody
        BY DEF MakersLock
      <3>1. CASE u = t /\ i = Len(stack[t])
        BY <1>3, <2>2, <2>4, <2>8, <3>1
      <3>2. CASE ~(u = t /\ i = Len(stack[t]))
        BY <2>2, <2>4, <2>5, <2>7, <3>2 DEF SingletonInv, MakersLock, Alike, Metaclass, Metaclasses
      <3> QED
        BY <3>1, <3>2
    <2>10. OneMaking'
      <3> SUFFICES ASSUME NEW u \in Threads, NEW i \in 1..Len(stack'[u]), NEW j \in 1..Len(stack'[u]),
                          Making(stack'[u][i]), Making(stack'[u][j]),
                          Metaclass(stack'[u][i].class) = Metaclass(stack'[u][j].class)
                   PROVE  i = j
        BY DEF OneMaking
      <3>1. CASE u = t /\ i = Len(stack[t])
        BY <2>5, <2>7, <2>8, <3>1 DEF Alike
      <3>2. CASE u = t /\ j = Len(stack[t])
        BY <2>5, <2>7, <2>8, <3>2 DEF Alike
      <3>3. CASE ~(u = t /\ i = Len(stack[t])) /\ ~(u = t /\ j = Len(stack[t]))
        BY <2>7, <3>3 DEF SingletonInv, OneMaking, Alike
      <3> QED
        BY <3>1, <3>2, <3>3
    <2>11. FoundThere'
      <3> SUFFICES ASSUME NEW u \in Threads, NEW i \in 1..Len(stack'[u]), Finding(stack'[u][i])
                   PROVE  instances[stack'[u][i].class] # Nobody
        BY <2>2 DEF FoundThere
      <3>1. ~(u = t /\ i = Len(stack[t]))
        BY <2>8
      <3> QED
        BY <2>7, <3>1 DEF SingletonInv, FoundThere, Alike
    <2>12. OneInstance'
      BY <2>2 DEF SingletonInv, OneInstance
    <2> QED
      BY <2>6, <2>9, <2>10, <2>11, <2>12 DEF SingletonInv
  <1> QED
    BY <1>2, <1>3

\* What a call finds it returns, or initialises again: it makes nothing.
LEMMA FoundBecomes ==
  ASSUME Typed, NEW t \in Threads, Found(t)
  PROVE  \E g \in Frames : g.class = Class(t) /\ ~Making(g) /\ TopBecomes(t, g)
  <1> DEFINE f == stack[t][Len(stack[t])]
             c == Class(t)
  <1>1. /\ In(t, "found") /\ f \in Frames /\ f.class = c /\ f.at = "found" /\ c \in Classes
        /\ Len(stack[t]) \in 1..Len(stack[t])
    BY TopIsFrame DEF Found
  <1>2. CASE c \notin Reinitialised \/ Fresh(t)
    <2> DEFINE g == [class |-> f.class, at |-> "done", fresh |-> f.fresh, alone |-> f.alone]
    <2>1. TopBecomes(t, g)
      BY <1>1, <1>2, GotoChanges DEF Found, Stages
    <2>2. g \in Frames /\ g.class = c /\ ~Making(g)
      BY <1>1 DEF Frames, Stages, Making
    <2> QED
      BY <2>1, <2>2
  <1>3. CASE c \in Reinitialised /\ ~Fresh(t)
    <2> DEFINE g == [class |-> c, at |-> "construct", fresh |-> FALSE, alone |-> TRUE]
               Busy(h) == h.class = c /\ h.at \in {"construct", "between", "done"}
               alone == ~ \E v \in Threads : \E j \in DOMAIN stack[v] :
                             Busy(stack[v][j]) /\ stack[v][j].at # "done"
               NewFrame(u, i) == IF u = t /\ i = Len(stack[t])
                                 THEN [class |-> c, at |-> "construct", fresh |-> FALSE, alone |-> alone]
                                 ELSE [stack[u][i] EXCEPT !.alone = @ /\ ~Busy(stack[u][i])]
    <2>1. stack' = [u \in Threads |-> [i \in DOMAIN stack[u] |-> NewFrame(u, i)]]
      BY <1>3 DEF Found
    <2>2. ASSUME NEW u \in Threads, NEW i \in 1..Len(stack[u])
          PROVE  /\ NewFrame(u, i) \in Frames
                 /\ Alike(NewFrame(u, i), IF u = t /\ i = Len(stack[t]) THEN g ELSE stack[u][i])
      <3>1. stack[u][i] \in Frames
        BY DEF Typed
      <3>2. CASE u = t /\ i = Len(stack[t])
        BY <1>1, <3>2 DEF Frames, Stages, Alike
      <3>3. CASE ~(u = t /\ i = Len(stack[t]))
        BY <3>1, <3>3 DEF Frames, Alike
      <3> QED
        BY <3>2, <3>3
    <2>3. ASSUME NEW u \in Threads
          PROVE  /\ stack'[u] \in Seq(Frames) /\ Len(stack'[u]) = Len(stack[u])
                 /\ \A i \in 1..Len(stack[u]) : stack'[u][i] = NewFrame(u, i)
      <3>1. DOMAIN stack[u] = 1..Len(stack[u]) /\ Len(stack[u]) \in Nat
        BY DEF Typed
      <3>2. stack'[u] = [i \in 1..Len(stack[u]) |-> NewFrame(u, i)]
        BY <2>1, <3>1
      <3>3. stack'[u] \in [1..Len(stack[u]) -> Frames]
        BY <2>2, <3>2
      <3> HIDE DEF NewFrame
      <3> QED
        BY <3>1, <3>2, <3>3
    <2>4. stack' \in [Threads -> Seq(Frames)]
      BY <2>1, <2>3
    <2>5. TopBecomes(t, g)
      <3> HIDE DEF NewFrame, g
      <3>1. \A u \in Threads : \A i \in 1..Len(stack[u]) :
              Alike(stack'[u][i], IF u = t /\ i = Len(stack[t]) THEN g ELSE stack[u][i])
        BY <2>2, <2>3
      <3> QED
        BY <2>3, <2>4, <3>1 DEF TopBecomes
    <2>6. g \in Frames /\ g.class = c /\ ~Making(g)
      BY <1>1 DEF Frames, Stages, Making
    <2> QED
      BY <2>5, <2>6
  <1> QED
    BY <1>2, <1>3

\* An instance that is initialised again has been found: no call makes it any more.
LEMMA FoundKeeps ==
  ASSUME SingletonInv, NEW t \in Threads, Found(t)
  PROVE  SingletonInv'
  <1> DEFINE f == stack[t][Len(stack[t])]
  <1>1. /\ In(t, "found") /\ f.class = Class(t) /\ f.at = "found" /\ Len(stack[t]) \in 1..Len(stack[t])
    BY TopIsFrame DEF Found, SingletonInv
  <1>2. instances[Class(t)] # Nobody
    BY <1>1 DEF SingletonInv, FoundThere, Finding
  <1>3. PICK g \in Frames : g.class = Class(t) /\ ~Making(g) /\ TopBecomes(t, g)
    BY FoundBecomes DEF SingletonInv
  <1>4. UNCHANGED <<makes, instances, lock, returned>>
    BY DEF Found
  <1> QED
    BY <1>1, <1>2, <1>3, <1>4, TopFollows, FollowsKeeps

LEMMA ConstructKeeps ==
  ASSUME SingletonInv, NEW t \in Threads, Construct(t)
  PROVE  SingletonInv'
  <1> DEFINE n == Len(stack[t])
             f == stack[t][n]
             c == Class(t)
             g == [class |-> f.class, at |-> "between", fresh |-> f.fresh, alone |-> f.alone]
             s == [stack[t] EXCEPT ![n] = g]
  <1>1. /\ In(t, "construct") /\ f \in Frames /\ f.class = c /\ f.at = "construct" /\ c \in Classes
        /\ n \in 1..n /\ stack[t] \in Seq(Frames)
    BY TopIsFrame DEF Construct, SingletonInv, Typed
  <1>2. g \in Frames /\ g.class = c /\ [f EXCEPT !.at = "between"] = g
    BY <1>1 DEF Frames, Stages
  <1>3. (Making(g) => Making(f)) /\ (Finding(g) => instances[c] # Nobody)
    BY <1>1 DEF Making, Finding, SingletonInv, FoundThere
  <1>4. UNCHANGED <<makes, instances, lock, returned>>
    BY DEF Construct
  <1>5. CASE makes[c] = NoClass
    <2>1. stack' = [stack EXCEPT ![t] = s]
      BY <1>2, <1>5 DEF Construct
    <2>2. TopBecomes(t, g)
      BY <1>1, <1>2, <2>1, TopChanges DEF SingletonInv
    <2> QED
      BY <1>1, <1>2, <1>3, <1>4, <2>2, TopFollows, FollowsKeeps
  <1>6. CASE makes[c] # NoClass
    <2> DEFINE h == Frame(makes[c])
    <2>1. stack' = [stack EXCEPT ![t] = Append(s, h)]
      BY <1>2, <1>6 DEF Construct, SingletonInv, Typed
    <2>2. h \in Frames /\ ~Making(h) /\ ~Finding(h)
      BY <1>1, <1>6 DEF Frame, Frames, Stages, Making, Finding, SingletonInv, Typed
    <2>3. /\ s \in Seq(Frames) /\ Len(s) = n
          /\ \A j \in 1..n : s[j] = IF j = n THEN g ELSE stack[t][j]
      BY <1>1, <1>2, ExceptSeq
    <2> HIDE DEF s, h, g, f
    <2>4. /\ Append(s, h) \in Seq(Frames) /\ Len(Append(s, h)) = n + 1
          /\ Append(s, h)[n + 1] = h /\ \A j \in 1..n : Append(s, h)[j] = s[j]
      BY <2>2, <2>3, AppendProperties
    <2>5. /\ stack' \in [Threads -> Seq(Frames)] /\ stack'[t] = Append(s, h)
          /\ \A u \in Threads \ {t} : stack'[u] = stack[u]
      BY <2>1, <2>4 DEF SingletonInv, Typed
    <2>6. Follows
      <3> SUFFICES ASSUME NEW u \in Threads, NEW i \in 1..Len(stack'[u])
                   PROVE  /\ Making(stack'[u][i]) =>
                               /\ i \in 1..Len(stack[u]) /\ Making(stack[u][i])
                               /\ stack'[u][i].class = stack[u][i].class
                          /\ Finding(stack'[u][i]) => instances[stack'[u][i].class] # Nobody
        BY <2>5 DEF Follows
      <3>1. CASE u # t
        BY <2>5, <3>1 DEF SingletonInv, FoundThere
      <3>2. CASE u = t /\ i = n + 1
        BY <2>2, <2>4, <2>5, <3>2
      <3>3. CASE u = t /\ i \in 1..n
        <4>1. stack'[u][i] = IF i = n THEN g ELSE stack[t][i]
          BY <2>3, <2>4, <2>5, <3>3
        <4> QED
          BY <1>1, <1>2, <1>3, <3>3, <4>1 DEF SingletonInv, FoundThere, f
      <3> QED
        BY <1>1, <2>4, <2>5, <3>1, <3>2, <3>3
    <2> QED
      BY <1>4, <2>6, FollowsKeeps
  <1> QED
    BY <1>5, <1>6

\* The instance of a class is published once: who publishes it makes it, and there
\* was none.
LEMMA ConstructedKeeps ==
  ASSUME SingletonInv, NEW t \in Threads, Constructed(t)
  PROVE  SingletonInv'
  <1> DEFINE n == Len(stack[t])
             f == stack[t][n]
             c == Class(t)
             g == [class |-> f.class, at |-> "done", fresh |-> f.fresh, alone |-> f.alone]
  <1>1. /\ In(t, "between") /\ f \in Frames /\ f.class = c /\ f.at = "between" /\ f.fresh = Fresh(t)
        /\ c \in Classes /\ n \in 1..n
    BY TopIsFrame DEF Constructed, SingletonInv
  <1>2. TopBecomes(t, g)
    BY <1>1, GotoChanges DEF Constructed, SingletonInv, Stages
  <1>3. g \in Frames /\ g.class = c /\ ~Making(g)
    BY <1>1 DEF Frames, Stages, Making
  <1>4. CASE ~Fresh(t)
    <2>1. instances[c] # Nobody
      BY <1>1, <1>4 DEF SingletonInv, FoundThere, Finding
    <2>2. UNCHANGED <<makes, instances, lock, returned>>
      BY <1>4 DEF Constructed
    <2> QED
      BY <1>1, <1>2, <1>3, <2>1, <2>2, TopFollows, FollowsKeeps
  <1>5. CASE Fresh(t)
    <2> DEFINE m == Metaclass(c)
    <2>1. Making(f)
      BY <1>1, <1>5 DEF Making
    <2>2. lock[m] = t /\ instances[c] = Nobody
      BY <1>1, <2>1 DEF SingletonInv, MakersLock
    <2>3. /\ instances' = [instances EXCEPT ![c] = t] /\ lock' = [lock EXCEPT ![m] = Nobody]
          /\ UNCHANGED <<makes, returned>>
      BY <1>5 DEF Constructed
    <2>4. /\ instances'[c] = t /\ t # Nobody
          /\ \A d \in Classes \ {c} : instances'[d] = instances[d]
      BY <1>1, <2>3, NobodyAssumption DEF SingletonInv, Typed
    <2>5. \A k \in Metaclasses \ {m} : lock'[k] = lock[k]
      BY <2>3 DEF SingletonInv, Typed
    <2>6. Typed'
      BY <1>2, <2>3 DEF SingletonInv, Typed, TopBecomes
    <2>7. \A u \in Threads : \A i \in 1..Len(stack[u]) : stack[u][i] \in Frames
      BY DEF SingletonInv, Typed
    <2>8. ASSUME NEW u \in Threads, NEW i \in 1..Len(stack'[u]), Making(stack'[u][i])
          PROVE  /\ i \in 1..Len(stack[u]) /\ Making(stack[u][i])
                 /\ stack'[u][i].class = stack[u][i].class
                 /\ Metaclass(stack[u][i].class) # m
      <3>1. i \in 1..Len(stack[u])
        BY <1>2 DEF TopBecomes
      <3>2. ~(u = t /\ i = n)
        BY <1>2, <1>3, <2>8, <3>1 DEF TopBecomes, Alike, Making
      <3>3. Alike(stack'[u][i], stack[u][i])
        BY <1>2, <3>1, <3>2 DEF TopBecomes
      <3>4. Making(stack[u][i])
        BY <2>8, <3>3 DEF Alike, Making
      <3>5. ASSUME Metaclass(stack[u][i].class) = m PROVE FALSE
        <4>1. u = t
          BY <2>2, <3>1, <3>4, <3>5 DEF SingletonInv, MakersLock
        <4> QED
          BY <1>1, <2>1, <3>1, <3>2, <3>4, <3>5, <4>1 DEF SingletonInv, OneMaking
      <3> QED
        BY <3>1, <3>3, <3>4, <3>5 DEF Alike
    <2>9. MakersLock'
      <3> SUFFICES ASSUME NEW u \in Threads, NEW i \in 1..Len(stack'[u]), Making(stack'[u][i])
                   PROVE  /\ lock'[Metaclass(stack'[u][i].class)] = u
                          /\ instances'[stack'[u][i].class] = Nobody
        BY DEF MakersLock
      <3> DEFINE d == stack[u][i].class
      <3>1. /\ d \in Classes /\ d # c /\ Metaclass(d) \in Metaclasses \ {m}
            /\ stack'[u][i].class = d
        BY <2>7, <2>8 DEF Frames, Metaclass, Metaclasses
      <3>2. lock[Metaclass(d)] = u /\ instances[d] = Nobody
        BY <2>8 DEF SingletonInv, MakersLock
      <3> QED
        BY <2>4, <2>5, <3>1, <3>2
    <2>10. OneMaking'
      BY <2>8 DEF SingletonInv, OneMaking
    <2>11. FoundThere'
      <3> SUFFICES ASSUME NEW u \in Threads, NEW i \in 1..Len(stack'[u]), Finding(stack'[u][i])
                   PROVE  instances'[stack'[u][i].class] # Nobody
        BY DEF FoundThere
      <3>1. i \in 1..Len(stack[u])
        BY <1>2 DEF TopBecomes
      <3>2. CASE u = t /\ i = n
        BY <1>2, <1>3, <2>4, <3>1, <3>2 DEF TopBecomes, Alike
      <3>3. CASE ~(u = t /\ i = n)
        <4>1. Alike(stack'[u][i], stack[u][i])
          BY <1>2, <3>1, <3>3 DEF TopBecomes
        <4>2. instances[stack[u][i].class] # Nobody /\ stack[u][i].class \in Classes
          BY <2>7, <3>1, <4>1 DEF SingletonInv, FoundThere, Alike, Finding, Frames
        <4> QED
          BY <2>4, <4>1, <4>2 DEF Alike
      <3> QED
        BY <3>2, <3>3
    <2>12. OneInstance'
      BY <2>2, <2>3, <2>4 DEF SingletonInv, OneInstance
    <2> QED
      BY <2>6, <2>9, <2>10, <2>11, <2>12 DEF SingletonInv
  <1> QED
    BY <1>4, <1>5

LEMMA ReturnKeeps ==
  ASSUME SingletonInv, NEW t \in Threads, Return(t)
  PROVE  SingletonInv'
  <1> DEFINE n == Len(stack[t])
             f == stack[t][n]
             c == Class(t)
  <1>1. /\ In(t, "done") /\ f.class = c /\ f.at = "done" /\ c \in Classes
        /\ n \in 1..n /\ n \in Nat /\ stack[t] \in Seq(Frames)
    BY TopIsFrame DEF Return, SingletonInv, Typed
  <1>2. instances[c] # Nobody
    BY <1>1 DEF SingletonInv, FoundThere, Finding
  <1>3. /\ returned' = [returned EXCEPT ![c] = returned[c] \cup {instances[c]}]
        /\ stack' = [stack EXCEPT ![t] = Front(stack[t])]
        /\ UNCHANGED <<makes, instances, lock>>
    BY DEF Return, SingletonInv, Typed
  <1>4. /\ Front(stack[t]) \in Seq(Frames) /\ Len(Front(stack[t])) = n - 1
        /\ \A i \in 1..(n - 1) : Front(stack[t])[i] = stack[t][i]
    BY <1>1, SubSeqProperties DEF Front
  <1>5. /\ stack' \in [Threads -> Seq(Frames)] /\ stack'[t] = Front(stack[t])
        /\ \A u \in Threads \ {t} : stack'[u] = stack[u]
    BY <1>3, <1>4 DEF SingletonInv, Typed
  <1>6. \A u \in Threads : \A i \in 1..Len(stack'[u]) :
          i \in 1..Len(stack[u]) /\ stack'[u][i] = stack[u][i]
    BY <1>1, <1>4, <1>5
  <1>7. returned' \in [Classes -> SUBSET Threads]
    BY <1>1, <1>2, <1>3 DEF SingletonInv, Typed
  <1>8. Typed'
    BY <1>3, <1>5, <1>7 DEF SingletonInv, Typed
  <1>9. MakersLock' /\ OneMaking' /\ FoundThere'
    BY <1>3, <1>6 DEF SingletonInv, MakersLock, OneMaking, FoundThere
  <1>10. OneInstance'
    BY <1>1, <1>2, <1>3 DEF SingletonInv, OneInstance, Typed
  <1> QED
    BY <1>8, <1>9, <1>10 DEF SingletonInv

\* An exception leaves all calls of its thread, and frees no lock of another one.
LEMMA RaiseKeeps ==
  ASSUME SingletonInv, NEW t \in Threads, Raise(t)
  PROVE  SingletonInv'
  <1>1. /\ stack' \in [Threads -> Seq(Frames)] /\ stack'[t] = <<>>
        /\ \A u \in Threads \ {t} : stack'[u] = stack[u]
    BY DEF Raise, SingletonInv, Typed
  <1>2. \A u \in Threads : \A i \in 1..Len(stack'[u]) :
          u # t /\ i \in 1..Len(stack[u]) /\ stack'[u][i] = stack[u][i]
    BY <1>1
  <1>3. /\ lock' \in [Metaclasses -> Threads \cup {Nobody}]
        /\ \A m \in Metaclasses : lock[m] # t => lock'[m] = lock[m]
        /\ UNCHANGED <<makes, instances, returned>>
    BY DEF Raise, SingletonInv, Typed
  <1>4. Typed'
    BY <1>1, <1>3 DEF SingletonInv, Typed
  <1>5. MakersLock'
    BY <1>2, <1>3 DEF SingletonInv, MakersLock, Metaclass, Metaclasses
  <1>6. OneMaking'
    BY <1>2 DEF SingletonInv, OneMaking
  <1>7. FoundThere'
    BY <1>2, <1>3 DEF SingletonInv, FoundThere
  <1>8. OneInstance'
    BY <1>3 DEF SingletonInv, OneInstance
  <1> QED
    BY <1>4, <1>5, <1>6, <1>7, <1>8 DEF SingletonInv

-----------------------------------------------------------------------------
(* Classes that are initialised again                                       *)

\* A call that initialises an instance or has done so; and one that is at it.
Busy(f) == f.at \in {"construct", "between", "done"}
Writing(f) == f.at \in {"construct", "between"}

SettingsTyped == settings \in [Classes -> [1..2 -> Threads \cup {Nobody}]]

\* A call is fresh once it makes an instance.
NotYetFresh ==
  \A t \in Threads : \A i \in 1..Len(stack[t]) :
    stack[t][i].at \in {"look", "wait", "found"} => ~stack[t][i].fresh

\* A call that is alone is the only one that writes, and what it wrote is there.
AloneAt(t, i) ==
  stack[t][i].class \in Reinitialised /\ Busy(stack[t][i]) /\ stack[t][i].alone =>
    /\ \A u \in Threads : \A j \in 1..Len(stack[u]) :
         Writing(stack[u][j]) /\ stack[u][j].class = stack[t][i].class => u = t /\ j = i
    /\ stack[t][i].at = "between" /\ ~stack[t][i].fresh => settings[stack[t][i].class][1] = t
    /\ stack[t][i].at = "done" => settings[stack[t][i].class] = <<t, t>>

Alone == \A t \in Threads : \A i \in 1..Len(stack[t]) : AloneAt(t, i)

SettingsInv == SettingsTyped /\ NotYetFresh /\ Alone

\* A frame that stays; it may be alone no more.
Kept(u, i) ==
  /\ i \in 1..Len(stack[u]) /\ Alike(stack'[u][i], stack[u][i])
  /\ stack'[u][i].alone => stack[u][i].alone

\* A step of calls of classes that are not initialised again, or of calls not that far.
LEMMA AloneStays ==
  ASSUME Alone, \A d \in Reinitialised : settings'[d] = settings[d],
         \A u \in Threads : \A i \in 1..Len(stack'[u]) :
           ~Busy(stack'[u][i]) \/ stack'[u][i].class \notin Reinitialised \/ Kept(u, i)
  PROVE  Alone'
  <1> SUFFICES ASSUME NEW u \in Threads, NEW i \in 1..Len(stack'[u]), stack'[u][i].class \in Reinitialised,
                      Busy(stack'[u][i]), stack'[u][i].alone
               PROVE  AloneAt(u, i)'
    BY DEF Alone, AloneAt
  <1>1. Kept(u, i)
    OBVIOUS
  <1>2. /\ i \in 1..Len(stack[u]) /\ stack[u][i].class = stack'[u][i].class /\ Busy(stack[u][i])
        /\ stack[u][i].at = stack'[u][i].at /\ stack[u][i].fresh = stack'[u][i].fresh /\ stack[u][i].alone
    BY <1>1 DEF Kept, Alike, Busy
  <1>3. AloneAt(u, i)
    BY <1>2 DEF Alone
  <1>4. ASSUME NEW v \in Threads, NEW j \in 1..Len(stack'[v]), Writing(stack'[v][j]),
               stack'[v][j].class = stack'[u][i].class
        PROVE  v = u /\ j = i
    <2>1. Kept(v, j)
      BY <1>4 DEF Writing, Busy
    <2>2. j \in 1..Len(stack[v]) /\ Writing(stack[v][j]) /\ stack[v][j].class = stack[u][i].class
      BY <1>2, <1>4, <2>1 DEF Kept, Alike, Writing
    <2> QED
      BY <1>2, <1>3, <2>2 DEF AloneAt
  <1> QED
    BY <1>2, <1>3, <1>4 DEF AloneAt

\* A step of a call of a class that is initialised again, while no other of it is alone.
LEMMA AloneMoves ==
  ASSUME Alone, NEW t \in Threads, NEW n, NEW c \in Classes, stack'[t][n].class = c,
         \A d \in Reinitialised : d # c => settings'[d] = settings[d],
         \A u \in Threads : \A i \in 1..Len(stack'[u]) :
           ~(u = t /\ i = n) => /\ ~Busy(stack'[u][i]) \/ Kept(u, i)
                                /\ stack'[u][i].class = c /\ Busy(stack'[u][i]) => ~stack'[u][i].alone,
         AloneAt(t, n)'
  PROVE  Alone'
  <1> SUFFICES ASSUME NEW u \in Threads, NEW i \in 1..Len(stack'[u]), stack'[u][i].class \in Reinitialised,
                      Busy(stack'[u][i]), stack'[u][i].alone
               PROVE  AloneAt(u, i)'
    BY DEF Alone, AloneAt
  <1>1. CASE u = t /\ i = n
    BY <1>1
  <1>2. CASE ~(u = t /\ i = n)
    <2>1. Kept(u, i) /\ stack'[u][i].class # c
      BY <1>2
    <2>2. /\ i \in 1..Len(stack[u]) /\ stack[u][i].class = stack'[u][i].class /\ Busy(stack[u][i])
          /\ stack[u][i].at = stack'[u][i].at /\ stack[u][i].fresh = stack'[u][i].fresh
          /\ stack[u][i].alone
      BY <2>1 DEF Kept, Alike, Busy
    <2>3. AloneAt(u, i)
      BY <2>2 DEF Alone
    <2>4. ASSUME NEW v \in Threads, NEW j \in 1..Len(stack'[v]), Writing(stack'[v][j]),
                 stack'[v][j].class = stack'[u][i].class
          PROVE  v = u /\ j = i
      <3>1. Kept(v, j)
        BY <2>1, <2>4 DEF Writing, Busy
      <3>2. j \in 1..Len(stack[v]) /\ Writing(stack[v][j]) /\ stack[v][j].class = stack[u][i].class
        BY <2>2, <2>4, <3>1 DEF Kept, Alike, Writing
      <3> QED
        BY <2>2, <2>3, <3>2 DEF AloneAt
    <2>5. settings'[stack'[u][i].class] = settings[stack[u][i].class]
      BY <2>1, <2>2
    <2> QED
      BY <2>2, <2>3, <2>4, <2>5 DEF AloneAt
  <1> QED
    BY <1>1, <1>2

\* The frames of a step, but for the one on top of a stack.
LEMMA TopKeeps ==
  ASSUME Typed, NEW t \in Threads, NEW f, TopIs(t, f)
  PROVE  \A u \in Threads : \A i \in 1..Len(stack'[u]) :
           /\ i \in 1..Len(stack[u])
           /\ u = t /\ i = Len(stack[t]) => stack'[u][i] = f
           /\ ~(u = t /\ i = Len(stack[t])) => Kept(u, i) /\ stack'[u][i] = stack[u][i]
  <1> TAKE u \in Threads
  <1> TAKE i \in 1..Len(stack'[u])
  <1>1. i \in 1..Len(stack[u])
    BY DEF TopIs
  <1>2. CASE u = t /\ i = Len(stack[t])
    BY <1>1, <1>2 DEF TopIs
  <1>3. CASE ~(u = t /\ i = Len(stack[t]))
    <2>1. stack'[u][i] = stack[u][i]
      BY <1>1, <1>3 DEF TopIs
    <2> QED
      BY <1>1, <1>3, <2>1 DEF Kept, Alike
  <1> QED
    BY <1>1, <1>2, <1>3

LEMMA EarlyStepsKeep ==
  ASSUME SingletonInv, SettingsInv, NEW t \in Threads, NEW place, In(t, place), NEW next \in {"wait", "found"},
         place \in {"look", "wait"}, Goto(t, next), UNCHANGED settings
  PROVE  SettingsInv'
  <1> DEFINE n == Len(stack[t])
             f == stack[t][n]
             g == [class |-> f.class, at |-> next, fresh |-> f.fresh, alone |-> f.alone]
  <1>1. TopIs(t, g) /\ n \in 1..n /\ f \in Frames /\ f.at = place
    BY GotoChanges, TopIsFrame DEF SingletonInv, Stages
  <1>2. ~f.fresh
    BY <1>1 DEF SettingsInv, NotYetFresh
  <1>3. g.fresh = f.fresh /\ ~Busy(g)
    BY DEF Busy
  <1> HIDE DEF g
  <1>4. \A u \in Threads : \A i \in 1..Len(stack'[u]) :
          \/ u = t /\ i = n /\ stack'[u][i] = g
          \/ i \in 1..Len(stack[u]) /\ Kept(u, i) /\ stack'[u][i] = stack[u][i]
    BY <1>1, TopKeeps DEF SingletonInv
  <1>5. Alone'
    BY <1>3, <1>4, AloneStays DEF SettingsInv
  <1>6. NotYetFresh'
    BY <1>2, <1>3, <1>4 DEF SettingsInv, NotYetFresh
  <1> QED
    BY <1>5, <1>6 DEF SettingsInv, SettingsTyped

LEMMA CallKeepsSettings ==
  ASSUME SingletonInv, SettingsInv, NEW t \in Threads, NEW c \in Classes, Call(t, c)
  PROVE  SettingsInv'
  <1>1. ~Busy(Frame(c)) /\ ~Frame(c).fresh
    BY DEF Frame, Busy
  <1>2. /\ stack'[t] = <<Frame(c)>> /\ \A u \in Threads \ {t} : stack'[u] = stack[u]
        /\ UNCHANGED settings
    BY DEF Call, SingletonInv, Typed
  <1>3. \A i \in 1..Len(stack'[t]) : stack'[t][i] = Frame(c)
    BY <1>2
  <1>4. \A u \in Threads : \A i \in 1..Len(stack'[u]) : stack'[u][i] = Frame(c) \/ (Kept(u, i) /\ stack'[u][i] = stack[u][i])
    BY <1>2, <1>3 DEF Kept, Alike
  <1>5. Alone'
    BY <1>1, <1>2, <1>4, AloneStays DEF SettingsInv
  <1>6. NotYetFresh'
    BY <1>1, <1>4 DEF SettingsInv, NotYetFresh, Kept
  <1> QED
    BY <1>2, <1>5, <1>6 DEF SettingsInv, SettingsTyped

LEMMA LookKeepsSettings ==
  ASSUME SingletonInv, SettingsInv, NEW t \in Threads, Look(t)
  PROVE  SettingsInv'
  <1> DEFINE next == IF instances[Class(t)] = Nobody THEN "wait" ELSE "found"
  <1>1. In(t, "look") /\ Goto(t, next) /\ next \in {"wait", "found"} /\ UNCHANGED settings
    BY DEF Look
  <1> HIDE DEF next
  <1> QED
    BY <1>1, EarlyStepsKeep

LEMMA LookAgainKeepsSettings ==
  ASSUME SingletonInv, SettingsInv, NEW t \in Threads, LookAgain(t)
  PROVE  SettingsInv'
  <1> DEFINE c == Class(t)
  <1>0. PICK n : n = Len(stack[t])
    OBVIOUS
  <1>1. /\ In(t, "wait") /\ stack[t][n].class = c /\ c \in Classes /\ n \in 1..n
        /\ stack[t][n].at = "wait" /\ UNCHANGED settings
    BY <1>0, TopIsFrame DEF LookAgain, SingletonInv
  <1>2. CASE instances[c] # Nobody
    <2>1. Goto(t, "found")
      BY <1>2 DEF LookAgain
    <2> QED
      BY <1>1, <2>1, EarlyStepsKeep
  <1>3. CASE instances[c] = Nobody
    <2> DEFINE g == [class |-> c, at |-> "construct", fresh |-> TRUE, alone |-> TRUE]
    <2>1. g \in Frames /\ g.class = c /\ g.at = "construct" /\ g.fresh
      BY <1>1 DEF Frames, Stages
    <2>2. /\ stack' = [stack EXCEPT ![t] = [stack[t] EXCEPT ![n] = g]] /\ lock[Metaclass(c)] = Nobody
      BY <1>0, <1>3 DEF LookAgain
    <2>3. TopIs(t, g)
      BY <1>0, <1>1, <2>1, <2>2, TopChanges DEF SingletonInv
    <2> HIDE DEF g
    <2>4. /\ stack'[t][n] = g
          /\ \A u \in Threads : \A i \in 1..Len(stack'[u]) :
               ~(u = t /\ i = n) => /\ i \in 1..Len(stack[u]) /\ Kept(u, i)
                                    /\ stack'[u][i] = stack[u][i]
      <3>1. n \in 1..Len(stack'[t])
        BY <1>0, <1>1, <2>3 DEF TopIs
      <3> QED
        BY <1>0, <2>3, <3>1, TopKeeps DEF SingletonInv
    <2>5. ASSUME NEW u \in Threads, NEW i \in 1..Len(stack[u]), stack[u][i].class = c
          PROVE  ~Busy(stack[u][i])
      <3>1. ~Making(stack[u][i])
        BY <2>2, <2>5, NobodyAssumption DEF SingletonInv, MakersLock
      <3>2. ~Finding(stack[u][i])
        BY <1>3, <2>5 DEF SingletonInv, FoundThere
      <3> QED
        BY <3>1, <3>2 DEF Making, Finding, Busy
    <2>6. \A u \in Threads : \A i \in 1..Len(stack'[u]) :
            ~(u = t /\ i = n) /\ stack'[u][i].class = c => ~Busy(stack'[u][i])
      <3> TAKE u \in Threads
      <3> TAKE i \in 1..Len(stack'[u])
      <3>1. HAVE ~(u = t /\ i = n) /\ stack'[u][i].class = c
      <3>2. i \in 1..Len(stack[u]) /\ stack'[u][i] = stack[u][i]
        BY <2>4, <3>1
      <3> QED
        BY <2>5, <3>1, <3>2 DEF Busy
    <2>7. AloneAt(t, n)'
      <3>1. \A u \in Threads : \A i \in 1..Len(stack'[u]) :
              Writing(stack'[u][i]) /\ stack'[u][i].class = c => u = t /\ i = n
        BY <2>6 DEF Busy, Writing
      <3>2. stack'[t][n].class = c /\ stack'[t][n].at = "construct"
        BY <2>1, <2>4
      <3> QED
        BY <3>1, <3>2 DEF AloneAt
    <2>8. Alone'
      BY <1>1, <2>1, <2>4, <2>6, <2>7, AloneMoves DEF SettingsInv
    <2>9. NotYetFresh'
      BY <2>1, <2>4 DEF SettingsInv, NotYetFresh
    <2> QED
      BY <1>1, <2>8, <2>9 DEF SettingsInv, SettingsTyped
  <1> QED
    BY <1>2, <1>3

LEMMA FoundKeepsSettings ==
  ASSUME SingletonInv, SettingsInv, NEW t \in Threads, Found(t)
  PROVE  SettingsInv'
  <1>0. PICK n : n = Len(stack[t])
    OBVIOUS
  <1> DEFINE f == stack[t][n]
             c == Class(t)
  <1>1. /\ In(t, "found") /\ f \in Frames /\ f.class = c /\ f.at = "found" /\ c \in Classes
        /\ n \in 1..n /\ f.fresh = Fresh(t) /\ UNCHANGED settings
    BY <1>0, TopIsFrame DEF Found, SingletonInv
  <1>2. ~Fresh(t)
    BY <1>0, <1>1 DEF SettingsInv, NotYetFresh
  <1>3. CASE c \notin Reinitialised
    <2> DEFINE g == [class |-> f.class, at |-> "done", fresh |-> f.fresh, alone |-> f.alone]
    <2>1. Goto(t, "done")
      BY <1>3 DEF Found
    <2>2. TopIs(t, g) /\ g.class = c /\ g.at = "done"
      BY <1>0, <1>1, <2>1, GotoChanges DEF SingletonInv, Stages
    <2> HIDE DEF g
    <2>3. \A u \in Threads : \A i \in 1..Len(stack'[u]) :
            (u = t /\ i = n /\ stack'[u][i] = g) \/ (Kept(u, i) /\ stack'[u][i] = stack[u][i])
      BY <1>0, <1>1, <2>2, TopKeeps DEF SingletonInv
    <2>4. Alone'
      BY <1>1, <1>3, <2>2, <2>3, AloneStays DEF SettingsInv
    <2>5. NotYetFresh'
      BY <2>2, <2>3 DEF SettingsInv, NotYetFresh, Kept
    <2> QED
      BY <1>1, <2>4, <2>5 DEF SettingsInv, SettingsTyped
  <1>4. CASE c \in Reinitialised
    <2> DEFINE BusyWith(h) == h.class = c /\ h.at \in {"construct", "between", "done"}
               alone == ~ \E v \in Threads : \E j \in DOMAIN stack[v] :
                             BusyWith(stack[v][j]) /\ stack[v][j].at # "done"
               top == [class |-> c, at |-> "construct", fresh |-> FALSE, alone |-> alone]
               NewFrame(u, i) == IF u = t /\ i = n THEN top
                                 ELSE [stack[u][i] EXCEPT !.alone = @ /\ ~BusyWith(stack[u][i])]
    <2>1. stack' = [u \in Threads |-> [i \in DOMAIN stack[u] |-> NewFrame(u, i)]]
      BY <1>0, <1>2, <1>4 DEF Found
    <2>2. \A u \in Threads : DOMAIN stack[u] = 1..Len(stack[u]) /\ Len(stack[u]) \in Nat
                             /\ \A i \in 1..Len(stack[u]) : stack[u][i] \in Frames
      BY DEF SingletonInv, Typed
    <2>3. top.class = c /\ top.at = "construct" /\ ~top.fresh /\ top.alone = alone
      OBVIOUS
    <2>4. ASSUME NEW u \in Threads, NEW i \in 1..Len(stack[u]), ~(u = t /\ i = n)
          PROVE  /\ NewFrame(u, i) \in Frames
                 /\ NewFrame(u, i).class = stack[u][i].class /\ NewFrame(u, i).at = stack[u][i].at
                 /\ NewFrame(u, i).fresh = stack[u][i].fresh
                 /\ NewFrame(u, i).alone => stack[u][i].alone
                 /\ stack[u][i].class = c /\ Busy(stack[u][i]) => ~NewFrame(u, i).alone
      BY <2>2, <2>4 DEF Frames, Busy
    <2>5. NewFrame(t, n) = top /\ top \in Frames
      BY <1>1 DEF Frames, Stages
    <2>6. ~alone \/ \A u \in Threads : \A i \in 1..Len(stack[u]) :
                      stack[u][i].class = c => ~Writing(stack[u][i])
      BY <2>2 DEF Writing
    <2> HIDE DEF NewFrame, top, alone
    <2>7. ASSUME NEW u \in Threads
          PROVE  /\ Len(stack'[u]) = Len(stack[u])
                 /\ \A i \in 1..Len(stack[u]) : stack'[u][i] = NewFrame(u, i)
      <3>1. stack'[u] = [i \in 1..Len(stack[u]) |-> NewFrame(u, i)]
        BY <2>1, <2>2
      <3>2. \A i \in 1..Len(stack[u]) : NewFrame(u, i) \in Frames
        BY <2>4, <2>5
      <3>3. stack'[u] \in [1..Len(stack[u]) -> Frames]
        BY <3>1, <3>2
      <3> QED
        BY <2>2, <3>1, <3>3
    <2>8. stack'[t][n] = top
      BY <1>0, <1>1, <2>5, <2>7
    <2>9. ASSUME NEW u \in Threads, NEW i \in 1..Len(stack'[u]), ~(u = t /\ i = n)
          PROVE  /\ Kept(u, i) /\ Alike(stack'[u][i], stack[u][i])
                 /\ stack'[u][i].class = c /\ Busy(stack'[u][i]) => ~stack'[u][i].alone
      <3>1. i \in 1..Len(stack[u]) /\ stack'[u][i] = NewFrame(u, i)
        BY <2>7
      <3> QED
        BY <2>4, <2>9, <3>1 DEF Kept, Alike, Busy
    <2>10. AloneAt(t, n)'
      <3>1. ASSUME stack'[t][n].alone, NEW u \in Threads, NEW j \in 1..Len(stack'[u]),
                   Writing(stack'[u][j]), stack'[u][j].class = c
            PROVE  u = t /\ j = n
        <4>1. alone
          BY <2>3, <2>8, <3>1
        <4> SUFFICES ASSUME ~(u = t /\ j = n) PROVE FALSE
          OBVIOUS
        <4>2. j \in 1..Len(stack[u]) /\ Alike(stack'[u][j], stack[u][j])
          BY <2>9 DEF Kept
        <4>3. stack[u][j].class = c /\ Writing(stack[u][j])
          BY <3>1, <4>2 DEF Alike, Writing
        <4> QED
          BY <2>6, <4>1, <4>2, <4>3
      <3>2. stack'[t][n].class = c /\ stack'[t][n].at = "construct"
        BY <2>3, <2>8
      <3> QED
        BY <3>1, <3>2 DEF AloneAt
    <2>11. Alone'
      BY <1>1, <2>3, <2>8, <2>9, <2>10, AloneMoves DEF SettingsInv
    <2>12. NotYetFresh'
      BY <2>3, <2>8, <2>9 DEF SettingsInv, NotYetFresh, Kept, Alike
    <2> QED
      BY <1>1, <2>11, <2>12 DEF SettingsInv, SettingsTyped
  <1> QED
    BY <1>3, <1>4

\* Whoever is about to write for a class leaves no other call of it alone.
LEMMA WriterDisturbs ==
  ASSUME SingletonInv, SettingsInv, NEW t \in Threads, NEW n \in 1..Len(stack[t]), Writing(stack[t][n]),
         stack[t][n].class \in Reinitialised, NEW u \in Threads, NEW i \in 1..Len(stack'[u]),
         ~(u = t /\ i = n), Kept(u, i), stack'[u][i].class = stack[t][n].class, Busy(stack'[u][i])
  PROVE  ~stack'[u][i].alone
  <1> SUFFICES ASSUME stack'[u][i].alone PROVE FALSE
    OBVIOUS
  <1>1. /\ i \in 1..Len(stack[u]) /\ stack[u][i].class = stack[t][n].class
        /\ Busy(stack[u][i]) /\ stack[u][i].alone
    BY DEF Kept, Alike, Busy
  <1>2. AloneAt(u, i)
    BY <1>1 DEF SettingsInv, Alone
  <1> QED
    BY <1>1, <1>2 DEF AloneAt

LEMMA ConstructKeepsSettings ==
  ASSUME SingletonInv, SettingsInv, NEW t \in Threads, Construct(t)
  PROVE  SettingsInv'
  <1>0. PICK n : n = Len(stack[t])
    OBVIOUS
  <1> DEFINE f == stack[t][n]
             c == Class(t)
             g == [class |-> f.class, at |-> "between", fresh |-> f.fresh, alone |-> f.alone]
             s == [stack[t] EXCEPT ![n] = g]
  <1>1. /\ In(t, "construct") /\ f \in Frames /\ f.class = c /\ f.at = "construct" /\ c \in Classes
        /\ n \in 1..Len(stack[t]) /\ n \in Nat /\ stack[t] \in Seq(Frames) /\ f.fresh = Fresh(t)
    BY <1>0, TopIsFrame DEF Construct, SingletonInv, Typed
  <1>2. /\ g \in Frames /\ g.class = c /\ g.at = "between" /\ g.fresh = f.fresh /\ g.alone = f.alone
        /\ [f EXCEPT !.at = "between"] = g
    BY <1>1 DEF Frames, Stages
  <1>3. /\ s \in Seq(Frames) /\ Len(s) = n
        /\ \A j \in 1..n : s[j] = IF j = n THEN g ELSE stack[t][j]
    BY <1>0, <1>1, <1>2, ExceptSeq
  <1> HIDE DEF s, g
  <1>4. /\ \A u \in Threads \ {t} : stack'[u] = stack[u]
        /\ \A i \in 1..Len(stack'[t]) :
             \/ i \in 1..n /\ stack'[t][i] = s[i]
             \/ ~Busy(stack'[t][i]) /\ ~stack'[t][i].fresh
        /\ n \in 1..Len(stack'[t]) /\ stack'[t][n] = s[n]
    <2>1. CASE makes[c] = NoClass
      <3>1. stack' = [stack EXCEPT ![t] = s]
        BY <1>0, <1>2, <2>1 DEF Construct, s
      <3> QED
        BY <1>1, <1>3, <3>1 DEF SingletonInv, Typed
    <2>2. CASE makes[c] # NoClass
      <3> DEFINE h == Frame(makes[c])
      <3>1. stack' = [stack EXCEPT ![t] = Append(s, h)]
        BY <1>0, <1>2, <2>2 DEF Construct, SingletonInv, Typed, s
      <3>2. ~Busy(h) /\ ~h.fresh /\ h \in Frames
        BY <1>1, <2>2 DEF Frame, Frames, Stages, Busy, SingletonInv, Typed
      <3> HIDE DEF h
      <3>3. /\ Len(Append(s, h)) = n + 1 /\ Append(s, h)[n + 1] = h
            /\ \A j \in 1..n : Append(s, h)[j] = s[j]
        BY <1>3, <3>2, AppendProperties
      <3>4. stack'[t] = Append(s, h) /\ \A u \in Threads \ {t} : stack'[u] = stack[u]
        BY <3>1 DEF SingletonInv, Typed
      <3> QED
        BY <1>1, <3>2, <3>3, <3>4
    <2> QED
      BY <2>1, <2>2
  <1>5. stack'[t][n] = g
    BY <1>1, <1>3, <1>4
  <1>6. ASSUME NEW u \in Threads, NEW i \in 1..Len(stack'[u]), ~(u = t /\ i = n)
        PROVE  \/ ~Busy(stack'[u][i]) /\ ~stack'[u][i].fresh
               \/ Kept(u, i) /\ stack'[u][i] = stack[u][i]
    <2>1. CASE u # t
      BY <1>4, <2>1 DEF Kept, Alike
    <2>2. CASE u = t /\ i \in 1..n /\ stack'[t][i] = s[i]
      <3>1. stack'[u][i] = stack[u][i] /\ i \in 1..Len(stack[u])
        BY <1>0, <1>3, <1>6, <2>2
      <3> QED
        BY <3>1 DEF Kept, Alike
    <2> QED
      BY <1>4, <2>1, <2>2
  <1>7. NotYetFresh'
    <2> SUFFICES ASSUME NEW u \in Threads, NEW i \in 1..Len(stack'[u]),
                        stack'[u][i].at \in {"look", "wait", "found"}
                 PROVE  ~stack'[u][i].fresh
      BY DEF NotYetFresh
    <2>1. ~(u = t /\ i = n)
      BY <1>2, <1>5
    <2> QED
      BY <1>6, <2>1 DEF SettingsInv, NotYetFresh, Kept
  <1>8. /\ SettingsTyped' /\ \A d \in Classes : d # c => settings'[d] = settings[d]
        /\ ~Fresh(t) => settings'[c][1] = t
    BY <1>1 DEF Construct, SettingsInv, SettingsTyped
  <1>9. Reinitialised \subseteq Classes
    BY ClassesAssumption
  <1>10. CASE c \notin Reinitialised
    <2>1. \A u \in Threads : \A i \in 1..Len(stack'[u]) :
            ~Busy(stack'[u][i]) \/ stack'[u][i].class \notin Reinitialised \/ Kept(u, i)
      BY <1>2, <1>5, <1>6, <1>10
    <2>2. Alone'
      BY <1>8, <1>9, <1>10, <2>1, AloneStays DEF SettingsInv
    <2> QED
      BY <1>7, <1>8, <2>2 DEF SettingsInv
  <1>11. CASE c \in Reinitialised
    <2>1. ASSUME NEW u \in Threads, NEW i \in 1..Len(stack'[u]), ~(u = t /\ i = n),
                 stack'[u][i].class = c, Busy(stack'[u][i])
          PROVE  ~stack'[u][i].alone
      <3>1. Kept(u, i) /\ Writing(f)
        BY <1>1, <1>6, <2>1 DEF Writing
      <3> QED
        BY <1>1, <1>11, <2>1, <3>1, WriterDisturbs
    <2>2. AloneAt(t, n)'
      <3> SUFFICES ASSUME g.alone
                   PROVE  \A u \in Threads : \A j \in 1..Len(stack'[u]) :
                            Writing(stack'[u][j]) /\ stack'[u][j].class = c => u = t /\ j = n
        BY <1>2, <1>5, <1>8, <1>1 DEF AloneAt
      <3>1. AloneAt(t, n)
        BY <1>1 DEF SettingsInv, Alone
      <3>2. ASSUME NEW u \in Threads, NEW j \in 1..Len(stack'[u]), Writing(stack'[u][j]),
                   stack'[u][j].class = c, ~(u = t /\ j = n)
            PROVE  FALSE
        <4>1. Kept(u, j) /\ stack'[u][j] = stack[u][j]
          BY <1>6, <3>2 DEF Writing, Busy
        <4> QED
          BY <1>1, <1>2, <1>11, <3>1, <3>2, <4>1 DEF AloneAt, Kept, Busy
      <3> QED
        BY <3>2
    <2>3. \A u \in Threads : \A i \in 1..Len(stack'[u]) :
            ~(u = t /\ i = n) => /\ ~Busy(stack'[u][i]) \/ Kept(u, i)
                                 /\ stack'[u][i].class = c /\ Busy(stack'[u][i]) => ~stack'[u][i].alone
      BY <1>6, <2>1
    <2>4. Alone'
      BY <1>1, <1>2, <1>5, <1>8, <1>9, <2>2, <2>3, AloneMoves DEF SettingsInv
    <2> QED
      BY <1>7, <1>8, <2>4 DEF SettingsInv
  <1> QED
    BY <1>10, <1>11

LEMMA ConstructedKeepsSettings ==
  ASSUME SingletonInv, SettingsInv, NEW t \in Threads, Constructed(t)
  PROVE  SettingsInv'
  <1>0. PICK n : n = Len(stack[t])
    OBVIOUS
  <1> DEFINE f == stack[t][n]
             c == Class(t)
             g == [class |-> f.class, at |-> "done", fresh |-> f.fresh, alone |-> f.alone]
  <1>1. /\ In(t, "between") /\ f \in Frames /\ f.class = c /\ f.at = "between" /\ c \in Classes
        /\ n \in 1..Len(stack[t]) /\ f.fresh = Fresh(t) /\ Goto(t, "done")
    BY <1>0, TopIsFrame DEF Constructed, SingletonInv
  <1>2. /\ TopIs(t, g) /\ g.class = c /\ g.at = "done" /\ g.alone = f.alone
    BY <1>0, <1>1, GotoChanges DEF SingletonInv, Stages
  <1> HIDE DEF g
  <1>3. stack'[t][n] = g
    BY <1>0, <1>1, <1>2 DEF TopIs
  <1>4. \A u \in Threads : \A i \in 1..Len(stack'[u]) :
          ~(u = t /\ i = n) => Kept(u, i) /\ stack'[u][i] = stack[u][i]
    BY <1>0, <1>2, TopKeeps DEF SingletonInv
  <1>5. NotYetFresh'
    <2> SUFFICES ASSUME NEW u \in Threads, NEW i \in 1..Len(stack'[u]),
                        stack'[u][i].at \in {"look", "wait", "found"}
                 PROVE  ~stack'[u][i].fresh
      BY DEF NotYetFresh
    <2>1. ~(u = t /\ i = n)
      BY <1>2, <1>3
    <2> QED
      BY <1>4, <2>1 DEF SettingsInv, NotYetFresh, Kept
  <1>6. /\ SettingsTyped' /\ \A d \in Classes : d # c => settings'[d] = settings[d]
        /\ settings'[c] \in [1..2 -> Threads \cup {Nobody}] /\ settings'[c][2] = t
        /\ settings'[c][1] = IF Fresh(t) THEN t ELSE settings[c][1]
    <2>1. <<t, t>> \in [1..2 -> Threads \cup {Nobody}] /\ <<t, t>>[1] = t /\ <<t, t>>[2] = t
      OBVIOUS
    <2>2. CASE Fresh(t)
      <3>1. settings' = [settings EXCEPT ![c] = <<t, t>>]
        BY <2>2 DEF Constructed
      <3> HIDE DEF c
      <3> QED
        BY <1>1, <2>1, <2>2, <3>1 DEF SettingsInv, SettingsTyped
    <2>3. CASE ~Fresh(t)
      <3>1. settings' = [settings EXCEPT ![c][2] = t]
        BY <2>3 DEF Constructed
      <3> HIDE DEF c
      <3> QED
        BY <1>1, <2>3, <3>1 DEF SettingsInv, SettingsTyped
    <2> QED
      BY <2>2, <2>3
  <1>7. Reinitialised \subseteq Classes
    BY ClassesAssumption
  <1>8. CASE c \notin Reinitialised
    <2>1. \A u \in Threads : \A i \in 1..Len(stack'[u]) :
            ~Busy(stack'[u][i]) \/ stack'[u][i].class \notin Reinitialised \/ Kept(u, i)
      BY <1>2, <1>3, <1>4, <1>8
    <2>2. Alone'
      BY <1>6, <1>7, <1>8, <2>1, AloneStays DEF SettingsInv
    <2> QED
      BY <1>5, <1>6, <2>2 DEF SettingsInv
  <1>9. CASE c \in Reinitialised
    <2>1. ASSUME NEW u \in Threads, NEW i \in 1..Len(stack'[u]), ~(u = t /\ i = n),
                 stack'[u][i].class = c, Busy(stack'[u][i])
          PROVE  ~stack'[u][i].alone
      <3>1. Kept(u, i) /\ Writing(f)
        BY <1>1, <1>4, <2>1 DEF Writing
      <3> QED
        BY <1>1, <1>9, <2>1, <3>1, WriterDisturbs
    <2>2. AloneAt(t, n)'
      <3>1. ASSUME g.alone
            PROVE  /\ settings'[c] = <<t, t>>
                   /\ \A u \in Threads : \A j \in 1..Len(stack'[u]) :
                        Writing(stack'[u][j]) /\ stack'[u][j].class = c => u = t /\ j = n
        <4>1. AloneAt(t, n)
          BY <1>1 DEF SettingsInv, Alone
        <4>2. ~Fresh(t) => settings[c][1] = t
          BY <1>1, <1>2, <1>9, <3>1, <4>1 DEF AloneAt, Busy
        <4>3. settings'[c][1] = t /\ settings'[c][2] = t
          BY <1>6, <4>2
        <4>4. settings'[c] = <<t, t>>
          BY <1>6, <4>3
        <4>5. ASSUME NEW u \in Threads, NEW j \in 1..Len(stack'[u]), Writing(stack'[u][j]),
                     stack'[u][j].class = c, ~(u = t /\ j = n)
              PROVE  FALSE
          <5>1. Kept(u, j) /\ stack'[u][j] = stack[u][j]
            BY <1>4, <4>5
          <5> QED
            BY <1>1, <1>2, <1>9, <3>1, <4>1, <4>5, <5>1 DEF AloneAt, Kept, Busy
        <4> QED
          BY <4>4, <4>5
      <3> QED
        BY <1>2, <1>3, <3>1 DEF AloneAt
    <2>3. \A u \in Threads : \A i \in 1..Len(stack'[u]) :
            ~(u = t /\ i = n) => /\ ~Busy(stack'[u][i]) \/ Kept(u, i)
                                 /\ stack'[u][i].class = c /\ Busy(stack'[u][i]) => ~stack'[u][i].alone
      BY <1>4, <2>1
    <2>4. Alone'
      BY <1>1, <1>2, <1>3, <1>6, <1>7, <2>2, <2>3, AloneMoves DEF SettingsInv
    <2> QED
      BY <1>5, <1>6, <2>4 DEF SettingsInv
  <1> QED
    BY <1>8, <1>9

\* A call that leaves takes nothing away from the others.
LEMMA LeavingKeepsSettings ==
  ASSUME SingletonInv, SettingsInv, NEW t \in Threads, Return(t) \/ Raise(t)
  PROVE  SettingsInv'
  <1>1. /\ UNCHANGED settings /\ \A u \in Threads \ {t} : stack'[u] = stack[u]
        /\ stack'[t] = Front(stack[t]) \/ stack'[t] = <<>>
    BY DEF Return, Raise, SingletonInv, Typed
  <1>2. \A i \in 1..Len(stack'[t]) : i \in 1..Len(stack[t]) /\ stack'[t][i] = stack[t][i]
    <2>1. CASE stack'[t] = <<>>
      BY <2>1
    <2>2. CASE stack'[t] = Front(stack[t]) /\ stack[t] # <<>>
      <3>1. stack[t] \in Seq(Frames) /\ Len(stack[t]) \in Nat \ {0}
        BY <2>2 DEF SingletonInv, Typed
      <3>2. /\ Len(Front(stack[t])) = Len(stack[t]) - 1
            /\ \A i \in 1..(Len(stack[t]) - 1) : Front(stack[t])[i] = stack[t][i]
        BY <3>1, SubSeqProperties DEF Front
      <3> QED
        BY <2>2, <3>1, <3>2
    <2> QED
      BY <1>1, <2>1, <2>2 DEF Return, Raise, In
  <1>3. \A u \in Threads : \A i \in 1..Len(stack'[u]) :
          i \in 1..Len(stack[u]) /\ Kept(u, i) /\ stack'[u][i] = stack[u][i]
    BY <1>1, <1>2 DEF Kept, Alike
  <1>4. Alone'
    BY <1>1, <1>3, AloneStays DEF SettingsInv
  <1>5. NotYetFresh'
    BY <1>3 DEF SettingsInv, NotYetFresh
  <1> QED
    BY <1>1, <1>4, <1>5 DEF SettingsInv, SettingsTyped

-----------------------------------------------------------------------------
(* Every behaviour                                                          *)

LEMMA SingletonBegins == SingletonInit => SingletonInv
  <1> SUFFICES ASSUME SingletonInit PROVE SingletonInv
    OBVIOUS
  <1>1. Typed
    BY DEF SingletonInit, Typed
  <1>2. \A t \in Threads : Len(stack[t]) = 0
    BY DEF SingletonInit
  <1>3. MakersLock /\ OneMaking /\ FoundThere
    BY <1>2 DEF MakersLock, OneMaking, FoundThere
  <1>4. OneInstance
    BY DEF SingletonInit, OneInstance
  <1> QED
    BY <1>1, <1>3, <1>4 DEF SingletonInv

LEMMA SingletonStays == SingletonInv /\ [SingletonNext]_singletonVars => SingletonInv'
  <1> SUFFICES ASSUME SingletonInv, [SingletonNext]_singletonVars PROVE SingletonInv'
    OBVIOUS
  <1>1. CASE UNCHANGED singletonVars
    BY <1>1 DEF singletonVars, SingletonInv, Typed, MakersLock, OneMaking, FoundThere, OneInstance
  <1>2. ASSUME NEW t \in Threads, CallStep(t) PROVE SingletonInv'
    BY <1>2, LookKeeps, LookAgainKeeps, FoundKeeps, ConstructKeeps, ConstructedKeeps, ReturnKeeps
       DEF CallStep
  <1>3. ASSUME NEW t \in Threads, Raise(t) PROVE SingletonInv'
    BY <1>3, RaiseKeeps
  <1>4. ASSUME NEW t \in Threads, NEW c \in Classes, Call(t, c) PROVE SingletonInv'
    BY <1>4, CallKeeps
  <1> QED
    BY <1>1, <1>2, <1>3, <1>4 DEF SingletonNext

\* All calls of a class return one instance (SingletonMeta and RiSingletonMeta of
\* basetypes.py), however many threads race for it, whichever constructors call
\* other singletons and whichever raise.
THEOREM OneInstanceOnly == SingletonSpec => []OneInstance
  <1>1. SingletonInv => OneInstance
    BY DEF SingletonInv
  <1> QED
    BY <1>1, SingletonBegins, SingletonStays, PTL DEF SingletonSpec

LEMMA SettingsBegin == SingletonInit => SettingsInv
  <1> SUFFICES ASSUME SingletonInit PROVE SettingsInv
    OBVIOUS
  <1>1. <<Nobody, Nobody>> \in [1..2 -> Threads \cup {Nobody}]
    OBVIOUS
  <1>2. SettingsTyped
    BY <1>1 DEF SingletonInit, SettingsTyped
  <1>3. \A t \in Threads : Len(stack[t]) = 0
    BY DEF SingletonInit
  <1>4. NotYetFresh /\ Alone
    BY <1>3 DEF NotYetFresh, Alone
  <1> QED
    BY <1>2, <1>4 DEF SettingsInv

LEMMA SettingsStay == SingletonInv /\ SettingsInv /\ [SingletonNext]_singletonVars => SettingsInv'
  <1> SUFFICES ASSUME SingletonInv, SettingsInv, [SingletonNext]_singletonVars PROVE SettingsInv'
    OBVIOUS
  <1>1. CASE UNCHANGED singletonVars
    <2>1. UNCHANGED stack /\ UNCHANGED settings
      BY <1>1 DEF singletonVars
    <2> QED
      BY <2>1 DEF SettingsInv, SettingsTyped, NotYetFresh, Alone, AloneAt
  <1>2. ASSUME NEW t \in Threads, CallStep(t) PROVE SettingsInv'
    BY <1>2, LookKeepsSettings, LookAgainKeepsSettings, FoundKeepsSettings, ConstructKeepsSettings,
       ConstructedKeepsSettings, LeavingKeepsSettings
       DEF CallStep
  <1>3. ASSUME NEW t \in Threads, Raise(t) PROVE SettingsInv'
    BY <1>3, LeavingKeepsSettings
  <1>4. ASSUME NEW t \in Threads, NEW c \in Classes, Call(t, c) PROVE SettingsInv'
    BY <1>4, CallKeepsSettings
  <1> QED
    BY <1>1, <1>2, <1>3, <1>4 DEF SingletonNext

\* A call of a class of RiSingletonMeta that meets no other one returns an instance with all
\* its own settings, whether it has made the instance, found it, or lost the race to make it.
THEOREM ReconfiguredInFull == SingletonSpec => []ReconfiguredWhole
  <1>1. SingletonInv /\ SettingsInv => ReconfiguredWhole
    <2> SUFFICES ASSUME SingletonInv, SettingsInv, NEW t \in Threads, In(t, "done"),
                        Class(t) \in Reinitialised, Last(stack[t]).alone
                 PROVE  settings[Class(t)] = <<t, t>>
      BY DEF ReconfiguredWhole
    <2>1. /\ Len(stack[t]) \in 1..Len(stack[t]) /\ Last(stack[t]) = stack[t][Len(stack[t])]
          /\ stack[t][Len(stack[t])].at = "done" /\ stack[t][Len(stack[t])].class = Class(t)
      BY TopIsFrame DEF SingletonInv
    <2>2. AloneAt(t, Len(stack[t]))
      BY <2>1 DEF SettingsInv, Alone
    <2> QED
      BY <2>1, <2>2 DEF AloneAt, Busy
  <1> QED
    BY <1>1, SingletonBegins, SingletonStays, SettingsBegin, SettingsStay, PTL DEF SingletonSpec

-----------------------------------------------------------------------------
(* Nobody is left waiting                                                   *)

\* A constructor that has called a class is between its attributes, and that class is
\* the one it needs.
Nested ==
  \A t \in Threads : \A i, j \in 1..Len(stack[t]) : j = i + 1 =>
    stack[t][i].at = "between" /\ stack[t][j].class = makes[stack[t][i].class]

\* Who holds the lock of a metaclass makes an instance of one of its classes.
HeldToMake ==
  \A m \in Metaclasses : \A t \in Threads : lock[m] = t =>
    \E i \in 1..Len(stack[t]) : Making(stack[t][i]) /\ Metaclass(stack[t][i].class) = m

\* A call that waits for the lock another call holds.
WaitsFor(t, u) == In(t, "wait") /\ lock[Metaclass(Class(t))] = u

\* If the constructors keep to one order of the two locks: no call waits for a lock of its
\* own, whoever holds a lock is in a call, and who is waited for by one that is waited for
\* itself does not wait.
NoCircle ==
  Ordered =>
    \A t, u \in Threads : WaitsFor(t, u) =>
      /\ t # u /\ stack[u] # <<>>
      /\ \A v \in Threads : WaitsFor(u, v) => v # t /\ \A w \in Threads : ~WaitsFor(v, w)

\* Some call can take its next step whenever there is any: only one that waits for a lock
\* that is taken cannot.
CanGoOn(t) == stack[t] # <<>> /\ (In(t, "wait") => lock[Metaclass(Class(t))] = Nobody)
SomebodyGoesOn ==
  Ordered => \A t \in Threads : stack[t] # <<>> => \E u \in Threads : CanGoOn(u)

\* A step that changes the frame on top, and the lock along with it.
LEMMA TopHolds ==
  ASSUME SingletonInv, Nested, HeldToMake, UNCHANGED makes,
         NEW t \in Threads, NEW place, In(t, place), NEW f \in Frames, TopBecomes(t, f),
         f.class = Class(t),
         \A m \in Metaclasses : \A u \in Threads : lock'[m] = u =>
           \/ lock[m] = u /\ (u = t /\ Making(stack[t][Len(stack[t])]) /\ Metaclass(Class(t)) = m => Making(f))
           \/ u = t /\ Making(f) /\ Metaclass(Class(t)) = m
  PROVE  Nested' /\ HeldToMake'
  <1>0. PICK n : n = Len(stack[t])
    OBVIOUS
  <1>1. n \in 1..Len(stack[t]) /\ n \in Nat /\ stack[t][n].class = Class(t)
    BY <1>0, TopIsFrame DEF SingletonInv
  <1>2. /\ \A u \in Threads : Len(stack'[u]) = Len(stack[u])
        /\ \A u \in Threads : \A i \in 1..Len(stack[u]) :
             ~(u = t /\ i = n) => Alike(stack'[u][i], stack[u][i])
        /\ Alike(stack'[t][n], f)
    BY <1>0, <1>1 DEF TopBecomes
  <1>3. \A u \in Threads : \A i \in 1..Len(stack[u]) : stack'[u][i].class = stack[u][i].class
    BY <1>1, <1>2 DEF Alike
  <1>4. Nested'
    <2> SUFFICES ASSUME NEW u \in Threads, NEW i \in 1..Len(stack'[u]), NEW j \in 1..Len(stack'[u]), j = i + 1
                 PROVE  stack'[u][i].at = "between" /\ stack'[u][j].class = makes[stack'[u][i].class]
      BY DEF Nested
    <2>1. i \in 1..Len(stack[u]) /\ j \in 1..Len(stack[u]) /\ ~(u = t /\ i = n)
      BY <1>0, <1>2
    <2>2. stack[u][i].at = "between" /\ stack[u][j].class = makes[stack[u][i].class]
      BY <2>1 DEF Nested
    <2> QED
      BY <1>2, <1>3, <2>1, <2>2 DEF Alike
  <1>5. HeldToMake'
    <2> SUFFICES ASSUME NEW m \in Metaclasses, NEW u \in Threads, lock'[m] = u
                 PROVE  \E i \in 1..Len(stack'[u]) : Making(stack'[u][i]) /\ Metaclass(stack'[u][i].class) = m
      BY DEF HeldToMake, Metaclass
    <2>1. CASE u = t /\ Making(f) /\ Metaclass(Class(t)) = m
      <3>1. Making(stack'[t][n]) /\ stack'[t][n].class = Class(t) /\ n \in 1..Len(stack'[t])
        BY <1>1, <1>2, <2>1 DEF Alike, Making
      <3> QED
        BY <2>1, <3>1
    <2>2. CASE lock[m] = u /\ ~(u = t /\ Making(f) /\ Metaclass(Class(t)) = m)
      <3>1. PICK i \in 1..Len(stack[u]) : Making(stack[u][i]) /\ Metaclass(stack[u][i].class) = m
        BY <2>2 DEF HeldToMake
      <3>2. ~(u = t /\ i = n)
        BY <1>0, <1>1, <2>2, <3>1
      <3>3. Making(stack'[u][i]) /\ stack'[u][i].class = stack[u][i].class /\ i \in 1..Len(stack'[u])
        BY <1>2, <3>1, <3>2 DEF Alike, Making
      <3> QED
        BY <3>1, <3>3
    <2> QED
      BY <2>1, <2>2
  <1> QED
    BY <1>4, <1>5

LEMMA CallHolds ==
  ASSUME SingletonInv, Nested, HeldToMake, NEW t \in Threads, NEW c \in Classes, Call(t, c)
  PROVE  Nested' /\ HeldToMake'
  <1>1. /\ stack[t] = <<>> /\ stack'[t] = <<Frame(c)>> /\ \A u \in Threads \ {t} : stack'[u] = stack[u]
        /\ UNCHANGED <<makes, lock>>
    BY DEF Call, SingletonInv, Typed
  <1>2. Len(stack[t]) = 0 /\ Len(stack'[t]) = 1
    BY <1>1
  <1>3. \A m \in Metaclasses : lock[m] # t
    BY <1>2 DEF HeldToMake
  <1>4. Nested'
    BY <1>1, <1>2 DEF Nested
  <1>5. HeldToMake'
    BY <1>1, <1>3 DEF HeldToMake
  <1> QED
    BY <1>4, <1>5

LEMMA LookHolds ==
  ASSUME SingletonInv, Nested, HeldToMake, NEW t \in Threads, Look(t)
  PROVE  Nested' /\ HeldToMake'
  <1> DEFINE next == IF instances[Class(t)] = Nobody THEN "wait" ELSE "found"
             f == stack[t][Len(stack[t])]
             g == [class |-> f.class, at |-> next, fresh |-> f.fresh, alone |-> f.alone]
  <1>1. In(t, "look") /\ Goto(t, next) /\ next \in Stages /\ UNCHANGED <<makes, lock>>
    BY DEF Look, Stages
  <1>2. TopBecomes(t, g)
    BY <1>1, GotoChanges DEF SingletonInv
  <1>3. f \in Frames /\ f.at = "look" /\ g \in Frames /\ g.class = Class(t) /\ ~Making(f)
    BY <1>1, TopIsFrame DEF SingletonInv, Frames, Making
  <1> HIDE DEF g, next
  <1> QED
    BY <1>1, <1>2, <1>3, TopHolds

LEMMA LookAgainHolds ==
  ASSUME SingletonInv, Nested, HeldToMake, NEW t \in Threads, LookAgain(t)
  PROVE  Nested' /\ HeldToMake'
  <1> DEFINE f == stack[t][Len(stack[t])]
             c == Class(t)
  <1>1. /\ In(t, "wait") /\ f \in Frames /\ f.class = c /\ f.at = "wait" /\ ~Making(f) /\ UNCHANGED makes
    BY TopIsFrame DEF LookAgain, SingletonInv, Making
  <1>2. CASE instances[c] # Nobody
    <2> DEFINE g == [class |-> f.class, at |-> "found", fresh |-> f.fresh, alone |-> f.alone]
    <2>1. TopBecomes(t, g) /\ UNCHANGED lock
      BY <1>1, <1>2, GotoChanges DEF LookAgain, SingletonInv, Stages
    <2>2. g \in Frames /\ g.class = c
      BY <1>1 DEF Frames, Stages
    <2> HIDE DEF g
    <2> QED
      BY <1>1, <2>1, <2>2, TopHolds
  <1>3. CASE instances[c] = Nobody
    <2> DEFINE g == [class |-> c, at |-> "construct", fresh |-> TRUE, alone |-> TRUE]
    <2>1. g \in Frames /\ g.class = c /\ Making(g)
      BY <1>1 DEF Frames, Stages, Making
    <2>2. /\ stack' = [stack EXCEPT ![t] = [stack[t] EXCEPT ![Len(stack[t])] = g]]
          /\ lock' = [lock EXCEPT ![Metaclass(c)] = t]
      BY <1>1, <1>3 DEF LookAgain
    <2>3. TopBecomes(t, g)
      BY <1>1, <2>1, <2>2, TopChanges DEF SingletonInv
    <2>4. \A m \in Metaclasses : lock'[m] = IF m = Metaclass(c) THEN t ELSE lock[m]
      BY <2>2 DEF SingletonInv, Typed
    <2> HIDE DEF g
    <2> QED
      BY <1>1, <2>1, <2>3, <2>4, TopHolds
  <1> QED
    BY <1>2, <1>3

LEMMA FoundHolds ==
  ASSUME SingletonInv, Nested, HeldToMake, NEW t \in Threads, Found(t)
  PROVE  Nested' /\ HeldToMake'
  <1>1. PICK g \in Frames : g.class = Class(t) /\ ~Making(g) /\ TopBecomes(t, g)
    BY FoundBecomes DEF SingletonInv
  <1>2. In(t, "found") /\ UNCHANGED <<makes, lock>>
    BY DEF Found
  <1>3. ~Making(stack[t][Len(stack[t])])
    BY <1>2, TopIsFrame DEF SingletonInv, Making
  <1> QED
    BY <1>1, <1>2, <1>3, TopHolds

LEMMA ConstructHolds ==
  ASSUME SingletonInv, Nested, HeldToMake, NEW t \in Threads, Construct(t)
  PROVE  Nested' /\ HeldToMake'
  <1>0. PICK n : n = Len(stack[t])
    OBVIOUS
  <1> DEFINE f == stack[t][n]
             c == Class(t)
             g == [class |-> f.class, at |-> "between", fresh |-> f.fresh, alone |-> f.alone]
             s == [stack[t] EXCEPT ![n] = g]
  <1>1. /\ In(t, "construct") /\ f \in Frames /\ f.class = c /\ f.at = "construct" /\ c \in Classes
        /\ n \in 1..n /\ n \in Nat /\ stack[t] \in Seq(Frames) /\ UNCHANGED <<makes, lock>>
    BY <1>0, TopIsFrame DEF Construct, SingletonInv, Typed
  <1>2. /\ g \in Frames /\ g.class = c /\ g.at = "between" /\ [f EXCEPT !.at = "between"] = g
        /\ Making(f) => Making(g)
    BY <1>1 DEF Frames, Stages, Making
  <1> HIDE DEF g
  <1>3. CASE makes[c] = NoClass
    <2>1. stack' = [stack EXCEPT ![t] = [stack[t] EXCEPT ![Len(stack[t])] = g]]
      BY <1>0, <1>2, <1>3 DEF Construct
    <2>2. TopBecomes(t, g)
      BY <1>1, <1>2, <2>1, TopChanges DEF SingletonInv
    <2> QED
      BY <1>0, <1>1, <1>2, <2>2, TopHolds
  <1>4. CASE makes[c] # NoClass
    <2> DEFINE h == Frame(makes[c])
    <2>1. stack' = [stack EXCEPT ![t] = Append(s, h)]
      BY <1>0, <1>2, <1>4 DEF Construct, SingletonInv, Typed
    <2>2. h \in Frames /\ h.class = makes[c]
      BY <1>1, <1>4 DEF Frame, Frames, Stages, SingletonInv, Typed
    <2>3. /\ s \in Seq(Frames) /\ Len(s) = n
          /\ \A j \in 1..n : s[j] = IF j = n THEN g ELSE stack[t][j]
      BY <1>0, <1>1, <1>2, ExceptSeq
    <2> HIDE DEF s, h
    <2>4. /\ Len(Append(s, h)) = n + 1
          /\ Append(s, h)[n + 1] = h /\ \A j \in 1..n : Append(s, h)[j] = s[j]
      BY <2>2, <2>3, AppendProperties
    <2>5. stack'[t] = Append(s, h) /\ \A u \in Threads \ {t} : stack'[u] = stack[u]
      BY <2>1 DEF SingletonInv, Typed
    <2>6. /\ Len(stack'[t]) = n + 1 /\ stack'[t][n + 1].class = makes[c] /\ stack'[t][n] = g
          /\ \A j \in 1..(n - 1) : stack'[t][j] = stack[t][j]
      BY <1>1, <2>2, <2>3, <2>4, <2>5
    <2>7. Nested'
      <3> SUFFICES ASSUME NEW u \in Threads, NEW i \in 1..Len(stack'[u]), NEW j \in 1..Len(stack'[u]), j = i + 1
                   PROVE  stack'[u][i].at = "between" /\ stack'[u][j].class = makes[stack'[u][i].class]
        BY <1>1 DEF Nested
      <3>1. CASE u # t
        BY <2>5, <3>1 DEF Nested
      <3>2. CASE u = t /\ i = n
        BY <1>2, <2>6, <3>2
      <3>3. CASE u = t /\ i # n
        <4>1. i \in 1..(n - 1) /\ j \in 1..n /\ i \in 1..Len(stack[t]) /\ j \in 1..Len(stack[t])
          BY <1>0, <1>1, <2>6, <3>3
        <4>2. stack[t][i].at = "between" /\ stack[t][j].class = makes[stack[t][i].class]
          BY <4>1 DEF Nested
        <4>3. stack'[t][i] = stack[t][i]
          BY <2>6, <4>1
        <4>4. stack'[t][j].class = stack[t][j].class
          <5>1. CASE j = n
            BY <1>0, <1>1, <1>2, <2>6, <5>1
          <5>2. CASE j # n
            BY <1>1, <2>6, <4>1, <5>2
          <5> QED
            BY <5>1, <5>2
        <4> QED
          BY <3>3, <4>2, <4>3, <4>4
      <3> QED
        BY <3>1, <3>2, <3>3
    <2>8. HeldToMake'
      <3> SUFFICES ASSUME NEW m \in Metaclasses, NEW u \in Threads, lock[m] = u
                   PROVE  \E i \in 1..Len(stack'[u]) : Making(stack'[u][i]) /\ Metaclass(stack'[u][i].class) = m
        BY <1>1 DEF HeldToMake, Metaclass
      <3>1. PICK i \in 1..Len(stack[u]) : Making(stack[u][i]) /\ Metaclass(stack[u][i].class) = m
        BY DEF HeldToMake
      <3>2. CASE u # t
        BY <2>5, <3>1, <3>2
      <3>3. CASE u = t /\ i = n
        BY <1>1, <1>2, <2>6, <3>1, <3>3
      <3>4. CASE u = t /\ i # n
        <4>1. i \in 1..(n - 1) /\ i \in 1..Len(stack'[t])
          BY <1>0, <1>1, <2>6, <3>1, <3>4
        <4> QED
          BY <2>6, <3>1, <3>4, <4>1
      <3> QED
        BY <3>2, <3>3, <3>4
    <2> QED
      BY <2>7, <2>8
  <1> QED
    BY <1>3, <1>4

LEMMA ConstructedHolds ==
  ASSUME SingletonInv, Nested, HeldToMake, NEW t \in Threads, Constructed(t)
  PROVE  Nested' /\ HeldToMake'
  <1> DEFINE f == stack[t][Len(stack[t])]
             c == Class(t)
             g == [class |-> f.class, at |-> "done", fresh |-> f.fresh, alone |-> f.alone]
  <1>1. /\ In(t, "between") /\ f \in Frames /\ f.class = c /\ f.fresh = Fresh(t) /\ UNCHANGED makes
    BY TopIsFrame DEF Constructed, SingletonInv
  <1>2. TopBecomes(t, g)
    BY <1>1, GotoChanges DEF Constructed, SingletonInv, Stages
  <1>3. g \in Frames /\ g.class = c
    BY <1>1 DEF Frames, Stages
  <1> HIDE DEF g
  <1>4. \A m \in Metaclasses : \A u \in Threads : lock'[m] = u =>
          lock[m] = u /\ ~(Making(f) /\ Metaclass(c) = m)
    <2>1. CASE Fresh(t)
      <3>1. lock' = [lock EXCEPT ![Metaclass(c)] = Nobody]
        BY <2>1 DEF Constructed
      <3>2. \A m \in Metaclasses : lock'[m] = IF m = Metaclass(c) THEN Nobody ELSE lock[m]
        BY <3>1 DEF SingletonInv, Typed
      <3> QED
        BY <3>2, NobodyAssumption
    <2>2. CASE ~Fresh(t)
      BY <1>1, <2>2 DEF Constructed, Making
    <2> QED
      BY <2>1, <2>2
  <1> QED
    BY <1>1, <1>2, <1>3, <1>4, TopHolds

\* A call that returns holds no lock for its class, and one that raises lets all its
\* thread's locks go.
LEMMA ReturnHolds ==
  ASSUME SingletonInv, Nested, HeldToMake, NEW t \in Threads, Return(t)
  PROVE  Nested' /\ HeldToMake'
  <1>0. PICK n : n = Len(stack[t])
    OBVIOUS
  <1>1. /\ n \in 1..Len(stack[t]) /\ n \in Nat /\ stack[t][n].at = "done" /\ stack[t] \in Seq(Frames)
        /\ UNCHANGED <<makes, lock>>
    BY <1>0, TopIsFrame DEF Return, SingletonInv, Typed
  <1>2. stack'[t] = Front(stack[t]) /\ \A u \in Threads \ {t} : stack'[u] = stack[u]
    BY DEF Return, SingletonInv, Typed
  <1>3. Len(stack'[t]) = n - 1 /\ \A i \in 1..(n - 1) : stack'[t][i] = stack[t][i]
    BY <1>0, <1>1, <1>2, SubSeqProperties DEF Front
  <1>4. \A u \in Threads : \A i \in 1..Len(stack'[u]) : i \in 1..Len(stack[u]) /\ stack'[u][i] = stack[u][i]
    BY <1>0, <1>1, <1>2, <1>3
  <1>5. Nested'
    BY <1>1, <1>4 DEF Nested
  <1>6. HeldToMake'
    <2> SUFFICES ASSUME NEW m \in Metaclasses, NEW u \in Threads, lock[m] = u
                 PROVE  \E i \in 1..Len(stack'[u]) : Making(stack'[u][i]) /\ Metaclass(stack'[u][i].class) = m
      BY <1>1 DEF HeldToMake, Metaclass
    <2>1. PICK i \in 1..Len(stack[u]) : Making(stack[u][i]) /\ Metaclass(stack[u][i].class) = m
      BY DEF HeldToMake
    <2>2. i \in 1..Len(stack'[u])
      BY <1>0, <1>1, <1>2, <1>3, <2>1 DEF Making
    <2> QED
      BY <1>4, <2>1, <2>2
  <1> QED
    BY <1>5, <1>6

LEMMA RaiseHolds ==
  ASSUME SingletonInv, Nested, HeldToMake, NEW t \in Threads, Raise(t)
  PROVE  Nested' /\ HeldToMake'
  <1>1. /\ stack'[t] = <<>> /\ \A u \in Threads \ {t} : stack'[u] = stack[u] /\ UNCHANGED makes
        /\ \A m \in Metaclasses : lock'[m] = IF lock[m] = t THEN Nobody ELSE lock[m]
    BY DEF Raise, SingletonInv, Typed
  <1>2. Len(stack'[t]) = 0 /\ UNCHANGED makes
    BY <1>1 DEF Raise
  <1>3. Nested'
    BY <1>1, <1>2 DEF Nested
  <1>4. HeldToMake'
    BY <1>1, NobodyAssumption DEF HeldToMake
  <1> QED
    BY <1>3, <1>4

LEMMA HoldsBegin == SingletonInit => Nested /\ HeldToMake
  <1> SUFFICES ASSUME SingletonInit PROVE Nested /\ HeldToMake
    OBVIOUS
  <1>1. \A t \in Threads : Len(stack[t]) = 0
    BY DEF SingletonInit
  <1>2. \A m \in Metaclasses : \A t \in Threads : lock[m] # t
    BY NobodyAssumption DEF SingletonInit
  <1> QED
    BY <1>1, <1>2 DEF Nested, HeldToMake

LEMMA HoldsStay ==
  SingletonInv /\ Nested /\ HeldToMake /\ [SingletonNext]_singletonVars => Nested' /\ HeldToMake'
  <1> SUFFICES ASSUME SingletonInv, Nested, HeldToMake, [SingletonNext]_singletonVars
               PROVE  Nested' /\ HeldToMake'
    OBVIOUS
  <1>1. CASE UNCHANGED singletonVars
    BY <1>1 DEF singletonVars, Nested, HeldToMake
  <1>2. ASSUME NEW t \in Threads, CallStep(t) PROVE Nested' /\ HeldToMake'
    BY <1>2, LookHolds, LookAgainHolds, FoundHolds, ConstructHolds, ConstructedHolds, ReturnHolds DEF CallStep
  <1> QED
    BY <1>1, <1>2, RaiseHolds, CallHolds DEF SingletonNext

\* A call that waits while it holds a lock is the one that a nested constructor has made.
LEMMA HolderIsNested ==
  ASSUME SingletonInv, Nested, HeldToMake, Ordered,
         NEW m \in Metaclasses, NEW u \in Threads, lock[m] = u, In(u, "wait")
  PROVE  Metaclass(Class(u)) # m /\ \E c \in Classes : makes[c] # NoClass /\ Metaclass(c) = m
  <1>0. PICK n : n = Len(stack[u])
    OBVIOUS
  <1>1. n \in Nat /\ stack[u][n].at = "wait" /\ stack[u][n].class = Class(u)
    BY <1>0, TopIsFrame DEF SingletonInv
  <1>2. \A i \in 1..n : stack[u][i].class \in Classes
    <2>1. stack[u] \in Seq(Frames)
      BY DEF SingletonInv, Typed
    <2>2. \A i \in 1..n : stack[u][i] \in Frames
      BY <1>0, <2>1
    <2> QED
      BY <2>2 DEF Frames
  <1>3. PICK i \in 1..n : Making(stack[u][i]) /\ Metaclass(stack[u][i].class) = m
    BY <1>0 DEF HeldToMake
  <1>4. i + 1 \in 1..n
    BY <1>1, <1>3 DEF Making
  <1> DEFINE c == stack[u][i].class
             d == stack[u][i + 1].class
  <1>5. c \in Classes /\ d \in Classes /\ d = makes[c] /\ makes[c] # NoClass
    BY <1>0, <1>2, <1>4, ClassesAssumption DEF Nested
  <1>6. Metaclass(d) # m
    BY <1>3, <1>5 DEF Ordered
  <1>7. i + 1 = n
    <2> SUFFICES ASSUME i + 1 # n PROVE FALSE
      OBVIOUS
    <2>1. i + 2 \in 1..n /\ i + 2 = (i + 1) + 1
      BY <1>1, <1>4
    <2>2. stack[u][i + 2].class = makes[d] /\ stack[u][i + 2].class \in Classes
      BY <1>0, <1>2, <1>4, <2>1 DEF Nested
    <2>3. makes[d] # NoClass
      BY <2>2, ClassesAssumption
    <2> QED
      BY <1>3, <1>5, <1>6, <2>3 DEF Ordered
  <1> QED
    BY <1>1, <1>3, <1>5, <1>6, <1>7

LEMMA NoCircleFollows ==
  ASSUME SingletonInv, Nested, HeldToMake
  PROVE  NoCircle
  <1> SUFFICES ASSUME Ordered, NEW t \in Threads, NEW u \in Threads, WaitsFor(t, u)
               PROVE  /\ t # u /\ stack[u] # <<>>
                      /\ \A v \in Threads : WaitsFor(u, v) => v # t /\ \A w \in Threads : ~WaitsFor(v, w)
    BY DEF NoCircle
  <1>1. \A v \in Threads : Metaclass(Class(v)) \in Metaclasses
    BY DEF Metaclass, Metaclasses
  <1>2. lock[Metaclass(Class(t))] = u /\ In(t, "wait")
    BY DEF WaitsFor
  <1>3. stack[u] # <<>>
    <2>1. \E i \in 1..Len(stack[u]) : Making(stack[u][i])
      BY <1>1, <1>2 DEF HeldToMake
    <2>2. Len(<<>>) = 0
      OBVIOUS
    <2> QED
      BY <2>1, <2>2
  <1>4. t # u
    BY <1>1, <1>2, HolderIsNested
  <1>5. ASSUME NEW v \in Threads, WaitsFor(u, v), NEW w \in Threads, WaitsFor(v, w)
        PROVE  FALSE
    <2>1. /\ In(u, "wait") /\ lock[Metaclass(Class(u))] = v
          /\ In(v, "wait") /\ lock[Metaclass(Class(v))] = w
      BY <1>5 DEF WaitsFor
    <2>2. /\ Metaclass(Class(u)) # Metaclass(Class(t))
          /\ \E c \in Classes : makes[c] # NoClass /\ Metaclass(c) = Metaclass(Class(t))
      BY <1>1, <1>2, <2>1, HolderIsNested
    <2>3. \E c \in Classes : makes[c] # NoClass /\ Metaclass(c) = Metaclass(Class(u))
      BY <1>1, <2>1, HolderIsNested
    <2> QED
      BY <2>2, <2>3 DEF Ordered
  <1> QED
    BY <1>3, <1>4, <1>5

\* If all constructors that call other singletons do it under one of the two locks, for
\* classes of the other, no circle of calls waits for each other's locks, in any number of
\* threads: what CallsReturn rests on (the locks of SingletonMeta and RiSingletonMeta).
THEOREM NobodyWaitsInACircle == SingletonSpec => []NoCircle
  <1>1. SingletonInv /\ Nested /\ HeldToMake => NoCircle
    BY NoCircleFollows
  <1> QED
    BY <1>1, SingletonBegins, SingletonStays, HoldsBegin, HoldsStay, PTL DEF SingletonSpec

\* And so some call can take its next step, whenever there is a call.
THEOREM SomeCallGoesOn == SingletonSpec => []SomebodyGoesOn
  <1>1. SingletonInv /\ NoCircle => SomebodyGoesOn
    <2> SUFFICES ASSUME SingletonInv, NoCircle, Ordered, NEW t \in Threads, stack[t] # <<>>
                 PROVE  \E u \in Threads : CanGoOn(u)
      BY DEF SomebodyGoesOn
    <2>1. ASSUME NEW u \in Threads, stack[u] # <<>>, ~CanGoOn(u)
          PROVE  \E v \in Threads : WaitsFor(u, v)
      <3>1. Metaclass(Class(u)) \in Metaclasses
        BY DEF Metaclass, Metaclasses
      <3> QED
        BY <2>1, <3>1 DEF CanGoOn, WaitsFor, SingletonInv, Typed
    <2>2. CASE CanGoOn(t)
      BY <2>2
    <2>3. CASE ~CanGoOn(t)
      <3>1. PICK u \in Threads : WaitsFor(t, u)
        BY <2>1, <2>3
      <3>2. stack[u] # <<>> /\ \A v \in Threads : WaitsFor(u, v) => \A w \in Threads : ~WaitsFor(v, w)
        BY <3>1 DEF NoCircle
      <3>3. CASE ~CanGoOn(u)
        <4>1. PICK v \in Threads : WaitsFor(u, v)
          BY <2>1, <3>2, <3>3
        <4>2. stack[v] # <<>>
          BY <4>1 DEF NoCircle
        <4> QED
          BY <2>1, <3>2, <4>1, <4>2
      <3> QED
        BY <3>3
    <2> QED
      BY <2>2, <2>3
  <1> QED
    BY <1>1, NobodyWaitsInACircle, SingletonBegins, SingletonStays, PTL DEF SingletonSpec
=============================================================================
