---------------------------- MODULE DoStoreProofs ----------------------------
(***************************************************************************)
(* That a store of any kind overwrites nothing unasked, holds what it      *)
(* reported written, is quiet and without clients once it is closed, and   *)
(* that closing it waits for nothing that needs the loop: for any keys,    *)
(* any number of calls and of threads, cancellations and failures.         *)
(***************************************************************************)
EXTENDS DoStore, FiniteSetTheorems, SequenceTheorems, TLAPS

Typed ==
  /\ kind \in Kinds
  /\ executor \in {"open", "draining", "none"}
  /\ call \in [Calls -> Requests \cup {NoRequest}]
  /\ pc \in [Calls -> Places]
  /\ bucket \in [Keys -> Contents]
  /\ queue \in Seq(Calls)
  /\ written \in SUBSET Calls /\ deserted \in SUBSET Calls
  /\ kept \in SUBSET Calls /\ rivals \in [Calls -> SUBSET Calls]
  /\ clients \in SUBSET Calls /\ astray \in SUBSET Calls /\ initialized \in BOOLEAN

Key(c) == call[c].key
Writing(c) == pc[c] \in {"write", "fill", "orphan"}
Busy == {"run", "write", "fill", "orphan"}

\* A call that has not begun is nowhere; and only puts write.
Unbegun ==
  \A c \in Calls : pc[c] = "out" =>
    call[c] = NoRequest /\ c \notin kept \cup written /\ \A x \in Calls : c \notin rivals[x]
PutsWrite == \A c \in Calls : Writing(c) => c \in Of("put")

\* What was there when a put without overwrite began is still, and the put does not write.
KeptThere ==
  \A c \in kept :
    c \in Of("put") /\ ~call[c].overwrite /\ bucket[Key(c)] # Absent /\ ~Writing(c)

\* A change that is under way is a rival of each put of its key, the older and the later ones.
RivalsKnown ==
  \A c \in Of("put"), d \in Changes : d # c /\ Key(d) = Key(c) /\ pc[d] # "back" => d \in rivals[c]

\* What the key of a put holds is its data or left by a rival.
Explained(c) ==
  bucket[Key(c)] = c \/ \E x \in rivals[c] : bucket[Key(c)] \in Left(x)

\* A file that is open holds what its writer made of it, unless a rival writes too; of one
\* that was deleted, as of one that is written, the key holds nothing unexplained.
FillShown ==
  \A c \in Calls : pc[c] = "fill" => bucket[Key(c)] = Partial \/ \E x \in rivals[c] : x \in Of("put")
Settled == \A c \in Calls : pc[c] = "orphan" \/ c \in written => Explained(c)

\* A put that reports success is over.
WrittenOver == \A c \in written : c \in Of("put") /\ pc[c] \in {"returned", "back"}

\* The pool: who is queued is in the queue, once, with nobody else but calls that were
\* withdrawn; and nobody is once the pool is gone.
Queued == \A c \in Calls : pc[c] = "queued" => \E n \in 1..Len(queue) : queue[n] = c
QueuedOnce ==
  /\ \A m, n \in 1..Len(queue) : queue[m] = queue[n] => m = n
  /\ \A n \in 1..Len(queue) : pc[queue[n]] \in {"queued", "back"}
PoolGone == executor = "none" => queue = <<>> /\ \A c \in Calls : pc[c] # "run" /\ ~Writing(c)

\* Threads have work for threads, and files only in the file system.
PlacesFit ==
  \A c \in Calls :
    /\ pc[c] \in {"queued", "run"} => c \in Of("get") \cup Of("put") \cup Of("delete")
    /\ pc[c] \in {"queued"} \cup Busy => kind # "azure-blob"
    /\ pc[c] \in {"probe", "create", "remote"} => kind = "azure-blob"
    /\ pc[c] \in {"fill", "orphan"} => kind = "unix-fs"

\* The clients of Azure.  Those of the other stores are not modelled.
ClientsClosed ==
  /\ kind # "azure-blob" => clients = {}
  /\ clients \subseteq {service} \cup astray
  /\ ~initialized => clients \subseteq Initializing \cup astray
  /\ executor # "open" => clients \subseteq astray
  /\ (\E c \in Calls : pc[c] \in {"unset", "shutting", "joining"}) => clients \subseteq astray

DataInv ==
  Unbegun /\ PutsWrite /\ KeptThere /\ RivalsKnown /\ FillShown /\ Settled /\ WrittenOver
PoolInv == Queued /\ QueuedOnce /\ PoolGone
StoreInv == Typed /\ DataInv /\ PoolInv /\ PlacesFit /\ ClientsClosed

-----------------------------------------------------------------------------
(* The objects                                                              *)

\* Who began stays who he is, and what changes leave behind too.
LEMMA SameCalls ==
  ASSUME call' = call
  PROVE  /\ \A op : Of(op)' = Of(op)
         /\ Changes' = Changes /\ \A x : Key(x)' = Key(x)
         /\ \A x : Left(x)' = Left(x)
  <1>1. \A op : Of(op)' = Of(op)
    BY DEF Of
  <1>2. Changes' = Changes /\ \A x : Key(x)' = Key(x)
    BY <1>1 DEF Changes, Key
  <1> QED
    BY <1>1, <1>2 DEF Left

LEMMA PutsHaveKeys ==
  ASSUME Typed
  PROVE  \A x \in Changes : x \in Calls /\ Key(x) \in Keys
  BY DEF Typed, Of, Changes, Key, Requests, NoRequest, Close

\* Steps that change no object: a call moves on, and writes nothing yet.
Moves(c) ==
  /\ pc[c] \notin {"out", "back"}
  /\ pc' = [pc EXCEPT ![c] = pc'[c]] /\ pc'[c] \in Places \ {"out", "write", "fill", "orphan"}
  /\ written' \subseteq written /\ (c \in written' => pc'[c] \in {"returned", "back"})
  /\ UNCHANGED <<bucket, call, kept, rivals>>

LEMMA MovesKeeps ==
  ASSUME Typed, DataInv, NEW c \in Calls, Moves(c)
  PROVE  DataInv'
  <1>1. /\ \A x \in Calls \ {c} : pc'[x] = pc[x]
        /\ pc'[c] \in Places \ {"out", "write", "fill", "orphan"}
        /\ pc[c] \notin {"out", "back"} /\ written' \subseteq written
        /\ (c \in written' => pc'[c] \in {"returned", "back"})
        /\ UNCHANGED <<bucket, call, kept, rivals>>
    BY DEF Moves, Typed
  <1>2. \A x \in Calls : Writing(x)' => Writing(x)
    BY <1>1 DEF Writing
  <1>3. /\ \A op : Of(op)' = Of(op)
        /\ Changes' = Changes /\ \A x : Key(x)' = Key(x) /\ Left(x)' = Left(x)
    BY <1>1, SameCalls
  <1>4. Unbegun' /\ PutsWrite'
    BY <1>1, <1>2, <1>3 DEF DataInv, Unbegun, PutsWrite
  <1>5. KeptThere'
    BY <1>1, <1>2, <1>3 DEF DataInv, KeptThere, Typed
  <1>6. RivalsKnown'
    <2> SUFFICES ASSUME NEW x \in Of("put"), NEW d \in Changes,
                        d # x, Key(d) = Key(x), pc'[d] # "back"
                 PROVE  d \in rivals[x]
      BY <1>1, <1>3 DEF RivalsKnown
    <2>1. pc[d] # "back"
      BY <1>1 DEF Changes, Of
    <2> QED
      BY <2>1 DEF DataInv, RivalsKnown
  <1>7. \A x \in Calls : Explained(x) => Explained(x)'
    BY <1>1, <1>3 DEF Explained
  <1>8. FillShown'
    BY <1>1, <1>3 DEF DataInv, FillShown
  <1>9. Settled'
    BY <1>1, <1>7 DEF DataInv, Settled
  <1>10. WrittenOver'
    BY <1>1, <1>3 DEF DataInv, WrittenOver, Typed
  <1> QED
    BY <1>4, <1>5, <1>6, <1>8, <1>9, <1>10 DEF DataInv

LEMMA BeginsKeeps ==
  ASSUME Typed, DataInv, NEW c \in Calls, NEW r \in Requests, Begins(c, r),
         NEW place \in Places \ {"out", "write", "fill", "orphan"}, Goto(c, place), UNCHANGED written
  PROVE  DataInv' /\ rivals' \in [Calls -> SUBSET Calls]
  <1>1. /\ pc[c] = "out" /\ call[c] = NoRequest /\ c \notin kept \cup written
        /\ \A x \in Calls : c \notin rivals[x]
        /\ call'[c] = r /\ pc'[c] = place
        /\ \A x \in Calls \ {c} : call'[x] = call[x] /\ pc'[x] = pc[x]
        /\ UNCHANGED <<bucket, written>>
    BY DEF Begins, Goto, Typed, DataInv, Unbegun
  <1>2. /\ \A op : c \in Of(op)' <=> r.op = op
        /\ \A op : \A x \in Calls \ {c} : x \in Of(op)' <=> x \in Of(op)
        /\ c \notin Of("get") \cup Of("put") \cup Of("delete")
    BY <1>1 DEF Of, NoRequest
  <1>3. /\ \A x \in Calls : c \in rivals'[x] =>
             x # c /\ r.op \in {"put", "delete"} /\ x \in Of("put") /\ call[x].key = r.key
        /\ \A x \in Calls \ {c} : rivals[x] \subseteq rivals'[x] /\ rivals'[x] \subseteq rivals[x] \cup {c}
        /\ \A x \in Of("put") :
             r.op \in {"put", "delete"} /\ call[x].key = r.key => c \in rivals'[x]
        /\ rivals'[c] = {y \in Changes : r.op = "put" /\ y \in OnKey(r.key) /\ pc[y] # "back"}
        /\ rivals' \in [Calls -> SUBSET Calls]
    <2>1. rivals' = [x \in Calls |->
            IF x = c THEN {y \in Changes : r.op = "put" /\ y \in OnKey(r.key) /\ pc[y] # "back"}
            ELSE rivals[x] \cup {y \in {c} : r.op \in {"put", "delete"} /\ x \in Of("put")
                                              /\ call[x].key = r.key}]
      BY DEF Begins
    <2>2. Changes \subseteq Calls /\ c \notin Changes /\ \A op : Of(op) \subseteq Calls
      BY <1>2 DEF Changes, Of
    <2>3. rivals' \in [Calls -> SUBSET Calls]
      BY <2>1, <2>2 DEF Typed
    <2> QED
      BY <1>1, <1>2, <2>1, <2>2, <2>3
  <1>4. Unbegun'
    <2> SUFFICES ASSUME NEW x \in Calls, pc'[x] = "out"
                 PROVE  /\ call'[x] = NoRequest /\ x \notin kept' \cup written'
                        /\ \A y \in Calls : x \notin rivals'[y]
      BY DEF Unbegun
    <2>1. x # c /\ pc[x] = "out"
      BY <1>1
    <2>2. call[x] = NoRequest /\ x \notin kept \cup written /\ \A y \in Calls : x \notin rivals[y]
      BY <2>1 DEF DataInv, Unbegun
    <2>3. x \notin Changes
      BY <2>2 DEF Changes, Of, NoRequest
    <2>4. \A y \in Calls : x \notin rivals'[y]
      BY <1>3, <2>1, <2>2, <2>3
    <2> QED
      BY <1>1, <2>1, <2>2, <2>4 DEF Begins
  <1>5. PutsWrite'
    BY <1>1, <1>2 DEF DataInv, PutsWrite, Writing
  <1>6. KeptThere'
    <2> SUFFICES ASSUME NEW x \in kept'
                 PROVE  /\ x \in Of("put")' /\ ~call'[x].overwrite /\ bucket[call'[x].key] # Absent
                        /\ pc'[x] \notin {"write", "fill", "orphan"}
      BY <1>1 DEF KeptThere, Key, Writing
    <2>1. CASE x = c
      BY <1>1, <1>2, <2>1 DEF Begins
    <2>2. CASE x # c
      <3>1. x \in kept /\ x \in Calls
        BY <2>2 DEF Begins, Typed
      <3> QED
        BY <1>1, <1>2, <2>2, <3>1 DEF DataInv, KeptThere, Key, Writing
    <2> QED
      BY <2>1, <2>2
  <1>7. RivalsKnown'
    <2> SUFFICES ASSUME NEW x \in Of("put")', NEW d \in Changes',
                        d # x, call'[d].key = call'[x].key, pc'[d] # "back"
                 PROVE  d \in rivals'[x]
      BY DEF RivalsKnown, Key
    <2>1. x \in Calls /\ d \in Calls /\ d \in Of("put")' \cup Of("delete")'
      BY DEF Of, Changes
    <2>2. CASE d = c
      <3>1. x \in Of("put") /\ call'[x] = call[x] /\ r.op \in {"put", "delete"} /\ r.key = call[x].key
        BY <1>1, <1>2, <2>1, <2>2
      <3> QED
        BY <1>3, <2>2, <3>1
    <2>3. CASE d # c
      <3>1. d \in Changes /\ call'[d] = call[d] /\ pc'[d] = pc[d]
        BY <1>1, <1>2, <2>1, <2>3 DEF Changes
      <3>2. CASE x = c
        <4>1. r.op = "put" /\ d \in OnKey(r.key)
          BY <1>1, <1>2, <3>1, <3>2 DEF OnKey, Changes
        <4> QED
          BY <1>3, <3>1, <3>2, <4>1
      <3>3. CASE x # c
        <4>1. x \in Of("put") /\ call'[x] = call[x]
          BY <1>1, <1>2, <2>1, <3>3
        <4>2. d \in rivals[x]
          BY <3>1, <4>1 DEF DataInv, RivalsKnown, Key
        <4> QED
          BY <1>3, <2>1, <3>3, <4>2
      <3> QED
        BY <3>2, <3>3
    <2> QED
      BY <2>2, <2>3
  <1>8. \A x \in Calls \ {c} : \A y \in rivals[x] :
          y \in rivals'[x] /\ y # c /\ y \in Calls /\ Left(y)' = Left(y)
    <2>1. \A y \in Calls \ {c} : Left(y)' = Left(y)
      BY <1>2 DEF Left
    <2> QED
      BY <1>1, <1>3, <2>1 DEF Typed
  <1>9. \A x \in Calls \ {c} : Explained(x) => Explained(x)'
    <2> SUFFICES ASSUME NEW x \in Calls \ {c}, Explained(x)
                 PROVE  bucket[call[x].key] = x \/ \E y \in rivals'[x] : bucket[call[x].key] \in Left(y)'
      BY <1>1 DEF Explained, Key
    <2> QED
      BY <1>8 DEF Explained, Key
  <1>10. FillShown'
    <2> SUFFICES ASSUME NEW x \in Calls, pc'[x] = "fill"
                 PROVE  bucket[call'[x].key] = Partial \/ \E y \in rivals'[x] : y \in Of("put")'
      BY <1>1 DEF FillShown, Key
    <2>1. x # c /\ pc[x] = "fill" /\ call'[x] = call[x]
      BY <1>1
    <2>2. bucket[call[x].key] = Partial \/ \E y \in rivals[x] : y \in Of("put")
      BY <2>1 DEF DataInv, FillShown, Key
    <2> QED
      BY <1>2, <1>8, <2>1, <2>2
  <1>11. Settled'
    <2> SUFFICES ASSUME NEW x \in Calls, pc'[x] = "orphan" \/ x \in written'
                 PROVE  Explained(x)'
      BY DEF Settled
    <2>1. x # c /\ (pc[x] = "orphan" \/ x \in written)
      BY <1>1
    <2> QED
      BY <1>9, <2>1 DEF DataInv, Settled
  <1>12. WrittenOver'
    <2>1. \A x \in written : x \in Calls \ {c} /\ x \in Of("put") /\ pc[x] \in {"returned", "back"}
      BY <1>1 DEF DataInv, WrittenOver, Typed
    <2> QED
      BY <1>1, <1>2, <2>1 DEF WrittenOver
  <1> QED
    BY <1>3, <1>4, <1>5, <1>6, <1>7, <1>10, <1>11, <1>12 DEF DataInv

\* A call that begins has something to do, and nobody else does it.
Active(c) == pc[c] \notin {"out", "back"}

\* Steps that change the object under the key of a put that may write, or that begin
\* to: whatever the object is then, there is one.  Azure refuses what exists.
Writes(c) ==
  /\ Active(c) /\ c \in Of("put") /\ c \notin kept
  /\ bucket' \in [Keys -> Contents]
  /\ \A k \in Keys \ {Key(c)} : bucket'[k] = bucket[k]
  /\ bucket'[Key(c)] \in {bucket[Key(c)], c, Partial, Garbled}
  /\ \/ bucket'[Key(c)] = bucket[Key(c)]
     \/ kind # "azure-blob" \/ call[c].overwrite \/ bucket[Key(c)] = Absent
  /\ pc' = [pc EXCEPT ![c] = pc'[c]] /\ pc'[c] \in Places \ {"out", "orphan"}
  /\ pc'[c] = "fill" => bucket'[Key(c)] = Partial
  /\ written' \subseteq written \cup {c}
  /\ c \in written' =>
       /\ pc'[c] \in {"returned", "back"}
       /\ bucket'[Key(c)] = c \/ \E x \in rivals[c] : bucket'[Key(c)] \in Left(x)
  /\ UNCHANGED <<kind, call, kept, rivals>>

LEMMA WritesKeeps ==
  ASSUME Typed, DataInv, NEW c \in Calls, Writes(c)
  PROVE  DataInv'
  <1>1. /\ \A x \in Calls \ {c} : pc'[x] = pc[x]
        /\ pc[c] \notin {"out", "back"} /\ c \in Changes /\ Key(c) \in Keys
        /\ c \notin Of("delete") /\ c \in Of("put")
        /\ UNCHANGED <<call, kept, rivals>>
    BY PutsHaveKeys DEF Writes, Typed, Active, Of, Changes
  <1>2. /\ \A op : Of(op)' = Of(op)
        /\ Changes' = Changes /\ \A x : Key(x)' = Key(x) /\ Left(x)' = Left(x)
    BY <1>1, SameCalls
  <1>3. \A x \in Of("put") : x \in Calls /\ Key(x) \in Keys /\ x \in Changes
    BY PutsHaveKeys DEF Changes
  \* The one that writes is a rival of the other puts of its key.
  <1>4. \A x \in Of("put") \ {c} : Key(x) = Key(c) => c \in rivals[x]
    BY <1>1 DEF DataInv, RivalsKnown
  <1>5. \A x \in Of("put") \ {c} : Key(x) # Key(c) => bucket'[Key(x)] = bucket[Key(x)]
    BY <1>3 DEF Writes
  <1>6. bucket'[Key(c)] \in {bucket[Key(c)]} \cup Left(c)
    BY <1>1 DEF Writes, Left
  <1>7. Unbegun'
    BY <1>1 DEF DataInv, Unbegun, Writes
  <1>8. PutsWrite'
    BY <1>1, <1>2 DEF DataInv, PutsWrite, Writes, Writing
  <1>9. KeptThere'
    <2> SUFFICES ASSUME NEW x \in kept
                 PROVE  x \in Of("put") /\ ~call[x].overwrite /\ bucket'[Key(x)] # Absent /\ ~Writing(x)'
      BY <1>1, <1>2 DEF KeptThere
    <2>1. x # c /\ x \in Calls
      BY DEF Writes, Typed
    <2>2. x \in Of("put") /\ ~call[x].overwrite /\ bucket[Key(x)] # Absent /\ ~Writing(x)
      BY DEF DataInv, KeptThere
    <2>3. bucket'[Key(x)] # Absent
      <3>1. c # Absent /\ Partial # Absent /\ Garbled # Absent
        BY AbsentAssumption DEF Calls
      <3>2. CASE Key(x) = Key(c)
        BY <2>2, <3>1, <3>2 DEF Writes
      <3>3. CASE Key(x) # Key(c)
        BY <1>5, <2>1, <2>2, <3>3
      <3> QED
        BY <3>2, <3>3
    <2> QED
      BY <1>1, <2>1, <2>2, <2>3 DEF Writing
  <1>10. RivalsKnown'
    <2> SUFFICES ASSUME NEW x \in Of("put"), NEW d \in Changes,
                        d # x, Key(d) = Key(x), pc'[d] # "back"
                 PROVE  d \in rivals[x]
      BY <1>1, <1>2 DEF RivalsKnown
    <2>1. pc[d] # "back"
      BY <1>1 DEF Changes, Of
    <2> QED
      BY <2>1 DEF DataInv, RivalsKnown
  <1>11. \A x \in Of("put") \ {c} : Explained(x) => Explained(x)'
    <2> SUFFICES ASSUME NEW x \in Of("put") \ {c}, Explained(x)
                 PROVE  bucket'[Key(x)] = x \/ \E y \in rivals[x] : bucket'[Key(x)] \in Left(y)
      BY <1>1, <1>2 DEF Explained
    <2>1. CASE bucket'[Key(x)] = bucket[Key(x)]
      BY <2>1 DEF Explained
    <2>2. CASE bucket'[Key(x)] # bucket[Key(x)]
      <3>1. Key(x) = Key(c)
        BY <1>5, <2>2
      <3>2. c \in rivals[x] /\ bucket'[Key(x)] \in Left(c)
        BY <1>4, <1>6, <2>2, <3>1
      <3> QED
        BY <3>2
    <2> QED
      BY <2>1, <2>2
  <1>12. FillShown'
    <2> SUFFICES ASSUME NEW x \in Calls, pc'[x] = "fill"
                 PROVE  bucket'[Key(x)] = Partial \/ \E y \in rivals[x] : y \in Of("put")
      BY <1>1, <1>2 DEF FillShown
    <2>1. CASE x = c
      BY <2>1 DEF Writes
    <2>2. CASE x # c
      <3>1. pc[x] = "fill" /\ x \in Of("put")
        BY <1>1, <2>2 DEF DataInv, PutsWrite, Writing
      <3>2. CASE Key(x) = Key(c)
        BY <1>1, <1>4, <2>2, <3>1, <3>2
      <3>3. CASE Key(x) # Key(c)
        BY <1>5, <2>2, <3>1, <3>3 DEF DataInv, FillShown
      <3> QED
        BY <3>2, <3>3
    <2> QED
      BY <2>1, <2>2
  <1>13. Settled'
    <2> SUFFICES ASSUME NEW x \in Calls, pc'[x] = "orphan" \/ x \in written'
                 PROVE  Explained(x)'
      BY DEF Settled
    <2>1. CASE x = c
      <3>1. c \in written'
        BY <2>1 DEF Writes
      <3>2. bucket'[Key(c)] = c \/ \E y \in rivals[c] : bucket'[Key(c)] \in Left(y)
        BY <3>1 DEF Writes
      <3> QED
        BY <1>1, <1>2, <2>1, <3>2 DEF Explained
    <2>2. CASE x # c
      <3>1. pc[x] = "orphan" \/ x \in written
        BY <1>1, <2>2 DEF Writes
      <3>2. x \in Of("put") /\ Explained(x)
        BY <3>1 DEF DataInv, Settled, PutsWrite, Writing, WrittenOver
      <3> QED
        BY <1>11, <2>2, <3>2
    <2> QED
      BY <2>1, <2>2
  <1>14. WrittenOver'
    <2> SUFFICES ASSUME NEW x \in written' PROVE x \in Of("put") /\ pc'[x] \in {"returned", "back"}
      BY <1>2 DEF WrittenOver
    <2>1. CASE x = c
      BY <1>1, <2>1 DEF Writes
    <2>2. CASE x # c
      BY <1>1, <2>2 DEF Writes, DataInv, WrittenOver, Typed
    <2> QED
      BY <2>1, <2>2
  <1> QED
    BY <1>7, <1>8, <1>9, <1>10, <1>12, <1>13, <1>14 DEF DataInv

\* Steps that remove the object under the key of a delete, and with it the name of the
\* files that are open.
Deletes(c) ==
  /\ Active(c) /\ c \in Of("delete") /\ ~Writing(c)
  /\ bucket' = [bucket EXCEPT ![Key(c)] = Absent]
  /\ kept' = kept \ OnKey(Key(c))
  /\ pc'[c] \in {"returned", "back"}
  /\ pc' \in [Calls -> Places]
  /\ \A x \in Calls \ {c} :
       pc'[x] = IF pc[x] = "fill" /\ x \in OnKey(Key(c)) THEN "orphan" ELSE pc[x]
  /\ UNCHANGED <<kind, call, written, rivals>>

LEMMA DeletesKeeps ==
  ASSUME Typed, DataInv, NEW c \in Calls, Deletes(c)
  PROVE  DataInv'
  <1>1. /\ pc[c] \notin {"out", "back"} /\ c \in Changes /\ Key(c) \in Keys
        /\ pc'[c] \in {"returned", "back"}
        /\ UNCHANGED <<call, written, rivals>>
        /\ Left(c) = {Absent} /\ c \notin Of("put")
    BY PutsHaveKeys DEF Deletes, Active, Changes, Left, Of
  <1>2. /\ \A op : Of(op)' = Of(op)
        /\ Changes' = Changes /\ \A x : Key(x)' = Key(x) /\ Left(x)' = Left(x)
    BY <1>1, SameCalls
  <1>3. \A x \in Of("put") :
          x \in Calls \ {c} /\ Key(x) \in Keys /\ (x \in OnKey(Key(c)) <=> Key(x) = Key(c))
    <2>1. \A x \in Of("put") : x \in Changes
      BY DEF Changes
    <2> QED
      BY <1>1, <2>1, PutsHaveKeys DEF OnKey, Key
  <1>4. \A x \in Of("put") : bucket'[Key(x)] = IF Key(x) = Key(c) THEN Absent ELSE bucket[Key(x)]
    BY <1>3 DEF Deletes, Typed
  <1>5. \A x \in Of("put") : Key(x) = Key(c) => c \in rivals[x]
    BY <1>1, <1>3 DEF DataInv, RivalsKnown
  <1>6. Unbegun'
    <2> SUFFICES ASSUME NEW x \in Calls, pc'[x] = "out"
                 PROVE  /\ call[x] = NoRequest /\ x \notin kept' \cup written
                        /\ \A y \in Calls : x \notin rivals[y]
      BY <1>1 DEF Unbegun
    <2>1. pc[x] = "out"
      BY <1>1 DEF Deletes
    <2> QED
      BY <2>1 DEF DataInv, Unbegun, Deletes
  <1>7. PutsWrite'
    BY <1>1, <1>2 DEF DataInv, PutsWrite, Deletes, Writing
  <1>8. KeptThere'
    <2> SUFFICES ASSUME NEW x \in kept, x \notin OnKey(Key(c))
                 PROVE  x \in Of("put") /\ ~call[x].overwrite /\ bucket'[Key(x)] # Absent /\ ~Writing(x)'
      BY <1>1, <1>2 DEF KeptThere, Deletes
    <2>1. x \in Of("put") /\ ~call[x].overwrite /\ bucket[Key(x)] # Absent /\ ~Writing(x)
      BY DEF DataInv, KeptThere
    <2>2. Key(x) # Key(c) /\ x \in Calls \ {c}
      BY <1>3, <2>1
    <2> QED
      BY <1>4, <2>1, <2>2 DEF Deletes, Writing
  <1>9. RivalsKnown'
    <2> SUFFICES ASSUME NEW x \in Of("put"), NEW d \in Changes,
                        d # x, Key(d) = Key(x), pc'[d] # "back"
                 PROVE  d \in rivals[x]
      BY <1>1, <1>2 DEF RivalsKnown
    <2>1. pc[d] # "back"
      BY <1>1 DEF Changes, Of, Deletes
    <2> QED
      BY <2>1 DEF DataInv, RivalsKnown
  <1>10. ASSUME NEW x \in Of("put"), Key(x) = Key(c) \/ Explained(x)
         PROVE  Explained(x)'
    <2>1. CASE Key(x) = Key(c)
      BY <1>1, <1>2, <1>4, <1>5, <2>1 DEF Explained
    <2>2. CASE Key(x) # Key(c)
      BY <1>1, <1>2, <1>4, <1>10, <2>2 DEF Explained
    <2> QED
      BY <2>1, <2>2
  <1>11. FillShown'
    <2> SUFFICES ASSUME NEW x \in Calls, pc'[x] = "fill"
                 PROVE  bucket'[Key(x)] = Partial \/ \E y \in rivals[x] : y \in Of("put")
      BY <1>1, <1>2 DEF FillShown
    <2>1. x # c /\ pc[x] = "fill" /\ x \notin OnKey(Key(c))
      BY <1>1 DEF Deletes
    <2>2. x \in Of("put")
      BY <2>1 DEF DataInv, PutsWrite, Writing
    <2>3. bucket'[Key(x)] = bucket[Key(x)]
      BY <1>3, <1>4, <2>1, <2>2
    <2> QED
      BY <2>1, <2>3 DEF DataInv, FillShown
  <1>12. Settled'
    <2> SUFFICES ASSUME NEW x \in Calls, pc'[x] = "orphan" \/ x \in written
                 PROVE  Explained(x)'
      BY <1>1 DEF Settled
    <2>1. \/ pc[x] = "fill" /\ x \in OnKey(Key(c))
          \/ pc[x] = "orphan" \/ x \in written
      BY <1>1 DEF Deletes
    <2>2. x \in Of("put")
      BY <2>1 DEF DataInv, PutsWrite, Writing, WrittenOver
    <2>3. Key(x) = Key(c) \/ Explained(x)
      BY <1>3, <2>1, <2>2 DEF DataInv, Settled
    <2> QED
      BY <1>10, <2>2, <2>3
  <1>13. WrittenOver'
    BY <1>1, <1>2 DEF DataInv, WrittenOver, Deletes, Typed
  <1> QED
    BY <1>6, <1>7, <1>8, <1>9, <1>11, <1>12, <1>13 DEF DataInv

-----------------------------------------------------------------------------
(* Each action is one of these steps                                        *)

BeginsOnly(c) ==
  \E r \in Requests, place \in Places \ {"out", "write", "fill", "orphan"} :
    Begins(c, r) /\ Goto(c, place) /\ UNCHANGED written

DataStep ==
  \/ UNCHANGED <<kind, bucket, call, pc, written, kept, rivals>>
  \/ \E c \in Calls : BeginsOnly(c) \/ Moves(c) \/ Writes(c) \/ Deletes(c)

LEMMA MoveIs ==
  ASSUME Typed, DataInv, NEW c \in Calls, NEW place \in Places \ {"out", "write", "fill", "orphan"},
         pc[c] \notin {"out", "back"}, Goto(c, place),
         written' \in {written, written \ {c}}, place \in {"returned", "back"} \/ c \notin written',
         UNCHANGED <<bucket, call, kept, rivals>>
  PROVE  Moves(c)
  BY DEF Moves, Goto, Typed

\* What has not come back has not reported anything.
LEMMA NotYetWritten ==
  ASSUME DataInv, NEW c \in Calls, pc[c] \notin {"returned", "back"}
  PROVE  c \notin written
  BY DEF DataInv, WrittenOver

LEMMA ReturnIs ==
  ASSUME Typed, DataInv, NEW c \in Calls, pc[c] \notin {"out", "back"}, Returns(c),
         UNCHANGED <<bucket, call, written, kept, rivals>>
  PROVE  Moves(c)
  <1>1. \E place \in {"returned", "back"} : Goto(c, place)
    BY DEF Returns
  <1> QED
    BY <1>1, MoveIs DEF Places

\* A put stores something under its key and goes on.
LEMMA StoreIs ==
  ASSUME Typed, DataInv, NEW c \in Calls, NEW v \in {c, Partial, Garbled, bucket[Key(c)]}, Stores(c, v),
         pc[c] \notin {"out", "returned", "back"}, c \in Of("put"), c \notin kept,
         kind # "azure-blob" \/ call[c].overwrite \/ bucket[Key(c)] = Absent,
         NEW place \in {"fill", "returned", "back"}, Goto(c, place), place = "fill" => v = Partial,
         written' \subseteq written \cup {c},
         c \in written' => place # "fill" /\ (v = c \/ \E x \in rivals[c] : v \in Left(x)),
         UNCHANGED <<kind, call, kept, rivals>>
  PROVE  Writes(c)
  <1>1. Key(c) \in Keys
    BY PutsHaveKeys DEF Changes
  <1>2. bucket' = [bucket EXCEPT ![Key(c)] = v] /\ v \in Contents
    BY <1>1 DEF Stores, Key, Contents, Typed
  <1>3. bucket' \in [Keys -> Contents] /\ bucket'[Key(c)] = v
    BY <1>1, <1>2 DEF Typed
  <1>4. \A k \in Keys \ {Key(c)} : bucket'[k] = bucket[k]
    BY <1>2 DEF Typed
  <1>5. pc' = [pc EXCEPT ![c] = pc'[c]] /\ pc'[c] = place
    BY DEF Goto, Typed
  <1> QED
    BY <1>3, <1>4, <1>5 DEF Writes, Active, Places

LEMMA GetInPoolIs ==
  ASSUME StoreInv, NEW c \in Calls, GetInPool(c)
  PROVE  Moves(c)
  BY ReturnIs DEF GetInPool, StoreInv, past

LEMMA DeleteInPoolIs ==
  ASSUME StoreInv, NEW c \in Calls, DeleteInPool(c)
  PROVE  Deletes(c)
  <1>1. /\ pc[c] = "run" /\ c \in Of("delete") /\ Removes(c)
        /\ pc' = [x \in Calls |->
              IF x = c THEN IF c \in deserted THEN "back" ELSE "returned"
              ELSE IF pc[x] = "fill" /\ x \in OnKey(Key(c)) THEN "orphan" ELSE pc[x]]
        /\ UNCHANGED <<kind, call, written, rivals>>
    BY DEF DeleteInPool, Key, config, Removes
  <1>2. pc' \in [Calls -> Places] /\ pc'[c] \in {"returned", "back"}
    BY <1>1 DEF StoreInv, Typed, Places
  <1> QED
    BY <1>1, <1>2 DEF Deletes, Active, Writing, Removes, Stores, Key

LEMMA CheckPutIs ==
  ASSUME StoreInv, NEW c \in Calls, CheckPut(c)
  PROVE  Moves(c) \/ Writes(c)
  <1>1. /\ pc[c] = "run" /\ c \in Of("put") /\ UNCHANGED <<kind, bucket, call, written, kept, rivals>>
    BY DEF CheckPut, past, config
  <1>2. CASE ~call[c].overwrite /\ bucket[call[c].key] # Absent
    BY <1>1, <1>2, ReturnIs DEF CheckPut, StoreInv
  <1>3. CASE ~(~call[c].overwrite /\ bucket[call[c].key] # Absent)
    <2>1. c \notin kept /\ c \notin written
      BY <1>1, <1>3, NotYetWritten DEF StoreInv, DataInv, KeptThere, Key
    <2>2. Goto(c, "write")
      BY <1>3 DEF CheckPut
    <2> QED
      BY <1>1, <2>1, <2>2 DEF Writes, Active, Goto, StoreInv, Typed, Places
  <1> QED
    BY <1>2, <1>3

LEMMA UploadIs ==
  ASSUME StoreInv, NEW c \in Calls, Upload(c)
  PROVE  Writes(c)
  <1>1. /\ pc[c] = "write" /\ c \in Of("put") /\ c \notin kept /\ c \notin written
        /\ kind # "azure-blob"
    BY NotYetWritten DEF Upload, StoreInv, DataInv, PutsWrite, KeptThere, Writing, PlacesFit, Busy
  <1>2. /\ Stores(c, c) /\ UNCHANGED <<kind, call, kept, rivals>> /\ written' \subseteq written \cup {c}
        /\ \E place \in {"returned", "back"} : Goto(c, place)
    BY DEF Upload, Returns, Says, past, config
  <1> QED
    BY <1>1, <1>2, StoreIs DEF StoreInv

LEMMA OpenFileIs ==
  ASSUME StoreInv, NEW c \in Calls, OpenFile(c)
  PROVE  Writes(c)
  <1>1. /\ pc[c] = "write" /\ c \in Of("put") /\ c \notin kept /\ c \notin written
        /\ kind # "azure-blob"
    BY NotYetWritten DEF OpenFile, StoreInv, DataInv, PutsWrite, KeptThere, Writing, PlacesFit, Busy
  <1>2. Stores(c, Partial) /\ UNCHANGED <<kind, call, kept, rivals, written>> /\ Goto(c, "fill")
    BY DEF OpenFile, past, config
  <1> QED
    BY <1>1, <1>2, StoreIs DEF StoreInv

LEMMA FillFileIs ==
  ASSUME StoreInv, NEW c \in Calls, FillFile(c)
  PROVE  Writes(c)
  <1>1. /\ pc[c] = "fill" /\ c \in Of("put") /\ c \notin kept /\ c \notin written
        /\ kind # "azure-blob"
    BY NotYetWritten DEF FillFile, StoreInv, DataInv, PutsWrite, KeptThere, Writing, PlacesFit, Busy
  <1>2. PICK v \in {c, Garbled} : (Undisturbed(c) => v = c) /\ Stores(c, v)
    BY DEF FillFile
  <1>3. ~Undisturbed(c) => \E x \in rivals[c] : x \in Of("put")
    <2>1. CASE bucket[Key(c)] # Partial
      BY <1>1, <2>1 DEF StoreInv, DataInv, FillShown
    <2>2. ASSUME NEW x \in OnKey(Key(c)) \ {c}, pc[x] = "fill"
          PROVE  x \in rivals[c] /\ x \in Of("put")
      <3>1. x \in Calls /\ Key(x) = Key(c)
        BY <2>2 DEF OnKey, Of, Key
      <3>2. x \in Of("put")
        BY <2>2, <3>1 DEF StoreInv, DataInv, PutsWrite, Writing
      <3> QED
        BY <1>1, <2>2, <3>1, <3>2 DEF StoreInv, DataInv, RivalsKnown, Changes
    <2> QED
      BY <2>1, <2>2 DEF Undisturbed, Key
  <1>4. v = c \/ \E x \in rivals[c] : v \in Left(x)
    BY <1>2, <1>3 DEF Left, Of
  <1>5. /\ UNCHANGED <<kind, call, kept, rivals>> /\ written' \subseteq written \cup {c}
        /\ \E place \in {"returned", "back"} : Goto(c, place)
    BY DEF FillFile, Returns, Says, past, config
  <1> QED
    BY <1>1, <1>2, <1>4, <1>5, StoreIs DEF StoreInv

LEMMA FillOrphanIs ==
  ASSUME StoreInv, NEW c \in Calls, FillOrphan(c)
  PROVE  Writes(c)
  <1>1. /\ pc[c] = "orphan" /\ c \in Of("put") /\ c \notin kept /\ c \notin written
        /\ bucket[Key(c)] = c \/ \E x \in rivals[c] : bucket[Key(c)] \in Left(x)
    BY NotYetWritten
       DEF FillOrphan, StoreInv, DataInv, PutsWrite, KeptThere, Settled, Explained, Writing
  <1>2. /\ UNCHANGED <<kind, bucket, call, kept, rivals>> /\ written' \subseteq written \cup {c}
        /\ \E place \in {"returned", "back"} : Goto(c, place)
    BY DEF FillOrphan, Returns, Says, past, config
  <1>3. /\ pc' = [pc EXCEPT ![c] = pc'[c]] /\ pc'[c] \in {"returned", "back"}
        /\ bucket' \in [Keys -> Contents] /\ \A k \in Keys : bucket'[k] = bucket[k]
    BY <1>2 DEF Goto, StoreInv, Typed
  <1>4. bucket'[Key(c)] = bucket[Key(c)]
    BY <1>2
  <1> QED
    BY <1>1, <1>2, <1>3, <1>4 DEF Writes, Active, Places

LEMMA FailInPoolIs ==
  ASSUME StoreInv, NEW c \in Calls, FailInPool(c)
  PROVE  Moves(c) \/ Writes(c)
  <1>1. /\ pc[c] \in {"run", "write", "fill", "orphan"} /\ Returns(c)
        /\ UNCHANGED <<kind, call, written, kept, rivals>>
    BY DEF FailInPool, Running, past, config
  <1>2. CASE pc[c] # "fill"
    BY <1>1, <1>2, ReturnIs DEF FailInPool, StoreInv
  <1>3. CASE pc[c] = "fill"
    <2>1. c \in Of("put") /\ c \notin kept /\ c \notin written /\ kind # "azure-blob"
      BY <1>3, NotYetWritten DEF StoreInv, DataInv, PutsWrite, KeptThere, Writing, PlacesFit, Busy
    <2>2. PICK v \in {bucket[Key(c)], Garbled} : Stores(c, v)
      BY <1>3 DEF FailInPool, Key
    <2>3. \E place \in {"returned", "back"} : Goto(c, place)
      BY <1>1 DEF Returns
    <2> QED
      BY <1>1, <1>3, <2>1, <2>2, <2>3, StoreIs DEF StoreInv
  <1> QED
    BY <1>2, <1>3

LEMMA PutRemoteIs ==
  ASSUME StoreInv, NEW c \in Calls, PutRemote(c)
  PROVE  Moves(c) \/ Writes(c)
  <1>1. /\ pc[c] = "remote" /\ c \in Of("put") /\ Returns(c) /\ UNCHANGED <<kind, call, kept, rivals>>
        /\ c \notin written
    BY NotYetWritten DEF PutRemote, StoreInv, past, config
  <1>2. CASE ~call[c].overwrite /\ bucket[call[c].key] # Absent
    BY <1>1, <1>2, ReturnIs DEF PutRemote, StoreInv
  <1>3. CASE ~(~call[c].overwrite /\ bucket[call[c].key] # Absent)
    <2>1. c \notin kept /\ (call[c].overwrite \/ bucket[Key(c)] = Absent)
      BY <1>3 DEF StoreInv, DataInv, KeptThere, Key
    <2>2. Stores(c, c) /\ written' \subseteq written \cup {c}
      BY <1>3 DEF PutRemote, Says
    <2>3. \E place \in {"returned", "back"} : Goto(c, place)
      BY <1>1 DEF Returns
    <2> QED
      BY <1>1, <2>1, <2>2, <2>3, StoreIs DEF StoreInv
  <1> QED
    BY <1>2, <1>3

LEMMA DeleteRemoteIs ==
  ASSUME StoreInv, NEW c \in Calls, DeleteRemote(c)
  PROVE  Deletes(c)
  <1>1. /\ pc[c] = "remote" /\ c \in Of("delete") /\ Removes(c) /\ UNCHANGED <<kind, call, written>>
        /\ kind = "azure-blob" /\ \E place \in {"returned", "back"} : Goto(c, place)
    BY DEF DeleteRemote, Returns, config, StoreInv, PlacesFit
  <1>2. pc' \in [Calls -> Places] /\ pc'[c] \in {"returned", "back"} /\ \A x \in Calls \ {c} : pc'[x] = pc[x]
    BY <1>1 DEF StoreInv, Typed, Places, Goto
  <1>3. \A x \in Calls : pc[x] # "fill"
    BY <1>1 DEF StoreInv, PlacesFit
  <1> QED
    BY <1>1, <1>2, <1>3 DEF Deletes, Active, Writing, Removes, Stores, Key

LEMMA NextIsDataStep ==
  ASSUME StoreInv, [Next]_vars
  PROVE  DataStep
  <1>1. CASE UNCHANGED vars
    BY <1>1 DEF vars, baseVars, past, config, DataStep
  <1>2. CASE PoolStep
    <2>1. /\ queue # <<>> /\ queue \in Seq(Calls) /\ UNCHANGED <<kind, bucket, call, written, kept, rivals>>
          /\ IF pc[Head(queue)] = "queued" THEN Goto(Head(queue), "run") ELSE UNCHANGED pc
      BY <1>2 DEF PoolStep, Start, past, config, StoreInv, Typed
    <2>2. Head(queue) \in Calls
      BY <2>1
    <2>3. CASE pc[Head(queue)] = "queued"
      <3>1. Head(queue) \notin written'
        BY <2>1, <2>2, <2>3, NotYetWritten DEF StoreInv
      <3>2. Moves(Head(queue))
        BY <2>1, <2>2, <2>3, <3>1, MoveIs DEF StoreInv, Places
      <3> QED
        BY <2>2, <3>2 DEF DataStep
    <2>4. CASE pc[Head(queue)] # "queued"
      BY <2>1, <2>4 DEF DataStep
    <2> QED
      BY <2>3, <2>4
  <1>3. ASSUME NEW c \in Calls, Begin(c) PROVE DataStep
    <2>1. BeginsOnly(c)
      BY <1>3 DEF Begin, BeginPooled, BeginPooledClose, BeginReady, BeginInit, BeginRefused,
                  BeginAzureClose, BeginsOnly, Requests, Places
    <2> QED
      BY <2>1 DEF DataStep
  <1>4. ASSUME NEW c \in Calls, ThreadStep(c) PROVE DataStep
    BY <1>4, GetInPoolIs, DeleteInPoolIs, CheckPutIs, UploadIs, OpenFileIs, FillFileIs, FillOrphanIs,
       FailInPoolIs DEF ThreadStep, DataStep
  <1>5. ASSUME NEW c \in Calls, PutRemote(c) \/ DeleteRemote(c) \/ RemoteUnchanged(c) PROVE DataStep
    <2>1. CASE RemoteUnchanged(c)
      <3>1. Moves(c)
        BY <2>1, ReturnIs DEF RemoteUnchanged, StoreInv, past
      <3> QED
        BY <3>1 DEF DataStep
    <2> QED
      BY <1>5, <2>1, PutRemoteIs, DeleteRemoteIs DEF DataStep
  <1>6. ASSUME NEW c \in Calls, NEW place \in Places \ {"out", "write", "fill", "orphan"},
               pc[c] \notin {"out", "back", "returned"} \/ (pc[c] = "returned" /\ place = "back"),
               Goto(c, place), UNCHANGED <<bucket, call, written, past>>
        PROVE  DataStep
    <2>1. c \in written => pc[c] = "returned"
      BY <1>6, NotYetWritten DEF StoreInv
    <2>2. Moves(c)
      BY <1>6, <2>1, MoveIs DEF StoreInv, past
    <2> QED
      BY <2>2 DEF DataStep
  <1>7. ASSUME NEW c \in Calls, Deliver(c) \/ ShutdownPool(c) \/ JoinPool(c) PROVE DataStep
    <2>1. CASE Deliver(c)
      BY <1>6, <2>1 DEF Deliver, Places
    <2>2. CASE ShutdownPool(c)
      BY <1>6, <2>2 DEF ShutdownPool, Places
    <2>3. CASE JoinPool(c)
      BY <1>6, <2>3 DEF JoinPool, Places
    <2> QED
      BY <1>7, <2>1, <2>2, <2>3
  <1>8. ASSUME NEW c \in Calls,
               ContainerFound(c) \/ ContainerMissing(c) \/ ProbeFails(c) \/ CreateFails(c)
        PROVE  DataStep
    <2>1. CASE ContainerFound(c)
      BY <1>6, <2>1 DEF ContainerFound, Initializing, Places
    <2>2. CASE ContainerMissing(c)
      BY <1>6, <2>2 DEF ContainerMissing, Places
    <2>3. CASE ProbeFails(c)
      BY <1>6, <2>3 DEF ProbeFails, Places
    <2>4. CASE CreateFails(c)
      BY <1>6, <2>4 DEF CreateFails, Places
    <2> QED
      BY <1>8, <2>1, <2>2, <2>3, <2>4
  <1>9. ASSUME NEW c \in Calls, CloseContainer(c) \/ CloseService(c) \/ UnsetService(c) PROVE DataStep
    <2>1. CASE CloseContainer(c)
      BY <1>6, <2>1 DEF CloseContainer, Places
    <2>2. CASE CloseService(c)
      BY <1>6, <2>2 DEF CloseService, PastContainer, Places
    <2>3. CASE UnsetService(c)
      BY <1>6, <2>3 DEF UnsetService, Places
    <2> QED
      BY <1>9, <2>1, <2>2, <2>3
  <1>10. ASSUME NEW c \in Calls, Cancel(c) PROVE DataStep
    <2>1. \/ UNCHANGED <<kind, bucket, call, pc, written, kept, rivals>>
          \/ /\ pc[c] \notin {"out", "back"} /\ Goto(c, "back") /\ written' = written \ {c}
             /\ UNCHANGED <<bucket, call, kept, rivals>>
      BY <1>10 DEF Cancel, CancelPooled, CancelAzure, past, config, Initializing
    <2> QED
      BY <2>1, MoveIs DEF DataStep, StoreInv, Places
  <1> QED
    BY <1>1, <1>2, <1>3, <1>4, <1>5, <1>7, <1>8, <1>9, <1>10 DEF Next, CallStep

LEMMA DataStepKeeps ==
  ASSUME StoreInv, DataStep
  PROVE  DataInv'
  <1>1. CASE UNCHANGED <<kind, bucket, call, pc, written, kept, rivals>>
    <2>1. /\ \A op : Of(op)' = Of(op)
          /\ Changes' = Changes /\ \A x : Key(x)' = Key(x) /\ Left(x)' = Left(x)
      BY <1>1, SameCalls
    <2>2. \A x : Explained(x) => Explained(x)'
      BY <1>1, <2>1 DEF Explained
    <2>3. Settled'
      BY <1>1, <2>2 DEF StoreInv, DataInv, Settled
    <2> QED
      BY <1>1, <2>1, <2>3 DEF StoreInv, DataInv, Unbegun, PutsWrite, Writing, KeptThere, RivalsKnown,
                              FillShown, WrittenOver
  <1>2. ASSUME NEW c \in Calls, BeginsOnly(c) PROVE DataInv'
    BY <1>2, BeginsKeeps DEF BeginsOnly, StoreInv
  <1> QED
    BY <1>1, <1>2, MovesKeeps, WritesKeeps, DeletesKeeps DEF DataStep, StoreInv

LEMMA DataStepTypes ==
  ASSUME Typed, DataInv, DataStep
  PROVE  /\ call' \in [Calls -> Requests \cup {NoRequest}] /\ pc' \in [Calls -> Places]
         /\ bucket' \in [Keys -> Contents]
         /\ written' \in SUBSET Calls /\ kept' \in SUBSET Calls /\ rivals' \in [Calls -> SUBSET Calls]
  <1>1. CASE UNCHANGED <<kind, bucket, call, pc, written, kept, rivals>>
    BY <1>1 DEF Typed
  <1>2. ASSUME NEW c \in Calls, BeginsOnly(c)
        PROVE  /\ call' \in [Calls -> Requests \cup {NoRequest}] /\ pc' \in [Calls -> Places]
               /\ bucket' = bucket /\ written' = written
               /\ kept' \in SUBSET Calls /\ rivals' \in [Calls -> SUBSET Calls]
    <2>1. PICK r \in Requests, place \in Places \ {"out", "write", "fill", "orphan"} :
            Begins(c, r) /\ Goto(c, place) /\ UNCHANGED written
      BY <1>2 DEF BeginsOnly
    <2>2. call' \in [Calls -> Requests \cup {NoRequest}] /\ pc' \in [Calls -> Places]
      BY <2>1 DEF Begins, Goto, Typed
    <2>3. kept' \in SUBSET Calls
      BY <2>1 DEF Begins, Typed
    <2>4. rivals' \in [Calls -> SUBSET Calls]
      BY <2>1, BeginsKeeps
    <2> QED
      BY <2>1, <2>2, <2>3, <2>4 DEF Begins
  <1>3. ASSUME NEW c \in Calls, Moves(c) \/ Writes(c)
        PROVE  /\ UNCHANGED <<call, kept, rivals>> /\ pc' \in [Calls -> Places]
               /\ bucket' \in [Keys -> Contents] /\ written' \in SUBSET Calls
    BY <1>3 DEF Moves, Writes, Typed
  <1>4. ASSUME NEW c \in Calls, Deletes(c)
        PROVE  /\ UNCHANGED <<call, rivals, written>> /\ pc' \in [Calls -> Places]
               /\ bucket' \in [Keys -> Contents] /\ kept' \in SUBSET Calls
    BY <1>4 DEF Deletes, Typed, Contents
  <1> QED
    BY <1>1, <1>2, <1>3, <1>4 DEF DataStep, Typed

-----------------------------------------------------------------------------
(* The pool and the clients                                                 *)

Ending == {"unset", "shutting", "joining"}

\* Nobody is put in the queue, taken from it or begins to close the pool.
PoolSteady ==
  /\ UNCHANGED <<queue, executor>>
  /\ \A x \in Calls : pc'[x] # pc[x] =>
       /\ pc'[x] # "queued" /\ (pc'[x] \in Busy => pc[x] \in Busy)
       /\ pc[x] \in {"queued", "back"} => pc'[x] = "back"

LEMMA PoolSteadyKeeps ==
  ASSUME StoreInv, PoolSteady
  PROVE  PoolInv' /\ queue' \in Seq(Calls) /\ executor' \in {"open", "draining", "none"}
  <1>1. Queued'
    BY DEF PoolSteady, StoreInv, PoolInv, Queued
  <1>2. PoolGone'
    BY DEF PoolSteady, StoreInv, PoolInv, PoolGone, Writing, Busy
  <1>3. QueuedOnce'
    <2>1. \A n \in 1..Len(queue) : queue[n] \in Calls
      BY DEF StoreInv, Typed
    <2> QED
      BY <2>1 DEF PoolSteady, StoreInv, PoolInv, QueuedOnce
  <1> QED
    BY <1>1, <1>2, <1>3 DEF PoolSteady, PoolInv, StoreInv, Typed

\* A step that moves only the call it is about.
LEMMA SteadyMove ==
  ASSUME Typed, NEW c \in Calls, NEW place, Goto(c, place), UNCHANGED <<queue, executor>>,
         place # "queued", place \in Busy => pc[c] \in Busy,
         pc[c] \in {"queued", "back"} => place = "back"
  PROVE  PoolSteady
  BY DEF PoolSteady, Goto, Typed

LEMMA SteadyReturn ==
  ASSUME Typed, NEW c \in Calls, Returns(c), UNCHANGED <<queue, executor>>,
         pc[c] \notin {"queued", "back"}
  PROVE  PoolSteady
  BY SteadyMove DEF Returns, Busy

LEMMA PoolKeeps ==
  ASSUME StoreInv, [Next]_vars
  PROVE  PoolInv' /\ queue' \in Seq(Calls) /\ executor' \in {"open", "draining", "none"}
  <1> DEFINE Kept == PoolInv' /\ queue' \in Seq(Calls) /\ executor' \in {"open", "draining", "none"}
  <1>1. CASE UNCHANGED vars
    BY <1>1, PoolSteadyKeeps DEF vars, baseVars, PoolSteady
  <1>2. CASE PoolStep
    <2> DEFINE h == Head(queue)
    <2>1. /\ queue # <<>> /\ queue \in Seq(Calls) /\ queue' = Tail(queue) /\ executor' = executor
          /\ IF pc[h] = "queued" THEN Goto(h, "run") ELSE UNCHANGED pc
      BY <1>2 DEF PoolStep, Start, StoreInv, Typed
    <2>2. /\ queue' \in Seq(Calls) /\ Len(queue') = Len(queue) - 1 /\ h = queue[1] /\ h \in Calls
          /\ Len(queue) \in Nat \ {0} /\ \A n \in 1..Len(queue') : queue'[n] = queue[n + 1]
      BY <2>1, HeadTailProperties, EmptySeq
    <2>3. executor' # "none"
      BY <2>1 DEF StoreInv, PoolInv, PoolGone
    <2>4. PoolGone'
      BY <2>3 DEF PoolGone
    <2>5. Queued'
      <3> SUFFICES ASSUME NEW x \in Calls, pc'[x] = "queued"
                   PROVE  \E n \in 1..Len(queue') : queue'[n] = x
        BY DEF Queued
      <3>1. pc[x] = "queued" /\ x # h
        BY <2>1, <2>2 DEF Goto, StoreInv, Typed
      <3>2. PICK n \in 1..Len(queue) : queue[n] = x
        BY <3>1 DEF StoreInv, PoolInv, Queued
      <3>3. n - 1 \in 1..Len(queue') /\ queue'[n - 1] = x
        BY <2>2, <3>1, <3>2
      <3> QED
        BY <3>3
    <2>6. QueuedOnce'
      <3>1. \A m, n \in 1..Len(queue') : queue'[m] = queue'[n] => m = n
        BY <2>2 DEF StoreInv, PoolInv, QueuedOnce
      <3>2. ASSUME NEW n \in 1..Len(queue') PROVE pc'[queue'[n]] \in {"queued", "back"}
        <4>1. n + 1 \in 1..Len(queue) /\ n + 1 # 1 /\ queue'[n] = queue[n + 1]
          BY <2>2
        <4>2. queue[n + 1] \in Calls /\ queue[n + 1] # h /\ pc[queue[n + 1]] \in {"queued", "back"}
          BY <2>2, <4>1 DEF StoreInv, PoolInv, QueuedOnce, Typed
        <4> QED
          BY <2>1, <2>2, <4>1, <4>2 DEF Goto, StoreInv, Typed
      <3> QED
        BY <3>1, <3>2 DEF QueuedOnce
    <2> QED
      BY <2>1, <2>2, <2>4, <2>5, <2>6 DEF PoolInv, StoreInv, Typed
  <1>3. ASSUME NEW c \in Calls, Begin(c) PROVE Kept
    <2>1. CASE BeginPooled(c)
      <3>1. CASE UNCHANGED queue
        <4>1. Goto(c, "back") \/ (Goto(c, "queued") /\ queue' = Append(queue, c))
          BY <2>1 DEF BeginPooled
        <4>2. queue' # Append(queue, c)
          BY <3>1, AppendProperties DEF StoreInv, Typed
        <4>3. PoolSteady
          BY <2>1, <3>1, <4>1, <4>2, SteadyMove DEF BeginPooled, StoreInv, Busy
        <4> QED
          BY <4>3, PoolSteadyKeeps
      <3>2. CASE queue' # queue
        <4>1. /\ executor \notin {"none", "draining"} /\ executor' = executor
              /\ Goto(c, "queued") /\ queue' = Append(queue, c)
          BY <2>1, <3>2 DEF BeginPooled, Begins, LoopFree
        <4>2. /\ queue' \in Seq(Calls) /\ Len(queue') = Len(queue) + 1 /\ Len(queue) \in Nat
              /\ queue'[Len(queue) + 1] = c /\ \A n \in 1..Len(queue) : queue'[n] = queue[n]
          BY <4>1, AppendProperties DEF StoreInv, Typed
        <4>3. Queued'
          <5> SUFFICES ASSUME NEW x \in Calls, pc'[x] = "queued"
                       PROVE  \E n \in 1..Len(queue') : queue'[n] = x
            BY DEF Queued
          <5>1. CASE x = c
            BY <4>2, <5>1
          <5>2. CASE x # c
            <6>1. PICK n \in 1..Len(queue) : queue[n] = x
              BY <4>1, <5>2 DEF Goto, StoreInv, Typed, PoolInv, Queued
            <6> QED
              BY <4>2, <6>1
          <5> QED
            BY <5>1, <5>2
        <4>4. PoolGone'
          BY <4>1 DEF PoolGone
        <4>5. QueuedOnce'
          <5>1. \A n \in 1..Len(queue) : queue[n] \in Calls /\ pc[queue[n]] \in {"queued", "back"}
            BY DEF StoreInv, PoolInv, QueuedOnce, Typed
          <5>2. pc[c] = "out" /\ pc'[c] = "queued" /\ \A x \in Calls \ {c} : pc'[x] = pc[x]
            BY <2>1, <4>1 DEF BeginPooled, Begins, Goto, StoreInv, Typed
          <5>3. \A n \in 1..Len(queue) : queue[n] # c
            BY <5>1, <5>2
          <5>4. \A m, n \in 1..Len(queue') : queue'[m] = queue'[n] => m = n
            <6> SUFFICES ASSUME NEW m \in 1..Len(queue'), NEW n \in 1..Len(queue'), queue'[m] = queue'[n]
                         PROVE  m = n
              OBVIOUS
            <6>1. m \in 1..Len(queue) \/ m = Len(queue) + 1
              BY <4>2
            <6>2. n \in 1..Len(queue) \/ n = Len(queue) + 1
              BY <4>2
            <6> QED
              BY <4>2, <5>3, <6>1, <6>2 DEF StoreInv, PoolInv, QueuedOnce
          <5>5. ASSUME NEW n \in 1..Len(queue') PROVE pc'[queue'[n]] \in {"queued", "back"}
            <6>1. n \in 1..Len(queue) \/ n = Len(queue) + 1
              BY <4>2
            <6> QED
              BY <4>2, <5>1, <5>2, <5>3, <6>1
          <5> QED
            BY <5>4, <5>5 DEF QueuedOnce
        <4> QED
          BY <4>1, <4>2, <4>3, <4>4, <4>5 DEF PoolInv, StoreInv, Typed
      <3> QED
        BY <3>1, <3>2
    <2>2. CASE BeginPooledClose(c) \/ BeginReady(c) \/ BeginInit(c) \/ BeginRefused(c) \/ BeginAzureClose(c)
      <3>1. /\ \E place \in Places \ Busy : place # "queued" /\ Goto(c, place) /\ UNCHANGED <<queue, executor>>
            /\ pc[c] = "out"
        BY <2>2 DEF BeginPooledClose, BeginReady, BeginInit, BeginRefused, BeginAzureClose, Begins,
                    Places, Busy
      <3> QED
        BY <3>1, SteadyMove, PoolSteadyKeeps DEF StoreInv
    <2> QED
      BY <1>3, <2>1, <2>2 DEF Begin
  <1>4. ASSUME NEW c \in Calls, ThreadStep(c) PROVE Kept
    <2>1. CASE DeleteInPool(c)
      <3>1. PoolSteady
        BY <2>1 DEF DeleteInPool, PoolSteady, Busy, StoreInv, Typed
      <3> QED
        BY <3>1, PoolSteadyKeeps
    <2>2. CASE CheckPut(c) \/ OpenFile(c)
      <3>1. /\ pc[c] \in Busy /\ UNCHANGED <<queue, executor>>
            /\ Returns(c) \/ \E place \in {"write", "fill"} : Goto(c, place)
        BY <2>2 DEF CheckPut, OpenFile, Busy
      <3>2. pc[c] \notin {"queued", "back"}
        BY <3>1 DEF Busy
      <3> QED
        BY <3>1, <3>2, SteadyMove, SteadyReturn, PoolSteadyKeeps DEF StoreInv
    <2>3. CASE GetInPool(c) \/ Upload(c) \/ FillFile(c) \/ FillOrphan(c) \/ FailInPool(c)
      <3>1. Returns(c) /\ UNCHANGED <<queue, executor>> /\ pc[c] \notin {"queued", "back"}
        BY <2>3 DEF GetInPool, Upload, FillFile, FillOrphan, FailInPool, Running
      <3> QED
        BY <3>1, SteadyReturn, PoolSteadyKeeps DEF StoreInv
    <2> QED
      BY <1>4, <2>1, <2>2, <2>3 DEF ThreadStep
  <1>5. ASSUME NEW c \in Calls, PutRemote(c) \/ DeleteRemote(c) \/ RemoteUnchanged(c) PROVE Kept
    <2>1. Returns(c) /\ UNCHANGED <<queue, executor>> /\ pc[c] = "remote"
      BY <1>5 DEF PutRemote, DeleteRemote, RemoteUnchanged
    <2> QED
      BY <2>1, SteadyReturn, PoolSteadyKeeps DEF StoreInv
  <1>6. ASSUME NEW c \in Calls, ShutdownPool(c) PROVE Kept
    <2>1. CASE executor = "none"
      <3>1. Goto(c, "back") /\ UNCHANGED <<queue, executor>>
        BY <1>6, <2>1 DEF ShutdownPool
      <3> QED
        BY <3>1, SteadyMove, PoolSteadyKeeps DEF StoreInv, Busy
    <2>2. CASE executor # "none"
      <3>1. Goto(c, "joining") /\ executor' = "draining" /\ UNCHANGED queue
        BY <1>6, <2>2 DEF ShutdownPool
      <3>2. Queued' /\ PoolGone'
        BY <3>1 DEF StoreInv, PoolInv, Queued, PoolGone, Goto, Typed
      <3>3. QueuedOnce'
        <4>1. \A n \in 1..Len(queue) : queue[n] \in Calls /\ pc[queue[n]] \in {"queued", "back"}
          BY DEF StoreInv, PoolInv, QueuedOnce, Typed
        <4>2. pc[c] = "shutting" /\ \A x \in Calls \ {c} : pc'[x] = pc[x]
          BY <1>6, <3>1 DEF ShutdownPool, Goto, StoreInv, Typed
        <4> QED
          BY <3>1, <4>1, <4>2 DEF StoreInv, PoolInv, QueuedOnce
      <3> QED
        BY <3>1, <3>2, <3>3 DEF PoolInv, StoreInv, Typed
    <2> QED
      BY <2>1, <2>2
  <1>7. ASSUME NEW c \in Calls, JoinPool(c) PROVE Kept
    <2>1. /\ queue = <<>> /\ Running = {} /\ executor' = "none" /\ Goto(c, "back") /\ UNCHANGED queue
      BY <1>7 DEF JoinPool
    <2>2. Queued'
      BY <2>1 DEF StoreInv, PoolInv, Queued, Goto, Typed
    <2>3. PoolGone'
      BY <2>1 DEF PoolGone, Running, Writing, Goto, StoreInv, Typed
    <2>4. QueuedOnce'
      <3>1. Len(queue') = 0
        BY <2>1
      <3> QED
        BY <3>1 DEF QueuedOnce
    <2> QED
      BY <2>1, <2>2, <2>3, <2>4 DEF PoolInv, StoreInv, Typed
  <1>8. ASSUME NEW c \in Calls,
               \/ Deliver(c) \/ ContainerFound(c) \/ ContainerMissing(c) \/ ProbeFails(c) \/ CreateFails(c)
               \/ CloseContainer(c) \/ CloseService(c) \/ UnsetService(c)
        PROVE  Kept
    <2>1. /\ \E place \in Places \ Busy : place # "queued" /\ Goto(c, place) /\ UNCHANGED <<queue, executor>>
          /\ pc[c] \notin {"queued", "back"}
      BY <1>8 DEF Deliver, ContainerFound, ContainerMissing, ProbeFails, CreateFails, CloseContainer,
                  CloseService, UnsetService, Initializing, PastContainer, Places, Busy
    <2> QED
      BY <2>1, SteadyMove, PoolSteadyKeeps DEF StoreInv
  <1>9. ASSUME NEW c \in Calls, Cancel(c) PROVE Kept
    <2>1. (Goto(c, "back") \/ UNCHANGED pc) /\ UNCHANGED <<queue, executor>>
      BY <1>9 DEF Cancel, CancelPooled, CancelAzure
    <2>2. PoolSteady
      BY <2>1, SteadyMove DEF StoreInv, PoolSteady, Busy
    <2> QED
      BY <2>2, PoolSteadyKeeps
  <1> QED
    BY <1>1, <1>2, <1>3, <1>4, <1>5, <1>6, <1>7, <1>8, <1>9 DEF Next, CallStep

\* A step that brings each call that moves to a place fit for its work.
PlacesSteady ==
  /\ UNCHANGED <<kind, call>>
  /\ \A x \in Calls : pc'[x] # pc[x] =>
       /\ pc'[x] # "queued" /\ (pc'[x] = "run" => pc[x] = "queued")
       /\ pc'[x] \in Busy => pc[x] \in {"queued"} \cup Busy
       /\ pc'[x] \in {"probe", "create", "remote"} => kind = "azure-blob"
       /\ pc'[x] \in {"fill", "orphan"} => kind = "unix-fs"

LEMMA PlacesSteadyKeeps ==
  ASSUME PlacesFit, PlacesSteady
  PROVE  PlacesFit'
  BY SameCalls DEF PlacesFit, PlacesSteady

LEMMA SteadyPlace ==
  ASSUME Typed, NEW c \in Calls, NEW place, Goto(c, place), UNCHANGED <<kind, call>>,
         place # "queued", place = "run" => pc[c] = "queued",
         place \in Busy => pc[c] \in {"queued"} \cup Busy,
         place \in {"probe", "create", "remote"} => kind = "azure-blob",
         place \in {"fill", "orphan"} => kind = "unix-fs"
  PROVE  PlacesSteady
  BY DEF PlacesSteady, Goto, Typed

LEMMA PlacesKeep ==
  ASSUME StoreInv, [Next]_vars
  PROVE  PlacesFit'
  <1>1. CASE UNCHANGED vars
    BY <1>1, PlacesSteadyKeeps DEF vars, baseVars, config, PlacesSteady, StoreInv
  <1>2. CASE PoolStep
    <2>1. /\ UNCHANGED <<kind, call>> /\ Head(queue) \in Calls
          /\ UNCHANGED pc \/ (pc[Head(queue)] = "queued" /\ Goto(Head(queue), "run"))
      BY <1>2 DEF PoolStep, Start, config, StoreInv, Typed
    <2>2. PlacesSteady
      BY <2>1, SteadyPlace DEF StoreInv, PlacesSteady, Busy
    <2> QED
      BY <2>2, PlacesSteadyKeeps DEF StoreInv
  <1>3. ASSUME NEW c \in Calls, Begin(c) PROVE PlacesFit'
    <2>1. PICK r \in Requests, place \in {"back", "queued", "remote", "probe", "shutting", "closing"} :
            /\ Begins(c, r) /\ Goto(c, place) /\ UNCHANGED kind
            /\ place = "queued" => r \in Requests \ {Close} /\ kind # "azure-blob"
            /\ place \in {"remote", "probe"} => kind = "azure-blob"
      BY <1>3 DEF Begin, BeginPooled, BeginPooledClose, BeginReady, BeginInit, BeginRefused,
                  BeginAzureClose, Begins, Requests, config, PooledKinds
    <2>2. /\ call'[c] = r /\ pc'[c] = place
          /\ \A x \in Calls \ {c} : call'[x] = call[x] /\ pc'[x] = pc[x]
      BY <2>1 DEF Begins, Goto, StoreInv, Typed
    <2>3. place = "queued" => r.op \in {"get", "put", "delete"}
      BY <2>1 DEF Requests
    <2> QED
      BY <2>1, <2>2, <2>3 DEF PlacesFit, StoreInv, Of, Busy
  <1>4. ASSUME NEW c \in Calls, ThreadStep(c) PROVE PlacesFit'
    <2>1. CASE DeleteInPool(c)
      <3>1. \A x \in Calls : pc[x] = "fill" => kind = "unix-fs"
        BY DEF StoreInv, PlacesFit
      <3>2. PlacesSteady
        BY <2>1, <3>1 DEF DeleteInPool, PlacesSteady, Busy, StoreInv, Typed, config
      <3> QED
        BY <3>2, PlacesSteadyKeeps DEF StoreInv
    <2>2. CASE CheckPut(c) \/ OpenFile(c)
      <3>1. /\ UNCHANGED <<kind, call>> /\ pc[c] \in Busy
            /\ \E place \in {"returned", "back", "write", "fill"} :
                 Goto(c, place) /\ (place = "fill" => kind = "unix-fs")
        BY <2>2 DEF CheckPut, OpenFile, Returns, config, Busy
      <3> QED
        BY <3>1, SteadyPlace, PlacesSteadyKeeps DEF StoreInv
    <2>3. CASE GetInPool(c) \/ Upload(c) \/ FillFile(c) \/ FillOrphan(c) \/ FailInPool(c)
      <3>1. UNCHANGED <<kind, call>> /\ \E place \in {"returned", "back"} : Goto(c, place)
        BY <2>3 DEF GetInPool, Upload, FillFile, FillOrphan, FailInPool, Returns, config
      <3> QED
        BY <3>1, SteadyPlace, PlacesSteadyKeeps DEF StoreInv, Busy
    <2> QED
      BY <1>4, <2>1, <2>2, <2>3 DEF ThreadStep
  <1>5. ASSUME NEW c \in Calls,
               \/ PutRemote(c) \/ DeleteRemote(c) \/ RemoteUnchanged(c)
               \/ Deliver(c) \/ ShutdownPool(c) \/ JoinPool(c) \/ ProbeFails(c) \/ CreateFails(c)
               \/ CloseContainer(c) \/ CloseService(c) \/ UnsetService(c)
        PROVE  PlacesFit'
    <2>1. /\ UNCHANGED <<kind, call>>
          /\ \E place \in Places \ ({"queued", "probe", "create", "remote"} \cup Busy) : Goto(c, place)
      BY <1>5 DEF PutRemote, DeleteRemote, RemoteUnchanged, Returns, Deliver, ShutdownPool, JoinPool,
                  ProbeFails, CreateFails, CloseContainer, CloseService, UnsetService,
                  config, Places, Busy
    <2> QED
      BY <2>1, SteadyPlace, PlacesSteadyKeeps DEF StoreInv, Busy
  <1>6. ASSUME NEW c \in Calls, ContainerFound(c) \/ ContainerMissing(c) PROVE PlacesFit'
    <2>1. /\ UNCHANGED <<kind, call>> /\ c \in Initializing
          /\ \E place \in {"create", "remote"} : Goto(c, place)
      BY <1>6 DEF ContainerFound, ContainerMissing, Initializing, config
    <2>2. kind = "azure-blob"
      BY <2>1 DEF StoreInv, PlacesFit, Initializing
    <2> QED
      BY <2>1, <2>2, SteadyPlace, PlacesSteadyKeeps DEF StoreInv, Busy
  <1>7. ASSUME NEW c \in Calls, Cancel(c) PROVE PlacesFit'
    <2>1. UNCHANGED <<kind, call>> /\ (UNCHANGED pc \/ Goto(c, "back"))
      BY <1>7 DEF Cancel, CancelPooled, CancelAzure, config
    <2>2. PlacesSteady
      BY <2>1, SteadyPlace DEF StoreInv, PlacesSteady, Busy
    <2> QED
      BY <2>2, PlacesSteadyKeeps DEF StoreInv
  <1> QED
    BY <1>1, <1>2, <1>3, <1>4, <1>5, <1>6, <1>7 DEF Next, Begin, CallStep, Cancel

\* No client is made or closed, no initialisation ends, and no call of close() gets
\* past the clients or to the pool.
ClientsSteady ==
  /\ UNCHANGED <<kind, clients, service, initialized, astray>>
  /\ \A x \in Calls :
       /\ x \in Initializing => x \in Initializing'
       /\ pc'[x] \in Ending => pc[x] \in Ending
  /\ executor' # "open" => executor # "open" \/ \E x \in Calls : pc[x] \in Ending

ClientTypes ==
  kind \in Kinds /\ clients \in SUBSET Calls /\ astray \in SUBSET Calls /\ initialized \in BOOLEAN

LEMMA ClientsSteadyKeeps ==
  ASSUME StoreInv, ClientsSteady
  PROVE  ClientsClosed' /\ ClientTypes'
  <1>1. ClientsClosed'
    <2>1. Initializing \subseteq Initializing'
      BY DEF ClientsSteady, Initializing
    <2> QED
      BY <2>1 DEF ClientsSteady, StoreInv, ClientsClosed, Ending
  <1> QED
    BY <1>1 DEF ClientsSteady, ClientTypes, StoreInv, Typed

LEMMA SteadyClients ==
  ASSUME Typed, NEW c \in Calls, NEW place, Goto(c, place),
         UNCHANGED <<kind, clients, service, initialized, astray, executor>>,
         place \notin Ending, c \notin Initializing \/ place \in {"probe", "create"}
  PROVE  ClientsSteady
  BY DEF ClientsSteady, Goto, Typed, Initializing

LEMMA ClientsReturn ==
  ASSUME Typed, NEW c \in Calls, Returns(c), c \notin Initializing,
         UNCHANGED <<kind, clients, service, initialized, astray, executor>>
  PROVE  ClientsSteady
  BY SteadyClients DEF Returns, Ending

LEMMA ClientsKeep ==
  ASSUME StoreInv, [Next]_vars
  PROVE  ClientsClosed' /\ ClientTypes'
  <1> DEFINE Kept == ClientsClosed' /\ ClientTypes'
  <1>1. CASE UNCHANGED vars
    <2>1. ClientsSteady
      BY <1>1 DEF vars, baseVars, config, clientVars, ClientsSteady, Initializing
    <2> QED
      BY <2>1, ClientsSteadyKeeps
  <1>2. CASE PoolStep
    <2>1. /\ UNCHANGED <<kind, clients, service, initialized, astray, executor>>
          /\ IF pc[Head(queue)] = "queued" THEN Goto(Head(queue), "run") ELSE UNCHANGED pc
      BY <1>2 DEF PoolStep, Start, config, clientVars
    <2>2. Head(queue) \in Calls
      BY <1>2 DEF PoolStep, Start, StoreInv, Typed
    <2>3. CASE pc[Head(queue)] = "queued"
      <3>1. ClientsSteady
        BY <2>1, <2>2, <2>3, SteadyClients DEF StoreInv, Initializing, Ending
      <3> QED
        BY <3>1, ClientsSteadyKeeps
    <2>4. CASE pc[Head(queue)] # "queued"
      <3>1. ClientsSteady
        BY <2>1, <2>4 DEF ClientsSteady, Initializing
      <3> QED
        BY <3>1, ClientsSteadyKeeps
    <2> QED
      BY <2>3, <2>4
  <1>3. ASSUME NEW c \in Calls, (BeginPooled(c) /\ UNCHANGED clientVars) \/ BeginReady(c) \/ BeginRefused(c)
        PROVE  Kept
    <2>1. /\ \E place \in Places \ Ending : Goto(c, place)
          /\ UNCHANGED <<kind, clients, service, initialized, astray, executor>>
          /\ pc[c] = "out"
      BY <1>3 DEF BeginPooled, BeginReady, BeginRefused, Begins, config, clientVars, Places, Ending
    <2> QED
      BY <2>1, SteadyClients, ClientsSteadyKeeps DEF StoreInv, Initializing
  <1>4. ASSUME NEW c \in Calls, BeginPooledClose(c), UNCHANGED clientVars PROVE Kept
    BY <1>4 DEF BeginPooledClose, Begins, config, clientVars, PooledKinds, StoreInv, ClientsClosed, Typed,
                ClientTypes
  <1>5. ASSUME NEW c \in Calls, BeginInit(c) PROVE Kept
    <2>1. /\ kind = "azure-blob" /\ ~initialized /\ pc[c] = "out" /\ executor # "draining"
          /\ service' = c /\ clients' = clients \cup {c} /\ Goto(c, "probe")
          /\ astray' = astray \cup Initializing \cup {x \in {c} : Closing # {} \/ executor = "none"}
          /\ UNCHANGED <<kind, executor, initialized>>
      BY <1>5 DEF BeginInit, Begins, LoopFree, config
    <2>2. clients \subseteq astray'
      BY <2>1 DEF StoreInv, ClientsClosed
    <2>3. c \in Initializing'
      BY <2>1 DEF Goto, Initializing, StoreInv, Typed
    <2>4. executor' # "open" => c \in astray'
      BY <2>1 DEF StoreInv, Typed
    <2>5. (\E x \in Calls : pc'[x] \in {"unset", "shutting", "joining"}) => c \in astray'
      BY <2>1 DEF Closing, Goto, StoreInv, Typed
    <2>6. ClientsClosed'
      BY <2>1, <2>2, <2>3, <2>4, <2>5 DEF ClientsClosed
    <2>7. Initializing \subseteq Calls
      BY DEF Initializing
    <2> QED
      BY <2>1, <2>6, <2>7 DEF ClientTypes, StoreInv, Typed
  <1>6. ASSUME NEW c \in Calls, BeginAzureClose(c) PROVE Kept
    <2>1. /\ astray' = astray \cup Initializing /\ Goto(c, "closing") /\ Initializing \subseteq Calls
          /\ UNCHANGED <<kind, executor, service, clients, initialized>> /\ pc[c] = "out"
      BY <1>6 DEF BeginAzureClose, Begins, config, Initializing
    <2>2. \A x \in Calls : pc'[x] \in Ending => pc[x] \in Ending
      BY <2>1 DEF Goto, StoreInv, Typed, Ending
    <2>3. ClientsClosed'
      BY <2>1, <2>2 DEF StoreInv, ClientsClosed, Ending
    <2> QED
      BY <2>1, <2>3 DEF ClientTypes, StoreInv, Typed
  <1>7. ASSUME NEW c \in Calls, ThreadStep(c), UNCHANGED clientVars PROVE Kept
    <2>1. CASE DeleteInPool(c)
      <3>1. ClientsSteady
        BY <1>7, <2>1 DEF DeleteInPool, ClientsSteady, clientVars, config, Initializing, Ending, StoreInv, Typed
      <3> QED
        BY <3>1, ClientsSteadyKeeps
    <2>2. CASE CheckPut(c) \/ OpenFile(c)
      <3>1. /\ Returns(c) \/ \E place \in {"write", "fill"} : Goto(c, place)
            /\ UNCHANGED <<kind, clients, service, initialized, astray, executor>>
            /\ c \notin Initializing
        BY <1>7, <2>2 DEF CheckPut, OpenFile, clientVars, config, Initializing
      <3> QED
        BY <3>1, SteadyClients, ClientsReturn, ClientsSteadyKeeps DEF StoreInv, Ending
    <2>3. CASE GetInPool(c) \/ Upload(c) \/ FillFile(c) \/ FillOrphan(c) \/ FailInPool(c)
      <3>1. /\ Returns(c) /\ UNCHANGED <<kind, clients, service, initialized, astray, executor>>
            /\ c \notin Initializing
        BY <1>7, <2>3 DEF GetInPool, Upload, FillFile, FillOrphan, FailInPool, clientVars, config,
                          Initializing, Running
      <3> QED
        BY <3>1, ClientsReturn, ClientsSteadyKeeps DEF StoreInv
    <2> QED
      BY <1>7, <2>1, <2>2, <2>3 DEF ThreadStep
  <1>8. ASSUME NEW c \in Calls, PutRemote(c) \/ DeleteRemote(c) \/ RemoteUnchanged(c) PROVE Kept
    <2>1. /\ Returns(c) /\ UNCHANGED <<kind, clients, service, initialized, astray, executor>>
          /\ c \notin Initializing
      BY <1>8 DEF PutRemote, DeleteRemote, RemoteUnchanged, clientVars, config, Initializing
    <2> QED
      BY <2>1, ClientsReturn, ClientsSteadyKeeps DEF StoreInv
  <1>9. ASSUME NEW c \in Calls, Deliver(c) \/ ShutdownPool(c) \/ JoinPool(c), UNCHANGED clientVars
        PROVE  Kept
    <2>1. ClientsSteady
      BY <1>9 DEF Deliver, ShutdownPool, JoinPool, Goto, ClientsSteady, clientVars, config, Initializing,
                  Ending, StoreInv, Typed
    <2> QED
      BY <2>1, ClientsSteadyKeeps
  <1>10. ASSUME NEW c \in Calls, ContainerMissing(c) \/ CloseContainer(c) PROVE Kept
    <2>1. /\ \E place \in {"create", "uncontain"} : Goto(c, place) /\ (place = "create" \/ c \notin Initializing)
          /\ UNCHANGED <<kind, clients, service, initialized, astray, executor>>
      BY <1>10 DEF ContainerMissing, CloseContainer, clientVars, config, Initializing
    <2> QED
      BY <2>1, SteadyClients, ClientsSteadyKeeps DEF StoreInv, Ending
  <1>11. ASSUME NEW c \in Calls, ContainerFound(c) PROVE Kept
    <2>1. /\ initialized' = TRUE /\ Goto(c, "remote")
          /\ UNCHANGED <<kind, executor, service, clients, astray>>
      BY <1>11 DEF ContainerFound, config
    <2>2. \A x \in Calls : pc'[x] \in Ending => pc[x] \in Ending
      BY <2>1 DEF Goto, StoreInv, Typed, Ending
    <2>3. ClientsClosed'
      BY <2>1, <2>2 DEF StoreInv, ClientsClosed, Ending
    <2> QED
      BY <2>1, <2>3 DEF ClientTypes, StoreInv, Typed
  <1>12. ASSUME NEW c \in Calls, ProbeFails(c) \/ CreateFails(c) PROVE Kept
    <2>1. /\ Goto(c, "back") /\ clients' \subseteq clients
          /\ \/ initialized' = TRUE /\ astray' = astray
             \/ initialized' = initialized /\ astray' = astray \cup {c}
          /\ UNCHANGED <<kind, executor, service>>
      BY <1>12 DEF ProbeFails, CreateFails, config
    <2>2. \A x \in Calls : pc'[x] \in Ending => pc[x] \in Ending
      BY <2>1 DEF Goto, StoreInv, Typed, Ending
    <2>3. Initializing \subseteq Initializing' \cup {c}
      BY <2>1 DEF Goto, StoreInv, Typed, Initializing
    <2>4. ~initialized' => clients' \subseteq Initializing' \cup astray'
      BY <2>1, <2>3 DEF StoreInv, ClientsClosed
    <2>5. ClientsClosed'
      BY <2>1, <2>2, <2>4 DEF StoreInv, ClientsClosed, Ending
    <2> QED
      BY <2>1, <2>5 DEF ClientTypes, StoreInv, Typed
  <1>13. ASSUME NEW c \in Calls, CloseService(c) PROVE Kept
    <2>1. /\ clients' = clients \ {service} /\ c \notin Initializing
          /\ \E place \in {"shutting", "unset"} : Goto(c, place)
          /\ UNCHANGED <<kind, executor, service, initialized, astray>>
      BY <1>13 DEF CloseService, PastContainer, config, Initializing
    <2>2. clients' \subseteq astray
      BY <2>1 DEF StoreInv, ClientsClosed
    <2>3. ClientsClosed'
      BY <2>1, <2>2 DEF StoreInv, ClientsClosed
    <2> QED
      BY <2>1, <2>3 DEF ClientTypes, StoreInv, Typed
  <1>14. ASSUME NEW c \in Calls, UnsetService(c) PROVE Kept
    <2>1. pc[c] = "unset" /\ UNCHANGED <<kind, executor, clients, initialized, astray>>
      BY <1>14 DEF UnsetService, config
    <2>2. clients' \subseteq astray
      BY <2>1 DEF StoreInv, ClientsClosed
    <2>3. ClientsClosed'
      BY <2>1, <2>2 DEF StoreInv, ClientsClosed
    <2> QED
      BY <2>1, <2>3 DEF ClientTypes, StoreInv, Typed
  <1>15. ASSUME NEW c \in Calls, CancelPooled(c), UNCHANGED clientVars PROVE Kept
    <2>1. /\ UNCHANGED <<kind, clients, service, initialized, astray, executor>>
          /\ UNCHANGED pc \/ (Goto(c, "back") /\ c \notin Initializing)
      BY <1>15 DEF CancelPooled, config, clientVars, Initializing
    <2>2. ClientsSteady
      BY <2>1, SteadyClients DEF StoreInv, ClientsSteady, Ending, Initializing
    <2> QED
      BY <2>2, ClientsSteadyKeeps
  <1>16. ASSUME NEW c \in Calls, CancelAzure(c) PROVE Kept
    <2>1. /\ UNCHANGED <<kind, clients, service, initialized, executor>>
          /\ \/ UNCHANGED <<pc, astray>>
             \/ Goto(c, "back") /\ astray' = astray \cup ({c} \cap Initializing)
      BY <1>16 DEF CancelAzure, config
    <2>2. \A x \in Calls : pc'[x] \in Ending => pc[x] \in Ending
      BY <2>1 DEF Goto, StoreInv, Typed, Ending
    <2>3. Initializing \cup astray \subseteq Initializing' \cup astray'
      BY <2>1 DEF Goto, StoreInv, Typed, Initializing
    <2>4. astray \subseteq astray' /\ astray' \in SUBSET Calls
      BY <2>1 DEF StoreInv, Typed
    <2>5. ClientsClosed'
      BY <2>1, <2>2, <2>3, <2>4 DEF StoreInv, ClientsClosed, Ending
    <2> QED
      BY <2>1, <2>4, <2>5 DEF ClientTypes, StoreInv, Typed
  <1> QED
    BY <1>1, <1>2, <1>3, <1>4, <1>5, <1>6, <1>7, <1>8, <1>9, <1>10, <1>11, <1>12, <1>13, <1>14, <1>15,
       <1>16 DEF Next, Begin, CallStep, Cancel

-----------------------------------------------------------------------------
(* The store                                                                *)

LEMMA DesertedTyped ==
  ASSUME Typed, [Next]_vars
  PROVE  deserted' \in SUBSET Calls
  <1>1. UNCHANGED deserted \/ \E c \in Calls : deserted' = deserted \cup {c}
    <2>1. CASE UNCHANGED vars
      BY <2>1 DEF vars, baseVars
    <2>2. CASE PoolStep
      BY <2>2 DEF PoolStep, Start
    <2>3. ASSUME NEW c \in Calls, Begin(c) PROVE UNCHANGED deserted
      BY <2>3 DEF Begin, BeginPooled, BeginPooledClose, BeginReady, BeginInit, BeginRefused,
                  BeginAzureClose, Begins
    <2>4. ASSUME NEW c \in Calls, CallStep(c) PROVE UNCHANGED deserted
      BY <2>4 DEF CallStep, ThreadStep, GetInPool, DeleteInPool, CheckPut, Upload, OpenFile, FillFile,
                  FillOrphan, FailInPool, Deliver, ShutdownPool, JoinPool, ContainerFound,
                  ContainerMissing, ProbeFails, CreateFails, PutRemote, DeleteRemote, RemoteUnchanged,
                  CloseContainer, CloseService, UnsetService
    <2>5. ASSUME NEW c \in Calls, Cancel(c)
          PROVE  UNCHANGED deserted \/ deserted' = deserted \cup {c}
      BY <2>5 DEF Cancel, CancelPooled, CancelAzure
    <2> QED
      BY <2>1, <2>2, <2>3, <2>4, <2>5 DEF Next
  <1> QED
    BY <1>1 DEF Typed

LEMMA StoreBegins == Init => StoreInv
  <1> SUFFICES ASSUME Init PROVE StoreInv
    OBVIOUS
  <1>1. /\ kind \in Kinds /\ executor = "open" /\ queue = <<>>
        /\ \E v \in {Absent, Old} : bucket = [k \in Keys |-> v]
        /\ call = [c \in Calls |-> NoRequest] /\ pc = [c \in Calls |-> "out"]
        /\ written = {} /\ deserted = {} /\ kept = {} /\ rivals = [c \in Calls |-> {}]
        /\ clients = {} /\ astray = {} /\ ~initialized
    BY DEF Init, BaseInit, AzureInit
  <1>2. /\ astray \in SUBSET Calls /\ initialized \in BOOLEAN
    BY DEF Init, AzureInit
  <1>3. bucket \in [Keys -> Contents]
    BY <1>1 DEF Contents
  <1>4. Typed
    BY <1>1, <1>2, <1>3 DEF Typed, Places
  <1>5. DataInv
    BY <1>1 DEF DataInv, Unbegun, PutsWrite, Writing, KeptThere, RivalsKnown, FillShown,
                Settled, Changes, Of, NoRequest, WrittenOver
  <1>6. PoolInv
    <2>1. Len(queue) = 0
      BY <1>1
    <2> QED
      BY <1>1, <2>1 DEF PoolInv, Queued, QueuedOnce, PoolGone
  <1>7. ClientsClosed
    BY <1>1 DEF ClientsClosed
  <1>8. PlacesFit
    BY <1>1 DEF PlacesFit, Busy
  <1> QED
    BY <1>4, <1>5, <1>6, <1>7, <1>8 DEF StoreInv

LEMMA StoreStays == StoreInv /\ [Next]_vars => StoreInv'
  <1> SUFFICES ASSUME StoreInv, [Next]_vars PROVE StoreInv'
    OBVIOUS
  <1>1. Typed /\ DataStep
    BY NextIsDataStep DEF StoreInv
  <1>2. Typed'
    BY <1>1, DataStepTypes, DesertedTyped, PoolKeeps, ClientsKeep DEF Typed, ClientTypes, StoreInv
  <1> QED
    BY <1>1, <1>2, DataStepKeeps, PoolKeeps, PlacesKeep, ClientsKeep DEF StoreInv

LEMMA StoreInvariant == Spec => []StoreInv
  BY StoreBegins, StoreStays, PTL DEF Spec

\* A put without overwrite changes nothing under a key that has held an object ever
\* since the put began, nor in Azure under one that holds an object now, whatever the other
\* calls, the cancellations and the failures.
THEOREM NothingOverwrittenUnasked == Spec => KeepsExisting
  <1> DEFINE Protected(c) == c \in kept \/ (kind = "azure-blob" /\ bucket[call[c].key] # Absent)
             Kept(c) == /\ ~call[c].overwrite /\ bucket'[call[c].key] # bucket[call[c].key]
                        /\ Protected(c)
                        => pc'[c] = pc[c]
  <1>1. ASSUME StoreInv, [Next]_vars, NEW c \in Of("put")
        PROVE  Kept(c)
    <2>1. c \in Calls /\ c \notin Of("delete") /\ (Protected(c) => pc[c] # "fill")
      BY <1>1 DEF StoreInv, DataInv, KeptThere, Writing, Of, PlacesFit
    <2>2. CASE UNCHANGED <<kind, bucket, call, pc, written, kept, rivals>>
      BY <2>2
    <2>3. ASSUME NEW d \in Calls, BeginsOnly(d) PROVE Kept(c)
      BY <2>3 DEF BeginsOnly, Begins
    <2>4. ASSUME NEW d \in Calls, Moves(d) PROVE Kept(c)
      BY <2>4 DEF Moves
    <2>5. ASSUME NEW d \in Calls, Writes(d) PROVE Kept(c)
      <3>1. CASE d = c
        BY <2>5, <3>1 DEF Writes, Key
      <3>2. CASE d # c
        BY <1>1, <2>1, <2>5, <3>2 DEF Writes, StoreInv, Typed
      <3> QED
        BY <3>1, <3>2
    <2>6. ASSUME NEW d \in Calls, Deletes(d) PROVE Kept(c)
      BY <2>1, <2>6 DEF Deletes
    <2> QED
      BY <1>1, <2>2, <2>3, <2>4, <2>5, <2>6, NextIsDataStep DEF DataStep
  <1>2. StoreInv /\ [Next]_vars => [\A c \in Of("put") : Kept(c)]_vars
    BY <1>1
  <1> QED
    BY <1>2, StoreInvariant, PTL DEF Spec, KeepsExisting

\* What a put reported written is there, or else what a change of its key left that met the
\* put or came later, for any calls, threads, cancellations and failures.
THEOREM WrittenStays == Spec => []WrittenIsThere
  <1>1. StoreInv => WrittenIsThere
    BY DEF StoreInv, DataInv, Settled, Explained, Key, WrittenIsThere, Typed
  <1> QED
    BY <1>1, StoreInvariant, PTL

\* When close() has let the pool go, none of its threads works and no call waits for one.
THEOREM QuietOnceClosed == Spec => []ClosedIsQuiet
  <1>1. StoreInv => ClosedIsQuiet
    <2> SUFFICES ASSUME StoreInv, executor = "none"
                 PROVE  Running = {} /\ \A c \in Calls : pc[c] # "queued"
      BY DEF ClosedIsQuiet
    <2>1. queue = <<>> /\ \A c \in Calls : pc[c] # "run" /\ ~Writing(c)
      BY DEF StoreInv, PoolInv, PoolGone
    <2>2. \A c \in Calls : pc[c] # "queued"
      BY <2>1 DEF StoreInv, PoolInv, Queued
    <2> QED
      BY <2>1, <2>2 DEF Running, Writing
  <1> QED
    BY <1>1, StoreInvariant, PTL

\* One service client of the Azure store is open at most, and none after close(), but for
\* those of initialisations that were cancelled, failed to create the container, were
\* overtaken by another one or met a close().
THEOREM NoClientIsLeft == Spec => []NoClientLeaks
  <1>1. StoreInv => NoClientLeaks
    BY DEF StoreInv, ClientsClosed, NoClientLeaks
  <1> QED
    BY <1>1, StoreInvariant, PTL

-----------------------------------------------------------------------------
(* Nobody is left waiting                                                   *)

\* The loop's thread is held while one call of close() waits for the pool, and by no other.
OneJoins ==
  /\ executor = "draining" => \E c \in Calls : pc[c] = "joining"
  /\ \A c \in Calls : pc[c] = "joining" => executor = "draining"
  /\ \A c, d \in Calls : pc[c] = "joining" /\ pc[d] = "joining" => c = d

\* What a call waits for when the loop is to resume it.
LoopPlaces == {"returned", "probe", "create", "closing", "uncontain", "unset", "shutting"}

\* A thread of the pool is free for what is in the queue.
ThreadFree == queue # <<>> /\ Cardinality(Running) < Concurrency

\* The call can take its next step: a thread has it, a service has it, the loop is free to
\* resume it, or it is close() and the pool is drained.
GoesOn(c) ==
  \/ c \in Running
  \/ pc[c] = "remote"
  \/ pc[c] \in LoopPlaces /\ LoopFree
  \/ pc[c] = "joining" /\ queue = <<>> /\ Running = {}

\* While any call is under way the pool can start work or some call can go on.
NobodyStuck ==
  (\E c \in Calls : pc[c] \notin {"out", "back"}) => ThreadFree \/ \E c \in Calls : GoesOn(c)

\* Who waits for a thread is in the queue, in one place of it, and nobody else is but calls
\* that were withdrawn there: no call waits that no thread would ever come to, none is taken
\* twice, and what a thread takes is work for a thread, never a close() that would wait for
\* itself.
WorkIsTaken ==
  /\ \A c \in Calls : pc[c] = "queued" =>
       \E n \in 1..Len(queue) : queue[n] = c /\ \A m \in 1..Len(queue) : queue[m] = c => m = n
  /\ \A n \in 1..Len(queue) : pc[queue[n]] \in {"queued", "back"}
  /\ \A c \in Calls : pc[c] \in {"queued", "run"} => c \in Of("get") \cup Of("put") \cup Of("delete")

\* How far the work of a thread or of the service has come, without the loop.
Stage == [queued |-> 0, remote |-> 0, run |-> 1, write |-> 2, fill |-> 3, orphan |-> 4,
          returned |-> 5, back |-> 5]

Forward(c) ==
  /\ pc[c] \in DOMAIN Stage /\ pc'[c] \in DOMAIN Stage
  /\ Stage[pc[c]] < Stage[pc'[c]]

\* While close() holds the loop, every step either ends the wait, the pool being drained, or
\* takes from the queue or brings a call that has begun forward, by its thread or its service:
\* nothing new comes in, nothing goes back, and none of it is a step of the loop.
DrainGoesForward ==
  [][executor = "draining" =>
       \/ executor' = "none" /\ queue = <<>> /\ Running = {}
       \/ /\ executor' = "draining"
          /\ queue' = queue \/ (queue # <<>> /\ queue' = Tail(queue))
          /\ queue' # queue \/ pc' # pc
          /\ \A c \in Calls : pc'[c] # pc[c] => Forward(c)]_vars

\* A step that is neither the one into the pool's shutdown nor the one out of it.
JoinsSteady ==
  executor' = executor /\ \A x \in Calls : pc'[x] = "joining" <=> pc[x] = "joining"

LEMMA JoinsSteadyKeeps ==
  ASSUME OneJoins, JoinsSteady
  PROVE  OneJoins'
  BY DEF OneJoins, JoinsSteady

LEMMA SteadyJoins ==
  ASSUME Typed, NEW c \in Calls, NEW place, Goto(c, place), executor' = executor,
         pc[c] # "joining", place # "joining"
  PROVE  JoinsSteady
  BY DEF JoinsSteady, Goto, Typed

LEMMA OneJoinsStays ==
  ASSUME StoreInv, OneJoins, [Next]_vars
  PROVE  OneJoins'
  <1>1. CASE UNCHANGED vars
    BY <1>1, JoinsSteadyKeeps DEF vars, baseVars, JoinsSteady
  <1>2. CASE PoolStep
    <2> DEFINE h == Head(queue)
    <2>1. /\ queue \in Seq(Calls) /\ queue # <<>> /\ executor' = executor
          /\ (pc[h] = "queued" /\ Goto(h, "run")) \/ UNCHANGED pc
      BY <1>2 DEF PoolStep, Start, StoreInv, Typed
    <2>2. h \in Calls
      BY <2>1, HeadTailProperties
    <2>3. JoinsSteady
      BY <2>1, <2>2, SteadyJoins DEF StoreInv, JoinsSteady
    <2> QED
      BY <2>3, JoinsSteadyKeeps
  <1>3. ASSUME NEW c \in Calls, Begin(c) PROVE OneJoins'
    <2>1. executor' = executor /\ pc[c] = "out" /\ \E place \in Places \ {"joining"} : Goto(c, place)
      BY <1>3 DEF Begin, BeginPooled, BeginPooledClose, BeginReady, BeginInit, BeginRefused,
                  BeginAzureClose, Begins, Places
    <2> QED
      BY <2>1, SteadyJoins, JoinsSteadyKeeps DEF StoreInv
  <1>4. ASSUME NEW c \in Calls, ThreadStep(c) PROVE OneJoins'
    <2>1. CASE DeleteInPool(c)
      <3>1. JoinsSteady
        BY <2>1 DEF DeleteInPool, JoinsSteady, StoreInv, Typed
      <3> QED
        BY <3>1, JoinsSteadyKeeps
    <2>2. CASE ~DeleteInPool(c)
      <3>1. /\ executor' = executor /\ pc[c] # "joining"
            /\ \E place \in Places \ {"joining"} : Goto(c, place)
        BY <1>4, <2>2 DEF ThreadStep, GetInPool, CheckPut, Upload, OpenFile, FillFile, FillOrphan,
                          FailInPool, Running, Returns, Places
      <3> QED
        BY <3>1, SteadyJoins, JoinsSteadyKeeps DEF StoreInv
    <2> QED
      BY <2>1, <2>2
  <1>5. ASSUME NEW c \in Calls, PutRemote(c) \/ DeleteRemote(c) \/ RemoteUnchanged(c) PROVE OneJoins'
    <2>1. executor' = executor /\ pc[c] # "joining" /\ \E place \in Places \ {"joining"} : Goto(c, place)
      BY <1>5 DEF PutRemote, DeleteRemote, RemoteUnchanged, Returns, Places
    <2> QED
      BY <2>1, SteadyJoins, JoinsSteadyKeeps DEF StoreInv
  <1>6. ASSUME NEW c \in Calls, ShutdownPool(c) PROVE OneJoins'
    <2>1. CASE executor = "none"
      BY <1>6, <2>1, SteadyJoins, JoinsSteadyKeeps DEF ShutdownPool, StoreInv
    <2>2. CASE executor # "none"
      <3>1. executor' = "draining" /\ Goto(c, "joining") /\ executor # "draining"
        BY <1>6, <2>2 DEF ShutdownPool, LoopFree
      <3>2. \A x \in Calls : pc'[x] = "joining" <=> x = c
        BY <3>1 DEF OneJoins, Goto, StoreInv, Typed
      <3> QED
        BY <3>1, <3>2 DEF OneJoins
    <2> QED
      BY <2>1, <2>2
  <1>7. ASSUME NEW c \in Calls, JoinPool(c) PROVE OneJoins'
    <2>1. executor' = "none" /\ Goto(c, "back") /\ pc[c] = "joining"
      BY <1>7 DEF JoinPool
    <2>2. \A x \in Calls : pc'[x] # "joining"
      BY <2>1 DEF OneJoins, Goto, StoreInv, Typed
    <2> QED
      BY <2>1, <2>2 DEF OneJoins
  <1>8. ASSUME NEW c \in Calls,
               \/ Deliver(c) \/ ContainerFound(c) \/ ContainerMissing(c) \/ ProbeFails(c) \/ CreateFails(c)
               \/ CloseContainer(c) \/ CloseService(c) \/ UnsetService(c)
        PROVE  OneJoins'
    <2>1. executor' = executor /\ pc[c] # "joining" /\ \E place \in Places \ {"joining"} : Goto(c, place)
      BY <1>8 DEF Deliver, ContainerFound, ContainerMissing, ProbeFails, CreateFails, CloseContainer,
                  CloseService, UnsetService, Initializing, PastContainer, Places
    <2> QED
      BY <2>1, SteadyJoins, JoinsSteadyKeeps DEF StoreInv
  <1>9. ASSUME NEW c \in Calls, Cancel(c) PROVE OneJoins'
    <2>1. executor' = executor /\ (UNCHANGED pc \/ (pc[c] # "joining" /\ Goto(c, "back")))
      BY <1>9 DEF Cancel, CancelPooled, CancelAzure, Initializing
    <2>2. JoinsSteady
      BY <2>1, SteadyJoins DEF StoreInv, JoinsSteady
    <2> QED
      BY <2>2, JoinsSteadyKeeps
  <1> QED
    BY <1>1, <1>2, <1>3, <1>4, <1>5, <1>6, <1>7, <1>8, <1>9 DEF Next, CallStep

LEMMA OneJoinsHolds == Spec => []OneJoins
  <1>1. Init => OneJoins
    BY DEF Init, BaseInit, OneJoins
  <1>2. StoreInv /\ OneJoins /\ [Next]_vars => OneJoins'
    BY OneJoinsStays
  <1> QED
    BY <1>1, <1>2, StoreInvariant, PTL DEF Spec

\* Who is queued is taken by a thread, once, through cancellations in the queue, a close()
\* that drains it and whatever the threads do (the executor of BaseDoStore).
THEOREM QueuedWorkIsTaken == Spec => []WorkIsTaken
  <1>1. StoreInv => WorkIsTaken
    <2> SUFFICES ASSUME StoreInv PROVE WorkIsTaken
      OBVIOUS
    <2>1. ASSUME NEW c \in Calls, pc[c] = "queued"
          PROVE  \E n \in 1..Len(queue) : queue[n] = c /\ \A m \in 1..Len(queue) : queue[m] = c => m = n
      <3>1. PICK n \in 1..Len(queue) : queue[n] = c
        BY <2>1 DEF StoreInv, PoolInv, Queued
      <3>2. \A m \in 1..Len(queue) : queue[m] = c => m = n
        BY <3>1 DEF StoreInv, PoolInv, QueuedOnce
      <3> QED
        BY <3>1, <3>2
    <2>2. \A n \in 1..Len(queue) : pc[queue[n]] \in {"queued", "back"}
      BY DEF StoreInv, PoolInv, QueuedOnce
    <2>3. \A c \in Calls : pc[c] \in {"queued", "run"} => c \in Of("get") \cup Of("put") \cup Of("delete")
      BY DEF StoreInv, PlacesFit
    <2> QED
      BY <2>1, <2>2, <2>3 DEF WorkIsTaken
  <1> QED
    BY <1>1, StoreInvariant, PTL

\* A call whose thread or service moves it does so to a later stage.
LEMMA StepsForward ==
  ASSUME Typed, NEW c \in Calls, NEW place \in DOMAIN Stage, Goto(c, place),
         pc[c] \in DOMAIN Stage, Stage[pc[c]] < Stage[place]
  PROVE  pc' # pc /\ \A x \in Calls : pc'[x] # pc[x] => Forward(x)
  <1>1. pc'[c] = place /\ \A x \in Calls \ {c} : pc'[x] = pc[x]
    BY DEF Goto, Typed
  <1>2. Stage[pc[c]] # Stage[place]
    BY DEF Stage
  <1>3. Forward(c)
    BY <1>1 DEF Forward
  <1> QED
    BY <1>1, <1>2, <1>3

\* What close() waits for on the loop's thread needs the loop for nothing: held, the loop
\* sees the threads and the service through to the end of what has begun and nothing else,
\* in each kind of store, with any number of calls and threads.
THEOREM DrainNeedsNoLoop == Spec => DrainGoesForward
  <1> DEFINE Drains ==
        \/ executor' = "none" /\ queue = <<>> /\ Running = {}
        \/ /\ executor' = "draining"
           /\ queue' = queue \/ (queue # <<>> /\ queue' = Tail(queue))
           /\ queue' # queue \/ pc' # pc
           /\ \A c \in Calls : pc'[c] # pc[c] => Forward(c)
  <1>1. ASSUME StoreInv, Next, executor = "draining"
        PROVE  Drains
    <2>1. CASE PoolStep
      <3>1. /\ queue # <<>> /\ queue \in Seq(Calls) /\ queue' = Tail(queue) /\ executor' = executor
            /\ IF pc[Head(queue)] = "queued" THEN Goto(Head(queue), "run") ELSE UNCHANGED pc
        BY <1>1, <2>1 DEF PoolStep, Start, StoreInv, Typed
      <3>2. Head(queue) \in Calls /\ Len(queue') = Len(queue) - 1 /\ Len(queue) \in Nat
        BY <3>1, HeadTailProperties
      <3>3. queue' # queue
        BY <3>2
      <3>4. ASSUME NEW c \in Calls, pc'[c] # pc[c] PROVE Forward(c)
        BY <1>1, <3>1, <3>2, <3>4 DEF Forward, Stage, Goto, StoreInv, Typed
      <3> QED
        BY <1>1, <3>1, <3>3, <3>4
    <2>2. ASSUME NEW c \in Calls PROVE ~Begin(c) /\ ~Cancel(c)
      BY <1>1 DEF Begin, BeginPooled, BeginPooledClose, BeginReady, BeginInit, BeginRefused,
                  BeginAzureClose, Begins, Cancel, CancelPooled, CancelAzure, LoopFree
    <2>3. ASSUME NEW c \in Calls, DeleteInPool(c) PROVE Drains
      <3>1. /\ pc[c] = "run" /\ UNCHANGED <<queue, executor>>
            /\ pc' = [x \in Calls |->
                        IF x = c THEN IF c \in deserted THEN "back" ELSE "returned"
                        ELSE IF pc[x] = "fill" /\ x \in OnKey(call[c].key) THEN "orphan" ELSE pc[x]]
        BY <2>3 DEF DeleteInPool
      <3>2. \A x \in Calls : pc'[x] # pc[x] => Forward(x)
        BY <3>1 DEF Forward, Stage
      <3>3. pc'[c] # pc[c]
        BY <3>1
      <3> QED
        BY <1>1, <3>1, <3>2, <3>3
    <2>4. ASSUME NEW c \in Calls, ThreadStep(c) \/ PutRemote(c) \/ DeleteRemote(c) \/ RemoteUnchanged(c),
                 ~DeleteInPool(c)
          PROVE  Drains
      <3>1. /\ UNCHANGED <<queue, executor>>
            /\ \/ pc[c] \in {"run", "write", "fill", "orphan", "remote"} /\ Returns(c)
               \/ pc[c] = "run" /\ Goto(c, "write")
               \/ pc[c] = "write" /\ Goto(c, "fill")
        BY <2>4 DEF ThreadStep, GetInPool, CheckPut, Upload, OpenFile, FillFile, FillOrphan, FailInPool,
                    PutRemote, DeleteRemote, RemoteUnchanged, Running
      <3>2. \E place \in DOMAIN Stage :
              Goto(c, place) /\ pc[c] \in DOMAIN Stage /\ Stage[pc[c]] < Stage[place]
        BY <3>1 DEF Returns, Stage
      <3>3. pc' # pc /\ \A x \in Calls : pc'[x] # pc[x] => Forward(x)
        BY <1>1, <3>2, StepsForward DEF StoreInv
      <3> QED
        BY <1>1, <3>1, <3>3
    <2>5. ASSUME NEW c \in Calls, JoinPool(c) PROVE Drains
      BY <2>5 DEF JoinPool
    <2>6. ASSUME NEW c \in Calls
          PROVE  /\ ~Deliver(c) /\ ~ShutdownPool(c) /\ ~ContainerFound(c) /\ ~ContainerMissing(c)
                 /\ ~ProbeFails(c) /\ ~CreateFails(c) /\ ~CloseContainer(c) /\ ~CloseService(c)
                 /\ ~UnsetService(c)
      BY <1>1 DEF Deliver, ShutdownPool, ContainerFound, ContainerMissing, ProbeFails, CreateFails,
                  CloseContainer, CloseService, UnsetService, LoopFree
    <2> QED
      BY <1>1, <2>1, <2>2, <2>3, <2>4, <2>5, <2>6 DEF Next, CallStep
  <1>2. StoreInv /\ [Next]_vars => [executor = "draining" => Drains]_vars
    BY <1>1
  <1> QED
    BY <1>2, StoreInvariant, PTL DEF Spec, DrainGoesForward

\* No store ever comes to a standstill with calls under way, close() included, for any
\* calls, threads, cancellations and failures: what EveryCallAnswered rests on.
THEOREM CallsGoOn == Spec => []NobodyStuck
  <1>1. StoreInv /\ OneJoins => NobodyStuck
    <2> SUFFICES ASSUME StoreInv, OneJoins, NEW c \in Calls, pc[c] \notin {"out", "back"}
                 PROVE  ThreadFree \/ \E d \in Calls : GoesOn(d)
      BY DEF NobodyStuck
    <2>1. ASSUME NEW d \in Calls, d \in Running PROVE GoesOn(d)
      BY <2>1 DEF GoesOn
    <2>2. queue # <<>> /\ Running = {} => ThreadFree
      BY FS_EmptySet, ConcurrencyAssumption DEF ThreadFree
    <2>3. CASE LoopFree
      <3>1. pc[c] # "joining"
        BY <2>3 DEF OneJoins, LoopFree
      <3>2. CASE pc[c] = "queued"
        <4>1. PICK n \in 1..Len(queue) : queue[n] = c
          BY <3>2 DEF StoreInv, PoolInv, Queued
        <4>2. Len(<<>>) = 0
          OBVIOUS
        <4>3. queue # <<>>
          BY <4>1, <4>2
        <4> QED
          BY <2>1, <2>2, <4>3 DEF Running
      <3>3. CASE pc[c] # "queued"
        <4>1. pc[c] \in {"run", "write", "fill", "orphan", "remote"} \cup LoopPlaces
          BY <3>1, <3>3 DEF StoreInv, Typed, Places, LoopPlaces
        <4> QED
          BY <2>3, <4>1 DEF GoesOn, Running
      <3> QED
        BY <3>2, <3>3
    <2>4. CASE ~LoopFree
      <3>1. PICK d \in Calls : pc[d] = "joining"
        BY <2>4 DEF OneJoins, LoopFree
      <3>2. CASE Running # {}
        BY <2>1, <3>2 DEF Running
      <3>3. CASE Running = {}
        BY <2>2, <3>1, <3>3 DEF GoesOn
      <3> QED
        BY <3>2, <3>3
    <2> QED
      BY <2>3, <2>4
  <1> QED
    BY <1>1, OneJoinsHolds, StoreInvariant, PTL
=============================================================================
