------------------------- MODULE MprocLoggingProofs -------------------------
(***************************************************************************)
(* That the records of one process are handled in the order it logged them *)
(* and none is lost unnoticed, for any processes, any slots of the queue,  *)
(* any number of records and any of the faults.                            *)
(***************************************************************************)
EXTENDS MprocLogging, SequenceTheorems, TLAPS

Records == [kind : Kinds, from : Producers, number : Nat, copy : BOOLEAN]
Entries == Records \cup [kind : {"sentinel"}, copy : BOOLEAN]

\* A record of p, among what else is on its way.
Of(p, r) == r.kind \in Kinds /\ r.from = p

Increasing(s) == \A i, j \in 1..Len(s) : i < j => s[i] < s[j]

Typed ==
  /\ record \in Entries \cup {NoRecord}
  /\ buffer \in [Producers \cup {Listener} -> Seq(Entries)]
  /\ pipe \in Seq(Entries)
  /\ logged \in [Producers -> Nat]
  /\ handled \in [Producers -> Seq(Nat)]
  /\ listener = "handling" => record \in Entries

\* What a process puts is its own; the listener puts sentinels.
OwnBuffers ==
  \A q \in Producers \cup {Listener} : \A j \in 1..Len(buffer[q]) :
    buffer[q][j].kind \in Kinds => buffer[q][j].from = q

\* What a process has logged is numbered in order, stage by stage: handled first, then
\* the record being handled, then the pipe, then the buffer.
HandledFirst(p) ==
  \A i \in 1..Len(handled[p]) :
    /\ Of(p, record) => handled[p][i] < record.number
    /\ \A j \in 1..Len(pipe) : Of(p, pipe[j]) => handled[p][i] < pipe[j].number
    /\ \A j \in 1..Len(buffer[p]) : Of(p, buffer[p][j]) => handled[p][i] < buffer[p][j].number

RecordNext(p) ==
  Of(p, record) =>
    /\ \A j \in 1..Len(pipe) : Of(p, pipe[j]) => record.number < pipe[j].number
    /\ \A j \in 1..Len(buffer[p]) : Of(p, buffer[p][j]) => record.number < buffer[p][j].number

PipeNext(p) ==
  \A i \in 1..Len(pipe) : Of(p, pipe[i]) =>
    /\ \A j \in 1..Len(pipe) : i < j /\ Of(p, pipe[j]) => pipe[i].number < pipe[j].number
    /\ \A j \in 1..Len(buffer[p]) : Of(p, buffer[p][j]) => pipe[i].number < buffer[p][j].number

BufferLast(p) ==
  \A i \in 1..Len(buffer[p]) : Of(p, buffer[p][i]) =>
    /\ \A j \in 1..Len(buffer[p]) :
         i < j /\ Of(p, buffer[p][j]) => buffer[p][i].number < buffer[p][j].number

AllLogged(p) ==
  /\ \A i \in 1..Len(handled[p]) : handled[p][i] <= logged[p]
  /\ Of(p, record) => record.number <= logged[p]
  /\ \A j \in 1..Len(pipe) : Of(p, pipe[j]) => pipe[j].number <= logged[p]
  /\ \A j \in 1..Len(buffer[p]) : Of(p, buffer[p][j]) => buffer[p][j].number <= logged[p]

Staged(p) ==
  /\ Increasing(handled[p]) /\ HandledFirst(p) /\ RecordNext(p) /\ PipeNext(p) /\ BufferLast(p)
  /\ AllLogged(p)

OrderInv == Typed /\ OwnBuffers /\ \A p \in Producers : Staged(p)

-----------------------------------------------------------------------------
(* Entries and sequences                                                    *)

\* The kinds differ, and so do the processes.
LEMMA KindsDiffer ==
  /\ \A r \in Records : r.kind \in Kinds /\ r.from \in Producers /\ r.number \in Nat
  /\ \A r \in Entries : r.kind \in Kinds => r \in Records
  /\ LogSentinel \in Entries /\ LogSentinel.kind \notin Kinds /\ NoRecord.kind \notin Kinds
  /\ \A q \in Producers : q # Listener
  BY LoggingAssumption DEF Entries, Records, Kinds, LogSentinel, NoRecord

\* The copy that the queue's thread writes is the same record.
LEMMA CopyIsSame ==
  ASSUME NEW r \in Entries
  PROVE  LET copied == [r EXCEPT !.copy = TRUE]
         IN  /\ copied \in Entries /\ copied.kind = r.kind
             /\ r.kind \in Kinds => copied.from = r.from /\ copied.number = r.number
  <1>1. CASE r \in Records
    BY <1>1 DEF Entries, Records
  <1>2. CASE r \in [kind : {"sentinel"}, copy : BOOLEAN]
    BY <1>2 DEF Entries, Kinds
  <1> QED
    BY <1>1, <1>2 DEF Entries

LEMMA AppendFacts ==
  ASSUME NEW S, NEW s \in Seq(S), NEW e \in S
  PROVE  /\ Append(s, e) \in Seq(S) /\ Len(Append(s, e)) = Len(s) + 1 /\ Len(s) \in Nat
         /\ Append(s, e)[Len(s) + 1] = e
         /\ \A j \in 1..Len(s) : Append(s, e)[j] = s[j]
  BY AppendProperties, LenProperties

LEMMA TailFacts ==
  ASSUME NEW S, NEW s \in Seq(S), s # <<>>
  PROVE  /\ Tail(s) \in Seq(S) /\ Len(Tail(s)) = Len(s) - 1 /\ Len(s) \in Nat \ {0}
         /\ Head(s) \in S /\ Head(s) = s[1] /\ 1 \in 1..Len(s)
         /\ \A j \in 1..Len(Tail(s)) : Tail(s)[j] = s[j + 1] /\ j + 1 \in 2..Len(s)
  <1>1. Len(s) \in Nat \ {0}
    BY EmptySeq
  <1> QED
    BY <1>1, HeadTailProperties

LEMMA NumbersAreNumbers ==
  ASSUME Typed, NEW p \in Producers
  PROVE  /\ \A i \in 1..Len(handled[p]) : handled[p][i] \in Int
         /\ Of(p, record) => record.number \in Int
         /\ \A i \in 1..Len(pipe) : pipe[i] \in Entries
         /\ \A i \in 1..Len(pipe) : Of(p, pipe[i]) => pipe[i].number \in Int
         /\ \A i \in 1..Len(buffer[p]) : buffer[p][i] \in Entries
         /\ \A i \in 1..Len(buffer[p]) : Of(p, buffer[p][i]) => buffer[p][i].number \in Int
  <1>1. handled[p] \in Seq(Nat) /\ buffer[p] \in Seq(Entries) /\ pipe \in Seq(Entries)
    BY DEF Typed
  <1>2. /\ \A i \in 1..Len(handled[p]) : handled[p][i] \in Nat
        /\ \A i \in 1..Len(buffer[p]) : buffer[p][i] \in Entries
        /\ \A i \in 1..Len(pipe) : pipe[i] \in Entries
    BY <1>1, ElementOfSeq
  <1>3. \A r \in Entries \cup {NoRecord} : Of(p, r) => r.number \in Int
    BY KindsDiffer DEF Of
  <1> QED
    BY <1>2, <1>3 DEF Typed

LEMMA BoundGrows ==
  ASSUME Typed, Typed', NEW p \in Producers, AllLogged(p), logged[p] <= logged'[p]
  PROVE  /\ \A i \in 1..Len(handled[p]) : handled[p][i] <= logged'[p]
         /\ Of(p, record) => record.number <= logged'[p]
         /\ \A j \in 1..Len(pipe) : Of(p, pipe[j]) => pipe[j].number <= logged'[p]
         /\ \A j \in 1..Len(buffer[p]) :
              Of(p, buffer[p][j]) => buffer[p][j].number <= logged'[p]
  <1>1. logged[p] \in Int /\ logged'[p] \in Int
    BY DEF Typed
  <1>2. \A n \in Int : n <= logged[p] => n <= logged'[p]
    BY <1>1
  <1> QED
    BY <1>2, NumbersAreNumbers DEF AllLogged

-----------------------------------------------------------------------------
(* Steps                                                                    *)

\* A step that takes no record any further, and may take some out, keeps the order.
LEMMA LessKeeps ==
  ASSUME OrderInv, Typed', OwnBuffers',
         record' = record \/ record'.kind \notin Kinds,
         UNCHANGED <<handled, pipe>>, \A q \in Producers : logged[q] <= logged'[q],
         \A q \in Producers : buffer'[q] = buffer[q] \/ buffer'[q] = <<>>
  PROVE  OrderInv'
  <1>1. ASSUME NEW p \in Producers
        PROVE  Staged(p)'
    <2>1. /\ Staged(p) /\ logged[p] <= logged'[p] /\ handled' = handled /\ pipe' = pipe
          /\ Typed /\ logged[p] \in Int /\ logged'[p] \in Int
      BY DEF OrderInv, Typed
    <2>2. \A j \in 1..Len(buffer'[p]) : j \in 1..Len(buffer[p]) /\ buffer'[p][j] = buffer[p][j]
      <3>1. CASE buffer'[p] = <<>>
        BY <3>1, EmptySeq
      <3> QED
        BY <3>1
    <2>3. Of(p, record)' => Of(p, record) /\ record' = record
      BY DEF Of
    <2>4. \A r : Of(p, r)' <=> Of(p, r)
      BY DEF Of
    <2>5. Increasing(handled[p])'
      BY <2>1 DEF Staged, Increasing
    <2>6. HandledFirst(p)'
      BY <2>1, <2>2, <2>3, <2>4 DEF Staged, HandledFirst
    <2>7. RecordNext(p)'
      BY <2>1, <2>2, <2>3, <2>4 DEF Staged, RecordNext
    <2>8. PipeNext(p)'
      BY <2>1, <2>2, <2>4 DEF Staged, PipeNext
    <2>9. BufferLast(p)'
      BY <2>1, <2>2, <2>4 DEF Staged, BufferLast
    <2>10. AllLogged(p)'
      BY <2>1, <2>2, <2>3, <2>4, BoundGrows DEF Staged, AllLogged, OrderInv
    <2> QED
      BY <2>5, <2>6, <2>7, <2>8, <2>9, <2>10 DEF Staged
  <1> QED
    BY <1>1 DEF OrderInv

\* What is put in a buffer is a sentinel, or the next record of the process.
LEMMA PutKeeps ==
  ASSUME OrderInv, Typed', NEW q \in Producers \cup {Listener}, NEW e \in Entries,
         e.kind \in Kinds => /\ q \in Producers /\ e.from = q
                             /\ logged[q] < e.number /\ e.number = logged'[q],
         record' = record \/ record'.kind \notin Kinds,
         UNCHANGED <<handled, pipe>>, \A p \in Producers : logged[p] <= logged'[p],
         buffer' = [buffer EXCEPT ![q] = Append(@, e)]
  PROVE  OrderInv'
  <1> DEFINE s == buffer[q]
             longer == Append(s, e)
  <1>1. Typed /\ buffer[q] \in Seq(Entries)
    BY DEF OrderInv, Typed
  <1>2. /\ longer \in Seq(Entries) /\ Len(longer) = Len(s) + 1 /\ Len(s) \in Nat
        /\ longer[Len(s) + 1] = e /\ \A j \in 1..Len(s) : longer[j] = s[j]
    BY <1>1, AppendFacts
  <1>3. /\ buffer'[q] = longer
        /\ \A p \in Producers \cup {Listener} : p # q => buffer'[p] = buffer[p]
    BY <1>1 DEF Typed
  <1> HIDE DEF longer
  <1>4. OwnBuffers'
    BY <1>2, <1>3 DEF OrderInv, OwnBuffers
  <1>5. ASSUME NEW p \in Producers
        PROVE  Staged(p)'
    <2>1. /\ Staged(p) /\ AllLogged(p) /\ logged[p] <= logged'[p]
          /\ handled' = handled /\ pipe' = pipe
      BY DEF OrderInv, Staged
    <2>2. e.kind \in Kinds /\ e.from = p =>
            /\ \A i \in 1..Len(handled[p]) : handled[p][i] < e.number
            /\ Of(p, record) => record.number < e.number
            /\ \A j \in 1..Len(pipe) : Of(p, pipe[j]) => pipe[j].number < e.number
            /\ \A j \in 1..Len(buffer[p]) : Of(p, buffer[p][j]) => buffer[p][j].number < e.number
      <3> SUFFICES ASSUME e.kind \in Kinds, e.from = p
                   PROVE  \A n \in Int : n <= logged[p] => n < e.number
        BY <1>1, <2>1, NumbersAreNumbers DEF AllLogged
      <3> QED
        BY <1>1, KindsDiffer DEF Typed, Records
    <2>3. \A j \in 1..Len(buffer'[p]) : Of(p, buffer'[p][j]) =>
            \/ j \in 1..Len(buffer[p]) /\ buffer'[p][j] = buffer[p][j]
            \/ /\ p = q /\ buffer'[p][j] = e /\ e.kind \in Kinds /\ e.from = p
               /\ j = Len(buffer[p]) + 1
      BY <1>2, <1>3 DEF Of
    <2>4. Of(p, record)' => Of(p, record) /\ record' = record
      BY DEF Of
    <2>5. \A r : Of(p, r)' <=> Of(p, r)
      BY DEF Of
    <2>6. Len(buffer[p]) \in Nat
      BY <1>1, LenProperties DEF Typed
    <2>7. Increasing(handled[p])'
      BY <2>1 DEF Staged, Increasing
    <2>8. HandledFirst(p)'
      BY <2>1, <2>2, <2>3, <2>4, <2>5 DEF Staged, HandledFirst
    <2>9. RecordNext(p)'
      BY <2>1, <2>2, <2>3, <2>4, <2>5 DEF Staged, RecordNext
    <2>10. PipeNext(p)'
      BY <2>1, <2>2, <2>3, <2>5 DEF Staged, PipeNext
    <2>11. BufferLast(p)'
      <3> SUFFICES ASSUME NEW i \in 1..Len(buffer'[p]), NEW j \in 1..Len(buffer'[p]), i < j,
                          Of(p, buffer'[p][i]), Of(p, buffer'[p][j])
                   PROVE  buffer'[p][i].number < buffer'[p][j].number
        BY <2>5 DEF BufferLast
      <3>1. i \in 1..Len(buffer[p]) /\ buffer'[p][i] = buffer[p][i]
        BY <1>2, <1>3, <2>3, <2>6
      <3> QED
        BY <2>1, <2>2, <2>3, <3>1 DEF Staged, BufferLast
    <2>12. AllLogged(p)'
      <3>1. e.kind \in Kinds /\ e.from = p => e.number <= logged'[p]
        BY <2>1, KindsDiffer DEF Typed
      <3> QED
        BY <1>1, <2>1, <2>3, <2>4, <2>5, <3>1, BoundGrows DEF AllLogged
    <2> QED
      BY <2>7, <2>8, <2>9, <2>10, <2>11, <2>12 DEF Staged
  <1> QED
    BY <1>4, <1>5 DEF OrderInv

\* The copy of the first entry of a buffer follows what is in the pipe.
LEMMA FeedKeeps ==
  ASSUME OrderInv, NEW q \in Producers \cup {Listener}, Feed(q)
  PROVE  OrderInv'
  <1> DEFINE s == buffer[q]
             copied == [Head(s) EXCEPT !.copy = TRUE]
             longer == Append(pipe, copied)
             rest == Tail(s)
  <1>1. /\ Typed /\ s \in Seq(Entries) /\ s # <<>> /\ pipe' = longer
        /\ buffer' = [buffer EXCEPT ![q] = rest]
        /\ UNCHANGED <<listener, record, logged, handled>>
    BY DEF OrderInv, Typed, Feed, past
  <1>2. /\ rest \in Seq(Entries) /\ Len(rest) = Len(s) - 1 /\ Len(s) \in Nat \ {0}
        /\ Head(s) \in Entries /\ Head(s) = s[1] /\ 1 \in 1..Len(s)
        /\ \A j \in 1..Len(rest) : rest[j] = s[j + 1] /\ j + 1 \in 2..Len(s)
    BY <1>1, TailFacts
  <1>3. /\ copied \in Entries /\ copied.kind = s[1].kind
        /\ s[1].kind \in Kinds => copied.from = s[1].from /\ copied.number = s[1].number
    BY <1>2, CopyIsSame
  <1> HIDE DEF copied
  <1>4. /\ longer \in Seq(Entries) /\ Len(longer) = Len(pipe) + 1 /\ Len(pipe) \in Nat
        /\ longer[Len(pipe) + 1] = copied /\ \A j \in 1..Len(pipe) : longer[j] = pipe[j]
    BY <1>1, <1>3, AppendFacts DEF Typed
  <1>5. /\ buffer'[q] = rest
        /\ \A p \in Producers \cup {Listener} : p # q => buffer'[p] = buffer[p]
    BY <1>1 DEF Typed
  <1> HIDE DEF longer, rest
  <1>6. Typed'
    BY <1>1, <1>2, <1>4 DEF Typed
  <1>7. OwnBuffers'
    BY <1>2, <1>5 DEF OrderInv, OwnBuffers
  <1>8. s[1].kind \in Kinds => s[1].from = q
    BY <1>2 DEF OrderInv, OwnBuffers
  <1>9. ASSUME NEW p \in Producers
        PROVE  Staged(p)'
    <2>1. Staged(p) /\ logged' = logged /\ handled' = handled /\ record' = record
      BY <1>1 DEF OrderInv
    <2>2. \A j \in 1..Len(buffer'[p]) :
            \E k \in 1..Len(buffer[p]) :
              /\ buffer'[p][j] = buffer[p][k] /\ j <= k
              /\ p = q => k = j + 1
              /\ p # q => k = j
      <3>1. CASE p = q
        BY <1>2, <1>5, <3>1
      <3>2. CASE p # q
        BY <1>5, <3>2
      <3> QED
        BY <3>1, <3>2
    <2>3. \A j \in 1..Len(pipe') : Of(p, pipe'[j]) =>
            \/ j \in 1..Len(pipe) /\ pipe'[j] = pipe[j]
            \/ /\ p = q /\ j = Len(pipe) + 1 /\ Of(p, s[1]) /\ pipe'[j].number = s[1].number
      BY <1>1, <1>3, <1>4, <1>8 DEF Of
    <2>4. \A r : Of(p, r)' <=> Of(p, r)
      BY DEF Of
    <2>5. Increasing(handled[p])'
      BY <2>1 DEF Staged, Increasing
    <2>6. HandledFirst(p)'
      BY <1>2, <2>1, <2>2, <2>3, <2>4 DEF Staged, HandledFirst
    <2>7. RecordNext(p)'
      BY <1>2, <2>1, <2>2, <2>3, <2>4 DEF Staged, RecordNext
    <2>8. PipeNext(p)'
      <3> SUFFICES ASSUME NEW i \in 1..Len(pipe'), Of(p, pipe'[i])
                   PROVE  /\ \A j \in 1..Len(pipe') : i < j /\ Of(p, pipe'[j]) =>
                                                        pipe'[i].number < pipe'[j].number
                          /\ \A j \in 1..Len(buffer'[p]) : Of(p, buffer'[p][j]) =>
                                                        pipe'[i].number < buffer'[p][j].number
        BY <2>4 DEF PipeNext
      <3>1. CASE i \in 1..Len(pipe)
        <4>1. pipe'[i] = pipe[i]
          BY <1>1, <1>4, <3>1
        <4> QED
          BY <1>2, <2>1, <2>2, <2>3, <3>1, <4>1 DEF Staged, PipeNext
      <3>2. CASE i = Len(pipe) + 1
        <4>1. p = q /\ Of(p, s[1]) /\ pipe'[i].number = s[1].number
          BY <1>4, <2>3, <3>2
        <4>2. \A j \in 1..Len(pipe') : ~(i < j)
          BY <1>1, <1>4, <3>2
        <4>3. \A j \in 1..Len(buffer'[p]) : \E k \in 2..Len(s) : buffer'[p][j] = s[k]
          BY <1>2, <1>5, <4>1
        <4>4. \A k \in 2..Len(s) : Of(p, s[k]) => s[1].number < s[k].number
          BY <1>2, <2>1, <4>1 DEF Staged, BufferLast
        <4> QED
          BY <4>1, <4>2, <4>3, <4>4
      <3>3. i \in 1..Len(pipe) \/ i = Len(pipe) + 1
        BY <1>1, <1>4
      <3> QED
        BY <3>1, <3>2, <3>3
    <2>9. BufferLast(p)'
      <3>1. CASE p = q
        <4>1. \A j \in 1..Len(buffer'[p]) :
                j \in Nat /\ j + 1 \in 1..Len(buffer[p]) /\ buffer'[p][j] = buffer[p][j + 1]
          BY <1>2, <1>5, <3>1
        <4> SUFFICES ASSUME NEW i \in 1..Len(buffer'[p]), NEW j \in 1..Len(buffer'[p]), i < j,
                            Of(p, buffer'[p][i]), Of(p, buffer'[p][j])
                     PROVE  buffer'[p][i].number < buffer'[p][j].number
          BY <2>4 DEF BufferLast
        <4>2. i + 1 < j + 1
          BY <4>1
        <4> QED
          BY <2>1, <4>1, <4>2 DEF Staged, BufferLast
      <3>2. CASE p # q
        BY <1>5, <2>1, <2>4, <3>2 DEF Staged, BufferLast
      <3> QED
        BY <3>1, <3>2
    <2>10. AllLogged(p)'
      BY <1>2, <2>1, <2>2, <2>3, <2>4 DEF Staged, AllLogged
    <2> QED
      BY <2>5, <2>6, <2>7, <2>8, <2>9, <2>10 DEF Staged
  <1> QED
    BY <1>6, <1>7, <1>9 DEF OrderInv

\* The listener takes the oldest record of the pipe.
LEMMA DequeueKeeps ==
  ASSUME OrderInv, Dequeue
  PROVE  OrderInv'
  <1> DEFINE rest == Tail(pipe)
  <1>1. /\ Typed /\ pipe \in Seq(Entries) /\ pipe # <<>> /\ pipe' = rest
        /\ record' = record \/ record' = Head(pipe)
        /\ listener' = "handling" => record' = Head(pipe)
        /\ UNCHANGED <<buffer, logged, handled>>
    BY DEF OrderInv, Typed, Dequeue, past
  <1>2. /\ rest \in Seq(Entries) /\ Len(rest) = Len(pipe) - 1 /\ Len(pipe) \in Nat \ {0}
        /\ Head(pipe) \in Entries /\ Head(pipe) = pipe[1] /\ 1 \in 1..Len(pipe)
        /\ \A j \in 1..Len(rest) : rest[j] = pipe[j + 1] /\ j + 1 \in 2..Len(pipe)
    BY <1>1, TailFacts
  <1> HIDE DEF rest
  <1>3. Typed'
    BY <1>1, <1>2 DEF Typed
  <1>4. OwnBuffers'
    BY <1>1 DEF OrderInv, OwnBuffers
  <1>5. ASSUME NEW p \in Producers
        PROVE  Staged(p)'
    <2>1. Staged(p) /\ logged' = logged /\ handled' = handled /\ buffer' = buffer
      BY <1>1 DEF OrderInv
    <2>2. \A j \in 1..Len(pipe') : j + 1 \in 1..Len(pipe) /\ pipe'[j] = pipe[j + 1] /\ j \in Nat
      BY <1>1, <1>2
    <2>3. record' = record \/ record' = pipe[1]
      BY <1>1, <1>2
    <2>4. \A r : Of(p, r)' <=> Of(p, r)
      BY DEF Of
    <2>5. Increasing(handled[p])'
      BY <2>1 DEF Staged, Increasing
    <2>6. HandledFirst(p)'
      BY <1>2, <2>1, <2>2, <2>3, <2>4 DEF Staged, HandledFirst
    <2>7. RecordNext(p)'
      <3>1. CASE record' = record
        BY <2>1, <2>2, <2>4, <3>1 DEF Staged, RecordNext
      <3>2. CASE record' = pipe[1]
        <4>1. /\ \A k \in 1..Len(pipe) : Of(p, pipe[1]) /\ 1 < k /\ Of(p, pipe[k]) =>
                                              pipe[1].number < pipe[k].number
              /\ \A k \in 1..Len(buffer[p]) : Of(p, pipe[1]) /\ Of(p, buffer[p][k]) =>
                                              pipe[1].number < buffer[p][k].number
          BY <1>2, <2>1 DEF Staged, PipeNext
        <4>2. \A j \in 1..Len(pipe') : 1 < j + 1
          BY <2>2
        <4> QED
          BY <2>1, <2>2, <2>4, <3>2, <4>1, <4>2 DEF RecordNext
      <3> QED
        BY <2>3, <3>1, <3>2
    <2>8. PipeNext(p)'
      <3> SUFFICES ASSUME NEW i \in 1..Len(pipe'), Of(p, pipe'[i])
                   PROVE  /\ \A j \in 1..Len(pipe') : i < j /\ Of(p, pipe'[j]) =>
                                                        pipe'[i].number < pipe'[j].number
                          /\ \A j \in 1..Len(buffer'[p]) : Of(p, buffer'[p][j]) =>
                                                        pipe'[i].number < buffer'[p][j].number
        BY <2>4 DEF PipeNext
      <3>1. i + 1 \in 1..Len(pipe) /\ pipe'[i] = pipe[i + 1]
        BY <2>2
      <3>2. /\ \A k \in 1..Len(pipe) : i + 1 < k /\ Of(p, pipe[k]) => pipe'[i].number < pipe[k].number
            /\ \A j \in 1..Len(buffer[p]) : Of(p, buffer[p][j]) => pipe'[i].number < buffer[p][j].number
        BY <2>1, <3>1 DEF Staged, PipeNext
      <3>3. \A j \in 1..Len(pipe') : i < j => i + 1 < j + 1
        BY <2>2
      <3> QED
        BY <2>1, <2>2, <3>2, <3>3
    <2>9. BufferLast(p)'
      BY <2>1, <2>4 DEF Staged, BufferLast
    <2>10. AllLogged(p)'
      BY <1>2, <2>1, <2>2, <2>3, <2>4 DEF Staged, AllLogged
    <2> QED
      BY <2>5, <2>6, <2>7, <2>8, <2>9, <2>10 DEF Staged
  <1> QED
    BY <1>3, <1>4, <1>5 DEF OrderInv

\* A record that is handled comes after those of its process that were.
LEMMA HandleKeeps ==
  ASSUME OrderInv, Handle
  PROVE  OrderInv'
  <1>1. /\ Typed /\ record \in Entries /\ record' = NoRecord /\ listener' # "handling"
        /\ UNCHANGED <<buffer, pipe, logged>>
    BY DEF OrderInv, Typed, Handle, queue
  <1>2. CASE record.kind # "heard"
    <2>1. handled' = handled
      BY <1>2 DEF Handle
    <2>2. Typed' /\ OwnBuffers'
      BY <1>1, <2>1 DEF OrderInv, Typed, OwnBuffers
    <2>3. \A p \in Producers : logged[p] <= logged'[p]
      BY <1>1 DEF Typed
    <2> QED
      BY <1>1, <2>1, <2>2, <2>3, KindsDiffer, LessKeeps
  <1>3. CASE record.kind = "heard"
    <2> DEFINE q == record.from
               longer == Append(handled[q], record.number)
    <2>1. /\ Of(q, record) /\ q \in Producers /\ record.number \in Nat
          /\ handled[q] \in Seq(Nat) /\ handled' = [handled EXCEPT ![q] = longer]
      BY <1>1, <1>3, KindsDiffer DEF Handle, Of, Kinds, Typed
    <2>2. /\ longer \in Seq(Nat) /\ Len(longer) = Len(handled[q]) + 1 /\ Len(handled[q]) \in Nat
          /\ longer[Len(handled[q]) + 1] = record.number
          /\ \A j \in 1..Len(handled[q]) : longer[j] = handled[q][j]
      BY <2>1, AppendFacts
    <2>3. handled'[q] = longer /\ \A p \in Producers : p # q => handled'[p] = handled[p]
      BY <1>1, <2>1 DEF Typed
    <2> HIDE DEF longer, q
    <2>4. Typed' /\ OwnBuffers'
      BY <1>1, <2>1, <2>2 DEF OrderInv, Typed, OwnBuffers
    <2>5. ASSUME NEW p \in Producers
          PROVE  Staged(p)'
      <3>1. Staged(p) /\ logged' = logged /\ pipe' = pipe /\ buffer' = buffer
        BY <1>1 DEF OrderInv
      <3>2. \A i \in 1..Len(handled'[p]) :
              \/ i \in 1..Len(handled[p]) /\ handled'[p][i] = handled[p][i]
              \/ p = q /\ Of(p, record) /\ i = Len(handled[p]) + 1 /\ handled'[p][i] = record.number
        BY <2>1, <2>2, <2>3
      <3>3. (\A r : Of(p, r)' <=> Of(p, r)) /\ ~Of(p, record')
        BY <1>1, KindsDiffer DEF Of
      <3>4. Increasing(handled[p])'
        <4>1. CASE p = q
          <5> SUFFICES ASSUME NEW i \in 1..Len(handled'[p]), NEW j \in 1..Len(handled'[p]), i < j
                       PROVE  handled'[p][i] < handled'[p][j]
            BY DEF Increasing
          <5>1. i \in 1..Len(handled[p]) /\ handled'[p][i] = handled[p][i]
            BY <2>2, <2>3, <4>1
          <5>2. CASE j \in 1..Len(handled[p]) /\ handled'[p][j] = handled[p][j]
            BY <3>1, <5>1, <5>2 DEF Staged, Increasing
          <5>3. CASE Of(p, record) /\ handled'[p][j] = record.number
            BY <3>1, <5>1, <5>3 DEF Staged, HandledFirst
          <5> QED
            BY <3>2, <5>2, <5>3
        <4>2. CASE p # q
          BY <2>3, <3>1, <4>2 DEF Staged, Increasing
        <4> QED
          BY <4>1, <4>2
      <3>5. HandledFirst(p)' /\ RecordNext(p)'
        BY <3>1, <3>2, <3>3 DEF Staged, HandledFirst, RecordNext
      <3>6. PipeNext(p)' /\ BufferLast(p)'
        BY <3>1, <3>3 DEF Staged, PipeNext, BufferLast
      <3>7. AllLogged(p)'
        BY <3>1, <3>2, <3>3 DEF Staged, AllLogged
      <3> QED
        BY <3>4, <3>5, <3>6, <3>7 DEF Staged
    <2> QED
      BY <2>4, <2>5 DEF OrderInv
  <1> QED
    BY <1>2, <1>3

\* A process logs a record, and the queue takes it or not.
LEMMA EmitKeeps ==
  ASSUME OrderInv, NEW q \in Producers, NEW kind \in Kinds, Emit(q, kind)
  PROVE  OrderInv'
  <1> DEFINE r == [kind |-> kind, from |-> q, number |-> logged'[q], copy |-> FALSE]
  <1>1. /\ Typed /\ OwnBuffers /\ logged' = [logged EXCEPT ![q] = @ + 1] /\ logged[q] \in Nat
        /\ UNCHANGED <<listener, record, pipe, handled>>
        /\ buffer' = [buffer EXCEPT ![q] = Append(@, r)] \/ UNCHANGED buffer
    BY DEF OrderInv, Typed, Emit, Put
  <1>2. logged' \in [Producers -> Nat] /\ logged'[q] = logged[q] + 1
    BY <1>1 DEF Typed
  <1>3. \A p \in Producers : logged[p] <= logged'[p]
    BY <1>1, <1>2 DEF Typed
  <1>4. r \in Entries /\ r.from = q /\ r.number = logged'[q] /\ logged[q] < r.number
    BY <1>1, <1>2 DEF Entries, Records
  <1>5. CASE UNCHANGED buffer
    <2>1. Typed' /\ OwnBuffers'
      BY <1>1, <1>2, <1>5 DEF Typed, OwnBuffers
    <2> QED
      BY <1>1, <1>3, <1>5, <2>1, LessKeeps
  <1>6. CASE buffer' = [buffer EXCEPT ![q] = Append(@, r)]
    <2> HIDE DEF r
    <2>1. buffer[q] \in Seq(Entries) /\ Append(buffer[q], r) \in Seq(Entries)
      BY <1>1, <1>4, AppendFacts DEF Typed
    <2>2. Typed'
      BY <1>1, <1>2, <1>6, <2>1 DEF Typed
    <2> QED
      BY <1>1, <1>3, <1>4, <1>6, <2>2, PutKeeps
  <1> QED
    BY <1>1, <1>5, <1>6

\* The sentinel is put, by the main process or by the listener.
LEMMA SentinelKeeps ==
  ASSUME OrderInv, NEW q \in Producers \cup {Listener}, Put(q, LogSentinel),
         record' = record \/ record' = NoRecord, UNCHANGED <<pipe, logged, handled>>,
         listener' = "handling" => listener = "handling" /\ record' = record
  PROVE  OrderInv'
  <1>1. /\ Typed /\ buffer' = [buffer EXCEPT ![q] = Append(@, LogSentinel)]
        /\ LogSentinel \in Entries /\ LogSentinel.kind \notin Kinds /\ NoRecord.kind \notin Kinds
    BY KindsDiffer DEF OrderInv, Put
  <1>2. buffer[q] \in Seq(Entries) /\ Append(buffer[q], LogSentinel) \in Seq(Entries)
    BY <1>1, AppendFacts DEF Typed
  <1>3. Typed'
    BY <1>1, <1>2 DEF Typed
  <1>4. \A p \in Producers : logged[p] <= logged'[p]
    BY <1>1 DEF Typed
  <1> QED
    BY <1>1, <1>3, <1>4, PutKeeps

LEMMA EndWorkerKeeps ==
  ASSUME OrderInv, NEW q \in Workers, EndWorker(q)
  PROVE  OrderInv'
  <1>1. /\ Typed /\ OwnBuffers /\ q \in Producers /\ buffer' = [buffer EXCEPT ![q] = <<>>]
        /\ UNCHANGED <<listener, record, pipe, logged, handled>>
    BY DEF OrderInv, EndWorker, Killed, Producers
  <1>2. /\ buffer'[q] = <<>> /\ Len(buffer'[q]) = 0 /\ <<>> \in Seq(Entries)
        /\ \A p \in Producers \cup {Listener} : p # q => buffer'[p] = buffer[p]
    BY <1>1, EmptySeq DEF Typed
  <1>3. Typed'
    BY <1>1, <1>2 DEF Typed
  <1>4. OwnBuffers'
    BY <1>1, <1>2 DEF OwnBuffers
  <1>5. \A p \in Producers : logged[p] <= logged'[p]
    BY <1>1 DEF Typed
  <1> QED
    BY <1>1, <1>2, <1>3, <1>4, <1>5, LessKeeps

\* What leaves records, buffers, pipe and handled alone keeps the order; so does a
\* record whose handling raises or is interrupted.
LEMMA QuietKeeps ==
  ASSUME OrderInv, UNCHANGED <<buffer, pipe, logged, handled>>,
         record' = record \/ record' = NoRecord,
         listener' = "handling" => listener = "handling" /\ record' = record
  PROVE  OrderInv'
  <1>1. Typed' /\ OwnBuffers'
    BY DEF OrderInv, Typed, OwnBuffers
  <1>2. \A p \in Producers : logged[p] <= logged'[p]
    BY DEF OrderInv, Typed
  <1> QED
    BY <1>1, <1>2, KindsDiffer, LessKeeps

\* What the listener loses when it is killed is no record.
LEMMA KillListenerKeeps ==
  ASSUME OrderInv, KillListener
  PROVE  OrderInv'
  <1>1. /\ Typed /\ buffer' = [buffer EXCEPT ![Listener] = <<>>] /\ listener' = "dead"
        /\ UNCHANGED <<record, pipe, logged, handled>>
    BY DEF OrderInv, KillListener, Killed, past
  <1>2. /\ \A p \in Producers : buffer'[p] = buffer[p]
        /\ \A q \in Producers \cup {Listener} : buffer'[q] = buffer[q] \/ buffer'[q] = <<>>
    BY <1>1, KindsDiffer DEF Typed
  <1>3. Typed'
    BY <1>1, EmptySeq DEF Typed
  <1>4. OwnBuffers'
    BY <1>2, EmptySeq DEF OrderInv, OwnBuffers
  <1>5. \A p \in Producers : logged[p] <= logged'[p]
    BY <1>1 DEF Typed
  <1> QED
    BY <1>1, <1>2, <1>3, <1>4, <1>5, LessKeeps

LEMMA OrderStep ==
  ASSUME OrderInv, [Next]_vars
  PROVE  OrderInv'
  <1>1. CASE AppInit
    BY <1>1, QuietKeeps DEF AppInit, queue, past
  <1>2. CASE Start
    BY <1>2, QuietKeeps DEF Start, queue, past
  <1>3. CASE Stop
    <2>1. UNCHANGED <<listener, record, pipe, logged, handled>>
      BY <1>3 DEF Stop, past
    <2>2. CASE Put(Main, LogSentinel)
      BY <2>1, <2>2, SentinelKeeps DEF Producers
    <2>3. CASE UNCHANGED buffer
      BY <2>1, <2>3, QuietKeeps
    <2> QED
      BY <1>3, <2>2, <2>3 DEF Stop
  <1>4. CASE Join
    BY <1>4, QuietKeeps DEF Join, queue, past
  <1>5. CASE \E p \in Producers, kind \in Kinds : Emit(p, kind)
    BY <1>5, EmitKeeps
  <1>6. CASE \E p \in Producers \cup {Listener} : Feed(p)
    BY <1>6, FeedKeeps
  <1>7. CASE \E p \in Workers : EndWorker(p)
    BY <1>7, EndWorkerKeeps
  <1>8. CASE Dequeue
    BY <1>8, DequeueKeeps
  <1>9. CASE Handle
    BY <1>9, HandleKeeps
  <1>10. CASE HandleRaises
    BY <1>10, QuietKeeps DEF HandleRaises, queue
  <1>11. CASE Interrupt
    <2>1. record' = NoRecord /\ UNCHANGED <<pipe, logged, handled>> /\ listener' # "handling"
      BY <1>11 DEF Interrupt
    <2>2. CASE Put(Listener, LogSentinel)
      BY <2>1, <2>2, SentinelKeeps
    <2>3. CASE UNCHANGED buffer
      BY <2>1, <2>3, QuietKeeps
    <2> QED
      BY <1>11, <2>2, <2>3 DEF Interrupt
  <1>12. CASE KillListener
    BY <1>12, KillListenerKeeps
  <1>13. CASE UNCHANGED vars
    BY <1>13, QuietKeeps DEF vars
  <1> QED
    BY <1>1, <1>2, <1>3, <1>4, <1>5, <1>6, <1>7, <1>8, <1>9, <1>10, <1>11, <1>12, <1>13
    DEF Next, ListenerStep

LEMMA OrderInit ==
  ASSUME Init
  PROVE  OrderInv
  <1>1. Typed
    BY EmptySeq DEF Init, Typed
  <1>2. /\ \A q \in Producers \cup {Listener} : Len(buffer[q]) = 0
        /\ Len(pipe) = 0 /\ record = NoRecord /\ \A p \in Producers : Len(handled[p]) = 0
    BY EmptySeq DEF Init
  <1>3. OwnBuffers
    BY <1>2 DEF OwnBuffers
  <1>4. ASSUME NEW p \in Producers
        PROVE  Staged(p)
    <2>1. Len(handled[p]) = 0 /\ Len(buffer[p]) = 0 /\ ~Of(p, record)
      BY <1>2, KindsDiffer DEF Of
    <2> QED
      BY <1>2, <2>1
      DEF Staged, Increasing, HandledFirst, RecordNext, PipeNext, BufferLast, AllLogged
  <1> QED
    BY <1>1, <1>3, <1>4 DEF OrderInv

\* The records of a process reach the handlers in the order it logged them and none
\* twice, whatever is put back, killed, interrupted or raised.
THEOREM RecordsInOrder == Spec => []InOrder
  <1>1. OrderInv => InOrder
    <2> SUFFICES ASSUME OrderInv, NEW p \in Producers
                 PROVE  \A i, j \in DOMAIN handled[p] : i < j => handled[p][i] < handled[p][j]
      BY DEF InOrder
    <2>1. handled[p] \in Seq(Nat) /\ Increasing(handled[p])
      BY DEF OrderInv, Typed, Staged
    <2>2. DOMAIN handled[p] = 1..Len(handled[p])
      BY <2>1, LenProperties
    <2> QED
      BY <2>1, <2>2 DEF Increasing
  <1> QED
    BY <1>1, OrderInit, OrderStep, PTL DEF Spec

-----------------------------------------------------------------------------
(* Nothing is lost unnoticed                                                *)

Is(r, p, n) == r.kind = "heard" /\ r.from = p /\ r.number = n

Handled(p, n) == \E i \in 1..Len(handled[p]) : handled[p][i] = n
InPipe(p, n) == \E i \in 1..Len(pipe) : Is(pipe[i], p, n)
InBuffer(p, n) == \E i \in 1..Len(buffer[p]) : Is(buffer[p][i], p, n)

\* A record the queue took has been handled, or its handling raised or it died with its
\* process, or it is on its way: in the listener's hands, in the pipe or in the buffer.
Accounted ==
  \A p \in Producers, n \in Nat : <<p, n>> \in accepted =>
    Handled(p, n) \/ <<p, n>> \in lost \/ Is(record, p, n) \/ InPipe(p, n) \/ InBuffer(p, n)

\* A listener that has not started, or waits, has nothing in its hands.
AccountedInv == OrderInv /\ (listener \in {"unborn", "waiting"} => record = NoRecord) /\ Accounted

\* A step that loses nothing of what was on its way, but for what it counts as lost.
LEMMA AccountsKeep ==
  ASSUME AccountedInv, UNCHANGED accepted, lost \subseteq lost',
         \A p \in Producers, n \in Nat : Handled(p, n) => Handled(p, n)',
         \A p \in Producers, n \in Nat :
           Is(record, p, n) => Handled(p, n)' \/ <<p, n>> \in lost' \/ Is(record', p, n),
         \A p \in Producers, n \in Nat :
           InPipe(p, n) => Is(record', p, n) \/ InPipe(p, n)',
         \A p \in Producers, n \in Nat :
           InBuffer(p, n) => <<p, n>> \in lost' \/ InPipe(p, n)' \/ InBuffer(p, n)'
  PROVE  Accounted'
  BY DEF AccountedInv, Accounted, Is

\* Putting an entry takes none out of a buffer.
LEMMA PutAddsOnly ==
  ASSUME Typed, NEW q \in Producers \cup {Listener}, NEW e \in Entries,
         buffer' = [buffer EXCEPT ![q] = Append(@, e)]
  PROVE  /\ \A p \in Producers, n \in Nat : InBuffer(p, n) => InBuffer(p, n)'
         /\ \A n \in Nat : q \in Producers /\ Is(e, q, n) => InBuffer(q, n)'
  <1> DEFINE s == buffer[q]
             longer == Append(s, e)
  <1>1. s \in Seq(Entries)
    BY DEF Typed
  <1>2. /\ Len(longer) = Len(s) + 1 /\ Len(s) \in Nat
        /\ longer[Len(s) + 1] = e /\ \A j \in 1..Len(s) : longer[j] = s[j]
    BY <1>1, AppendFacts
  <1>3. /\ buffer'[q] = longer
        /\ \A p \in Producers : p # q => buffer'[p] = buffer[p]
    BY DEF Typed
  <1> HIDE DEF longer
  <1>4. ASSUME NEW p \in Producers, NEW n \in Nat, InBuffer(p, n)
        PROVE  InBuffer(p, n)'
    <2>1. PICK i \in 1..Len(buffer[p]) : Is(buffer[p][i], p, n)
      BY <1>4 DEF InBuffer
    <2>2. i \in 1..Len(buffer'[p]) /\ buffer'[p][i] = buffer[p][i]
      BY <1>2, <1>3
    <2> QED
      BY <2>1, <2>2 DEF InBuffer, Is
  <1>5. ASSUME NEW n \in Nat, q \in Producers, Is(e, q, n)
        PROVE  InBuffer(q, n)'
    <2>1. Len(s) + 1 \in 1..Len(buffer'[q]) /\ buffer'[q][Len(s) + 1] = e
      BY <1>2, <1>3
    <2> QED
      BY <1>5, <2>1 DEF InBuffer, Is
  <1> QED
    BY <1>4, <1>5

LEMMA EmitAccounts ==
  ASSUME AccountedInv, NEW q \in Producers, NEW kind \in Kinds, Emit(q, kind)
  PROVE  Accounted'
  <1> DEFINE r == [kind |-> kind, from |-> q, number |-> logged'[q], copy |-> FALSE]
  <1>1. /\ Typed /\ logged' = [logged EXCEPT ![q] = @ + 1] /\ logged[q] \in Nat
        /\ UNCHANGED <<record, pipe, handled, lost>>
        /\ \/ /\ buffer' = [buffer EXCEPT ![q] = Append(@, r)]
              /\ accepted' = IF kind = "heard" THEN accepted \cup {<<q, r.number>>} ELSE accepted
           \/ UNCHANGED <<buffer, accepted>>
    BY DEF AccountedInv, OrderInv, Typed, Emit, Put
  <1>2. \A p \in Producers, n \in Nat : /\ Handled(p, n)' <=> Handled(p, n)
                                        /\ InPipe(p, n)' <=> InPipe(p, n)
                                        /\ Is(record', p, n) <=> Is(record, p, n)
    BY <1>1 DEF Handled, InPipe, Is
  <1>3. CASE UNCHANGED <<buffer, accepted>>
    BY <1>1, <1>2, <1>3 DEF AccountedInv, Accounted, InBuffer, Is
  <1>4. CASE /\ buffer' = [buffer EXCEPT ![q] = Append(@, r)]
             /\ accepted' = IF kind = "heard" THEN accepted \cup {<<q, r.number>>} ELSE accepted
    <2>1. r \in Entries /\ r.kind = kind /\ r.from = q /\ r.number = logged'[q]
      BY <1>1 DEF Entries, Records, Typed
    <2>2. kind = "heard" => \A n \in Nat : n = logged'[q] => Is(r, q, n)
      BY <2>1 DEF Is
    <2> HIDE DEF r
    <2>3. /\ \A p \in Producers, n \in Nat : InBuffer(p, n) => InBuffer(p, n)'
          /\ kind = "heard" => \A n \in Nat : n = logged'[q] => InBuffer(q, n)'
      BY <1>1, <1>4, <2>1, <2>2, PutAddsOnly
    <2>4. \A p \in Producers, n \in Nat : <<p, n>> \in accepted' =>
            <<p, n>> \in accepted \/ (kind = "heard" /\ p = q /\ n = logged'[q])
      BY <1>4, <2>1
    <2> SUFFICES ASSUME NEW p \in Producers, NEW n \in Nat, <<p, n>> \in accepted'
                 PROVE  \/ Handled(p, n)' \/ <<p, n>> \in lost' \/ Is(record', p, n)
                        \/ InPipe(p, n)' \/ InBuffer(p, n)'
      BY DEF Accounted, Is
    <2>5. CASE <<p, n>> \in accepted
      <3>1. \/ Handled(p, n) \/ <<p, n>> \in lost \/ Is(record, p, n)
            \/ InPipe(p, n) \/ InBuffer(p, n)
        BY <2>5 DEF AccountedInv, Accounted
      <3> QED
        BY <1>1, <1>2, <2>3, <3>1
    <2>6. CASE kind = "heard" /\ p = q /\ n = logged'[q]
      BY <2>3, <2>6
    <2> QED
      BY <2>4, <2>5, <2>6
  <1> QED
    BY <1>1, <1>3, <1>4

LEMMA FeedAccounts ==
  ASSUME AccountedInv, NEW q \in Producers \cup {Listener}, Feed(q)
  PROVE  Accounted'
  <1> DEFINE s == buffer[q]
             copied == [Head(s) EXCEPT !.copy = TRUE]
             longer == Append(pipe, copied)
             rest == Tail(s)
  <1>1. /\ Typed /\ s \in Seq(Entries) /\ s # <<>> /\ pipe' = longer
        /\ buffer' = [buffer EXCEPT ![q] = rest]
        /\ UNCHANGED <<record, accepted, lost, handled>>
    BY DEF AccountedInv, OrderInv, Typed, Feed, past
  <1>2. /\ rest \in Seq(Entries) /\ Len(rest) = Len(s) - 1 /\ Len(s) \in Nat \ {0}
        /\ Head(s) \in Entries /\ Head(s) = s[1]
        /\ \A j \in 1..Len(rest) : rest[j] = s[j + 1]
    BY <1>1, TailFacts
  <1>3. /\ copied \in Entries /\ copied.kind = s[1].kind
        /\ s[1].kind \in Kinds => copied.from = s[1].from /\ copied.number = s[1].number
    BY <1>2, CopyIsSame
  <1> HIDE DEF copied
  <1>4. /\ Len(longer) = Len(pipe) + 1 /\ Len(pipe) \in Nat
        /\ longer[Len(pipe) + 1] = copied /\ \A j \in 1..Len(pipe) : longer[j] = pipe[j]
    BY <1>1, <1>3, AppendFacts DEF Typed
  <1>5. /\ buffer'[q] = rest
        /\ \A p \in Producers : p # q => buffer'[p] = buffer[p]
    BY <1>1 DEF Typed
  <1> HIDE DEF longer, rest
  <1>6. ASSUME NEW p \in Producers, NEW n \in Nat, InPipe(p, n)
        PROVE  InPipe(p, n)'
    <2>1. PICK i \in 1..Len(pipe) : Is(pipe[i], p, n)
      BY <1>6 DEF InPipe
    <2>2. i \in 1..Len(pipe') /\ pipe'[i] = pipe[i]
      BY <1>1, <1>4
    <2> QED
      BY <2>1, <2>2 DEF InPipe, Is
  <1>7. ASSUME NEW p \in Producers, NEW n \in Nat, InBuffer(p, n)
        PROVE  InPipe(p, n)' \/ InBuffer(p, n)'
    <2>1. PICK i \in 1..Len(buffer[p]) : Is(buffer[p][i], p, n)
      BY <1>7 DEF InBuffer
    <2>2. CASE p # q
      BY <1>5, <2>1, <2>2 DEF InBuffer, Is
    <2>3. CASE p = q /\ i = 1
      <3>1. Len(pipe) + 1 \in 1..Len(pipe') /\ pipe'[Len(pipe) + 1] = copied
        BY <1>1, <1>4
      <3>2. Is(copied, p, n)
        BY <1>3, <2>1, <2>3 DEF Is, Kinds
      <3> QED
        BY <3>1, <3>2 DEF InPipe, Is
    <2>4. CASE p = q /\ i # 1
      <3>1. i - 1 \in 1..Len(buffer'[p]) /\ buffer'[p][i - 1] = buffer[p][i]
        BY <1>2, <1>5, <2>4
      <3> QED
        BY <2>1, <3>1 DEF InBuffer, Is
    <2> QED
      BY <2>2, <2>3, <2>4
  <1>8. \A p \in Producers, n \in Nat : Handled(p, n)' <=> Handled(p, n)
    BY <1>1 DEF Handled
  <1> QED
    BY <1>1, <1>6, <1>7, <1>8, AccountsKeep

LEMMA DequeueAccounts ==
  ASSUME AccountedInv, Dequeue
  PROVE  Accounted'
  <1> DEFINE rest == Tail(pipe)
  <1>1. /\ Typed /\ pipe \in Seq(Entries) /\ pipe # <<>> /\ pipe' = rest
        /\ record = NoRecord
        /\ record' = Head(pipe) \/ Head(pipe) = LogSentinel
        /\ UNCHANGED <<buffer, accepted, lost, handled>>
    BY DEF AccountedInv, OrderInv, Typed, Dequeue, past
  <1>2. /\ Len(rest) = Len(pipe) - 1 /\ Len(pipe) \in Nat \ {0} /\ Head(pipe) = pipe[1]
        /\ \A j \in 1..Len(rest) : rest[j] = pipe[j + 1]
    BY <1>1, TailFacts
  <1> HIDE DEF rest
  <1>3. ASSUME NEW p \in Producers, NEW n \in Nat, InPipe(p, n)
        PROVE  Is(record', p, n) \/ InPipe(p, n)'
    <2>1. PICK i \in 1..Len(pipe) : Is(pipe[i], p, n)
      BY <1>3 DEF InPipe
    <2>2. CASE i = 1
      BY <1>1, <1>2, <2>1, <2>2, KindsDiffer DEF Is, Kinds
    <2>3. CASE i # 1
      <3>1. i - 1 \in 1..Len(pipe') /\ pipe'[i - 1] = pipe[i]
        BY <1>1, <1>2, <2>3
      <3> QED
        BY <2>1, <3>1 DEF InPipe, Is
    <2> QED
      BY <2>2, <2>3
  <1>4. \A p \in Producers, n \in Nat : /\ Handled(p, n)' <=> Handled(p, n)
                                        /\ InBuffer(p, n)' <=> InBuffer(p, n)
                                        /\ ~Is(record, p, n)
    BY <1>1 DEF Handled, InBuffer, Is, NoRecord
  <1> QED
    BY <1>1, <1>3, <1>4, AccountsKeep

LEMMA HandleAccounts ==
  ASSUME AccountedInv, Handle
  PROVE  Accounted'
  <1>1. /\ Typed /\ record \in Entries /\ UNCHANGED <<buffer, pipe, accepted, lost>>
    BY DEF AccountedInv, OrderInv, Typed, Handle, queue
  <1>2. \A p \in Producers, n \in Nat : /\ InPipe(p, n)' <=> InPipe(p, n)
                                        /\ InBuffer(p, n)' <=> InBuffer(p, n)
    BY <1>1 DEF InPipe, InBuffer, Is
  <1>3. CASE record.kind # "heard"
    BY <1>1, <1>2, <1>3, AccountsKeep DEF Handle, Handled, Is
  <1>4. CASE record.kind = "heard"
    <2> DEFINE q == record.from
               longer == Append(handled[q], record.number)
    <2>1. /\ q \in Producers /\ record.number \in Nat
          /\ handled[q] \in Seq(Nat) /\ handled' = [handled EXCEPT ![q] = longer]
      BY <1>1, <1>4, KindsDiffer DEF Handle, Kinds, Typed
    <2>2. /\ Len(longer) = Len(handled[q]) + 1 /\ Len(handled[q]) \in Nat
          /\ longer[Len(handled[q]) + 1] = record.number
          /\ \A j \in 1..Len(handled[q]) : longer[j] = handled[q][j]
      BY <2>1, AppendFacts
    <2>3. handled'[q] = longer /\ \A p \in Producers : p # q => handled'[p] = handled[p]
      BY <1>1, <2>1 DEF Typed
    <2> HIDE DEF longer
    <2>4. ASSUME NEW p \in Producers, NEW n \in Nat, Handled(p, n)
          PROVE  Handled(p, n)'
      <3>1. PICK i \in 1..Len(handled[p]) : handled[p][i] = n
        BY <2>4 DEF Handled
      <3>2. i \in 1..Len(handled'[p]) /\ handled'[p][i] = handled[p][i]
        BY <2>2, <2>3
      <3> QED
        BY <3>1, <3>2 DEF Handled
    <2>5. ASSUME NEW p \in Producers, NEW n \in Nat, Is(record, p, n)
          PROVE  Handled(p, n)'
      <3>1. p = q /\ n = record.number
        BY <2>5 DEF Is
      <3>2. Len(handled[q]) + 1 \in 1..Len(handled'[q])
        BY <2>2, <2>3
      <3> QED
        BY <2>2, <2>3, <3>1, <3>2 DEF Handled
    <2> QED
      BY <1>1, <1>2, <2>4, <2>5, AccountsKeep
  <1> QED
    BY <1>3, <1>4

\* What is put back by stop() or by an interrupt is the sentinel, which is no record.
LEMMA SentinelAccounts ==
  ASSUME AccountedInv, NEW q \in Producers \cup {Listener},
         Put(q, LogSentinel) \/ UNCHANGED buffer, lost \subseteq lost',
         \A p \in Producers, n \in Nat :
           Is(record, p, n) => <<p, n>> \in lost' \/ Is(record', p, n),
         UNCHANGED <<pipe, handled, accepted>>
  PROVE  Accounted'
  <1>1. \A p \in Producers, n \in Nat : InBuffer(p, n) => InBuffer(p, n)'
    <2>1. CASE Put(q, LogSentinel)
      BY <2>1, KindsDiffer, PutAddsOnly DEF AccountedInv, OrderInv, Put
    <2>2. CASE UNCHANGED buffer
      BY <2>2 DEF InBuffer, Is
    <2> QED
      BY <2>1, <2>2
  <1>2. \A p \in Producers, n \in Nat : /\ Handled(p, n)' <=> Handled(p, n)
                                        /\ InPipe(p, n)' <=> InPipe(p, n)
    BY DEF Handled, InPipe, Is
  <1> QED
    BY <1>1, <1>2, AccountsKeep

LEMMA EndWorkerAccounts ==
  ASSUME AccountedInv, NEW q \in Workers, EndWorker(q)
  PROVE  Accounted'
  <1>1. /\ Typed /\ buffer' = [buffer EXCEPT ![q] = <<>>]
        /\ lost' = lost \cup {<<q, buffer[q][i].number>> : i \in DOMAIN buffer[q]}
        /\ UNCHANGED <<record, pipe, accepted, handled>>
    BY DEF AccountedInv, OrderInv, EndWorker, Killed
  <1>2. buffer[q] \in Seq(Entries) /\ DOMAIN buffer[q] = 1..Len(buffer[q])
    BY LenProperties DEF AccountedInv, OrderInv, Typed, Producers
  <1>3. \A p \in Producers : p # q => buffer'[p] = buffer[p]
    BY <1>1 DEF Typed
  <1>4. ASSUME NEW p \in Producers, NEW n \in Nat, InBuffer(p, n)
        PROVE  <<p, n>> \in lost' \/ InBuffer(p, n)'
    <2>1. PICK i \in 1..Len(buffer[p]) : Is(buffer[p][i], p, n)
      BY <1>4 DEF InBuffer
    <2>2. CASE p = q
      BY <1>1, <1>2, <2>1, <2>2 DEF Is
    <2>3. CASE p # q
      BY <1>3, <2>1, <2>3 DEF InBuffer, Is
    <2> QED
      BY <2>2, <2>3
  <1>5. \A p \in Producers, n \in Nat : /\ Handled(p, n)' <=> Handled(p, n)
                                        /\ InPipe(p, n)' <=> InPipe(p, n)
                                        /\ Is(record', p, n) <=> Is(record, p, n)
    BY <1>1 DEF Handled, InPipe, Is
  <1> QED
    BY <1>1, <1>4, <1>5, AccountsKeep

LEMMA KillListenerAccounts ==
  ASSUME AccountedInv, KillListener
  PROVE  Accounted'
  <1>1. /\ Typed /\ buffer' = [buffer EXCEPT ![Listener] = <<>>]
        /\ UNCHANGED <<record, pipe, accepted, handled, lost>>
    BY DEF AccountedInv, OrderInv, KillListener, Killed, past
  <1>2. \A p \in Producers : buffer'[p] = buffer[p]
    BY <1>1, KindsDiffer DEF Typed
  <1>3. \A p \in Producers, n \in Nat : /\ Handled(p, n)' <=> Handled(p, n)
                                        /\ InPipe(p, n)' <=> InPipe(p, n)
                                        /\ InBuffer(p, n)' <=> InBuffer(p, n)
                                        /\ Is(record', p, n) <=> Is(record, p, n)
    BY <1>1, <1>2 DEF Handled, InPipe, InBuffer, Is
  <1> QED
    BY <1>1, <1>3, AccountsKeep

LEMMA AccountedStep ==
  ASSUME AccountedInv, [Next]_vars
  PROVE  AccountedInv'
  <1>1. OrderInv'
    BY OrderStep DEF AccountedInv
  <1>2. (listener \in {"unborn", "waiting"} => record = NoRecord)'
    <2>1. CASE Dequeue \/ Handle \/ HandleRaises \/ Interrupt
      BY <2>1 DEF Dequeue, Handle, HandleRaises, Interrupt, AccountedInv
    <2>2. CASE AppInit \/ Start \/ Stop \/ Join \/ KillListener \/ UNCHANGED vars
      BY <2>2 DEF AppInit, Start, Stop, Join, KillListener, vars, AccountedInv
    <2>3. CASE \E p \in Producers, kind \in Kinds : Emit(p, kind)
      BY <2>3 DEF Emit, AccountedInv
    <2>4. CASE \E p \in Producers \cup {Listener} : Feed(p)
      BY <2>4 DEF Feed, AccountedInv
    <2>5. CASE \E p \in Workers : EndWorker(p)
      BY <2>5 DEF EndWorker, AccountedInv
    <2> QED
      BY <2>1, <2>2, <2>3, <2>4, <2>5 DEF Next, ListenerStep
  <1>3. Accounted'
    <2> USE DEF Producers
    <2>1. CASE AppInit \/ Start \/ Join \/ UNCHANGED vars
      BY <2>1, SentinelAccounts DEF AppInit, Start, Join, queue, past, vars, Is
    <2>10. CASE KillListener
      BY <2>10, KillListenerAccounts
    <2>2. CASE Stop
      BY <2>2, SentinelAccounts DEF Stop, past, Is
    <2>3. CASE \E p \in Producers, kind \in Kinds : Emit(p, kind)
      BY <2>3, EmitAccounts
    <2>4. CASE \E p \in Producers \cup {Listener} : Feed(p)
      BY <2>4, FeedAccounts
    <2>5. CASE \E p \in Workers : EndWorker(p)
      BY <2>5, EndWorkerAccounts
    <2>6. CASE Dequeue
      BY <2>6, DequeueAccounts
    <2>7. CASE Handle
      BY <2>7, HandleAccounts
    <2>8. CASE HandleRaises
      BY <2>8, SentinelAccounts DEF HandleRaises, Unhandled, queue, Is
    <2>9. CASE Interrupt
      BY <2>9, SentinelAccounts DEF Interrupt, Unhandled, Is
    <2> QED
      BY <2>1, <2>2, <2>3, <2>4, <2>5, <2>6, <2>7, <2>8, <2>9, <2>10 DEF Next, ListenerStep
  <1> QED
    BY <1>1, <1>2, <1>3 DEF AccountedInv

\* No record that the queue took is lost unnoticed: it is handled, counted as lost, or
\* somewhere on its way.
THEOREM RecordsAccounted == Spec => []Accounted
  <1>1. Init => AccountedInv
    BY OrderInit DEF Init, AccountedInv, Accounted
  <1>2. AccountedInv => Accounted
    BY DEF AccountedInv
  <1> QED
    BY <1>1, <1>2, AccountedStep, PTL DEF Spec

-----------------------------------------------------------------------------
(* The sentinel                                                             *)

\* What is in the pipe are copies, and so the sentinel in it is not the one that the
\* listener compares with.
CopiesOnly ==
  /\ \A i \in 1..Len(pipe) : pipe[i].copy = TRUE
  /\ listener \in {"unborn", "waiting", "handling", "dead"}
  /\ stopping = "joining" => listener # "unborn"

SentinelInv == AccountedInv /\ CopiesOnly

LEMMA HeadIsNoSentinel ==
  ASSUME Typed, CopiesOnly, pipe # <<>>
  PROVE  Head(pipe) # LogSentinel
  <1>1. pipe[1].copy = TRUE /\ Head(pipe) = pipe[1]
    BY TailFacts DEF Typed, CopiesOnly
  <1> QED
    BY <1>1 DEF LogSentinel

LEMMA FeedCopies ==
  ASSUME Typed, CopiesOnly, NEW q \in Producers \cup {Listener}, Feed(q)
  PROVE  CopiesOnly'
  <1> DEFINE copied == [Head(buffer[q]) EXCEPT !.copy = TRUE]
             longer == Append(pipe, copied)
  <1>1. buffer[q] \in Seq(Entries) /\ buffer[q] # <<>> /\ pipe \in Seq(Entries)
    BY DEF Typed, Feed
  <1>2. Head(buffer[q]) \in Entries
    BY <1>1, TailFacts
  <1>3. copied \in Entries
    BY <1>2, CopyIsSame
  <1>4. copied.copy = TRUE
    BY <1>2 DEF Entries, Records
  <1>5. pipe' = longer /\ UNCHANGED <<listener, stopping>>
    BY DEF Feed
  <1> HIDE DEF copied
  <1>6. /\ Len(longer) = Len(pipe) + 1 /\ Len(pipe) \in Nat
        /\ longer[Len(pipe) + 1] = copied /\ \A j \in 1..Len(pipe) : longer[j] = pipe[j]
    BY <1>1, <1>3, AppendFacts
  <1> HIDE DEF longer
  <1> QED
    BY <1>4, <1>5, <1>6 DEF CopiesOnly

LEMMA SentinelStep ==
  ASSUME SentinelInv, [Next]_vars
  PROVE  SentinelInv'
  <1>1. Typed /\ CopiesOnly /\ AccountedInv'
    BY AccountedStep DEF SentinelInv, AccountedInv, OrderInv
  <1>2. CASE AppInit \/ Start \/ Join \/ KillListener \/ UNCHANGED vars
    BY <1>1, <1>2 DEF AppInit, Start, Join, KillListener, queue, vars, CopiesOnly, SentinelInv, Alive
  <1>3. CASE Stop \/ Interrupt
    BY <1>1, <1>3 DEF Stop, Interrupt, Alive, CopiesOnly, SentinelInv
  <1>4. CASE \E p \in Producers, kind \in Kinds : Emit(p, kind)
    BY <1>1, <1>4 DEF Emit, CopiesOnly, SentinelInv
  <1>5. CASE \E p \in Producers \cup {Listener} : Feed(p)
    BY <1>1, <1>5, FeedCopies DEF SentinelInv
  <1>6. CASE \E p \in Workers : EndWorker(p)
    BY <1>1, <1>6 DEF EndWorker, CopiesOnly, SentinelInv
  <1>7. CASE Dequeue
    <2>1. pipe \in Seq(Entries) /\ pipe # <<>> /\ pipe' = Tail(pipe) /\ stopping' = stopping
      BY <1>1, <1>7 DEF Typed, Dequeue
    <2>2. listener' = "handling"
      BY <1>1, <1>7, <2>1, HeadIsNoSentinel DEF Dequeue
    <2>3. \A j \in 1..Len(pipe') : pipe'[j].copy = TRUE
      BY <1>1, <2>1, TailFacts DEF CopiesOnly
    <2> QED
      BY <1>1, <2>1, <2>2, <2>3 DEF CopiesOnly, SentinelInv
  <1>8. CASE Handle \/ HandleRaises
    BY <1>1, <1>8 DEF Handle, HandleRaises, queue, CopiesOnly, SentinelInv
  <1> QED
    BY <1>2, <1>3, <1>4, <1>5, <1>6, <1>7, <1>8 DEF Next, ListenerStep

LEMMA SentinelInit == Init => SentinelInv
  <1> SUFFICES ASSUME Init PROVE SentinelInv
    OBVIOUS
  <1>1. /\ OrderInv /\ record = NoRecord /\ accepted = {} /\ pipe = <<>>
        /\ listener = "unborn" /\ stopping = "no"
    BY OrderInit DEF Init
  <1>2. Len(pipe) = 0
    BY <1>1
  <1> QED
    BY <1>1, <1>2 DEF SentinelInv, AccountedInv, Accounted, CopiesOnly

\* stop() comes back from its join only when the listener has died: the sentinel, which
\* arrives as a copy, ends no listener.
JoinNeedsDeath == [][stopping = "joining" /\ stopping' # "joining" => listener = "dead"]_vars

\* However the sentinel is put, by stop() or by an interrupt, the join of the main process
\* lasts as long as the listener lives.
THEOREM SentinelEndsNothing == Spec => JoinNeedsDeath
  <1>1. SentinelInv /\ [Next]_vars =>
          [stopping = "joining" /\ stopping' # "joining" => listener = "dead"]_vars
    <2> SUFFICES ASSUME SentinelInv, Next, stopping = "joining", stopping' # "joining"
                 PROVE  listener = "dead"
      BY DEF vars
    <2>1. Join
      BY DEF Next, ListenerStep, AppInit, Start, Stop, Emit, Feed, EndWorker, Dequeue, Handle,
             HandleRaises, Interrupt, KillListener
    <2> QED
      BY <2>1 DEF Join, Alive, SentinelInv, CopiesOnly
  <1> QED
    BY <1>1, SentinelInit, SentinelStep, PTL DEF Spec, JoinNeedsDeath

\* A record that the queue took and that is neither handled nor lost can go on, as long as
\* the listener lives: from its process's buffer to the pipe (unless a killed process holds
\* the pipe's lock), to the listener, or to its handlers.
RecordsGoOn ==
  \A p \in Producers, n \in Nat : <<p, n>> \in accepted =>
    \/ Handled(p, n) \/ <<p, n>> \in lost
    \/ listener \in {"unborn", "dead"}
    \/ InBuffer(p, n)
    \/ listener = "waiting" /\ pipe # <<>>
    \/ listener = "handling"

\* What the delivery of each record rests on: no record waits for a listener that has
\* ended, or in a place that nobody reads.
THEOREM RecordsAreMovedOn == Spec => []RecordsGoOn
  <1>1. SentinelInv => RecordsGoOn
    <2> SUFFICES ASSUME SentinelInv, NEW p \in Producers, NEW n \in Nat, <<p, n>> \in accepted,
                        ~Handled(p, n), <<p, n>> \notin lost,
                        listener \notin {"unborn", "dead", "handling"}
                 PROVE  InBuffer(p, n) \/ (listener = "waiting" /\ pipe # <<>>)
      BY DEF RecordsGoOn
    <2>1. listener = "waiting" /\ record = NoRecord
      BY DEF SentinelInv, AccountedInv, CopiesOnly
    <2>2. ~Is(record, p, n)
      BY <2>1 DEF Is, NoRecord
    <2>3. InPipe(p, n) \/ InBuffer(p, n)
      BY <2>2 DEF SentinelInv, AccountedInv, Accounted
    <2>4. Len(<<>>) = 0
      OBVIOUS
    <2>5. InPipe(p, n) => pipe # <<>>
      BY <2>4 DEF InPipe
    <2> QED
      BY <2>1, <2>3, <2>5
  <1> QED
    BY <1>1, SentinelInit, SentinelStep, PTL DEF Spec
=============================================================================
