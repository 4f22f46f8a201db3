--------------------------- MODULE DirScanProofs ---------------------------
(***************************************************************************)
(* A scan of DirScan that returns has found what it was asked for, for any *)
(* tree and however often the tree changes meanwhile.  Three arguments:    *)
(* every directory that has been read has its entries taken or ahead       *)
(* (Covered); nothing is taken that never was (Known); and an entry comes  *)
(* up once (OnceEach for the generators, Levels for the lists that         *)
(* recursive_dir_content extends while it goes through them).              *)
(***************************************************************************)
EXTENDS DirScan, FiniteSetTheorems, SequenceTheorems, WellFoundedInduction, TLAPS

Dirs == Nodes \cup {BaseDir}
Lists == scan.function = "recursive_dir_content"
Frames == [dir : Dirs, opened : BOOLEAN, todo : Seq(Nodes), dirs : Seq(Nodes), files : Seq(Nodes)]
Phases == {"idle", "scanning", "returned", "raised"}

In(x, s) == \E a \in 1..Len(s) : s[a] = x
Once(x, s) == \A a, b \in 1..Len(s) : s[a] = x /\ s[b] = x => a = b

-----------------------------------------------------------------------------
(* The inductive invariants                                                 *)

\* Only the directory on top may still have to be read.
StackShape ==
  /\ at = "scanning" <=> open # <<>>
  /\ open # <<>> => open[1].dir = BaseDir
  /\ \A i \in 1..Len(open) :
       /\ i < Len(open) => open[i].opened
       /\ ~open[i].opened => open[i].todo = <<>> /\ open[i].dirs = <<>> /\ open[i].files = <<>>
       /\ ~Lists => open[i].dirs = <<>> /\ open[i].files = <<>>

ScanTyped ==
  /\ tree \in Trees /\ scan \in [function : Functions, follow : BOOLEAN]
  /\ there \subseteq Dirs /\ throughout \subseteq there /\ there \subseteq ever
  /\ \A n \in Nodes : /\ n \in there => tree.place[n] \in there
                      /\ n \in throughout => tree.place[n] \in throughout
  /\ at \in Phases /\ open \in Seq(Frames) /\ found \in Seq(Nodes)
  /\ at = "idle" => throughout = there
  /\ at = "idle" \/ (Lists /\ at = "scanning") => found = <<>>
  /\ StackShape

\* What was wanted when it was taken.
Sure(n) == n \in ever /\ (Wanted(n) \/ LinkLost(n))

Known ==
  \A n \in Nodes :
    /\ In(n, found) => Sure(n)
    /\ \A i \in 1..Len(open) :
         /\ In(n, open[i].dirs) \/ In(n, open[i].files) => Sure(n)
         /\ In(n, open[i].todo) => n \in ever

Taken(n) ==
  In(n, found) \/ \E i \in 1..Len(open) : In(n, open[i].dirs) \/ In(n, open[i].files)
Ahead(n) == \E i \in 1..Len(open) : In(n, open[i].todo)
Awaited(d) == \E i \in 1..Len(open) : open[i].dir = d /\ ~open[i].opened

\* What was there all the time, in the directories that have been read, is taken or
\* ahead, and its directories have been read or will be.
CoveredBy(read) ==
  /\ BaseDir \in read \/ Awaited(BaseDir)
  /\ \A n \in Nodes \cap throughout : tree.place[n] \in read =>
       /\ Wanted(n) => Taken(n) \/ (~Lists /\ Ahead(n))
       /\ IsDir(n) => n \in read \/ Ahead(n) \/ Awaited(n)

Covered == at = "scanning" => \E read \in SUBSET Dirs : CoveredBy(read)
Complete == at = "returned" => \A n \in Nodes \cap throughout : Wanted(n) => In(n, found)

\* A generator reads a directory once, and so each entry comes up once.
OnceBy(read) ==
  /\ \A n \in Nodes : In(n, found) \/ Ahead(n) \/ Awaited(n) \/ n \in read => tree.place[n] \in read
  /\ \A n \in Dirs : n \in read => ~Awaited(n)
  /\ \A n \in Nodes : n \in read \/ Awaited(n) \/ In(n, found) => ~Ahead(n)
  /\ \A n \in Nodes : Once(n, found)
  /\ \A n \in Nodes : \A i, j \in 1..Len(open) :
       /\ Once(n, open[i].todo)
       /\ In(n, open[i].todo) /\ In(n, open[j].todo) => i = j

OnceEach ==
  ~Lists => /\ at = "scanning" => \E read \in SUBSET Dirs : OnceBy(read)
            /\ at = "returned" => \A n \in Nodes : Once(n, found)

Child(n, d) == tree.place[n] = d
Grandchild(n, d) == tree.place[n] \in Nodes /\ tree.place[tree.place[n]] = d
Under(n, d) == Child(n, d) \/ (tree.place[n] \in Nodes /\ tree.place[tree.place[n]] >= d)
Near(n, d) == Child(n, d) \/ Grandchild(n, d)

\* A directory's lists have only what is under it.  Its own directories are gone through
\* once, and what they contain comes into the lists then.
LevelKept(i) ==
  LET f == open[i]
  IN  \A n \in Nodes :
        /\ In(n, f.todo) \/ In(n, f.dirs) \/ In(n, f.files) => Under(n, f.dir)
        /\ Child(n, f.dir) => Once(n, f.todo)
        /\ Grandchild(n, f.dir) /\ (In(n, f.dirs) \/ In(n, f.files)) =>
             /\ ~In(tree.place[n], f.todo)
             /\ i < Len(open) => open[i + 1].dir # tree.place[n]
        /\ Near(n, f.dir) => Once(n, f.dirs) /\ Once(n, f.files) /\ ~(In(n, f.dirs) /\ In(n, f.files))

CallKept(i) ==
  LET d == open[i].dir
      e == open[i + 1].dir
  IN  e \in Nodes /\ Under(e, d) /\ (Child(e, d) => ~In(e, open[i].todo))

Levels ==
  Lists => /\ \A i \in 1..Len(open) : LevelKept(i) /\ (i < Len(open) => CallKept(i))
           /\ at = "returned" => \A n \in Nodes : Shallow(n) => Once(n, found)

-----------------------------------------------------------------------------
(* Sequences, sets and the least number of a set                            *)

LEMMA Least ==
  ASSUME NEW S \in SUBSET Nat, S # {}
  PROVE  \E m \in S : \A n \in S : m <= n
  <1> DEFINE R == {ss \in Nat \X Nat : ss[1] < ss[2]}
  <1>1. IsWellFoundedOn(R, Nat)
    BY NatLessThanWellFounded DEF OpToRel
  <1>2. \A m, n \in Nat : n < m => <<n, m>> \in R
    OBVIOUS
  <1> HIDE DEF R
  <1>3. PICK m \in S : \A n \in S : <<n, m>> \notin R
    BY <1>1, WFMin
  <1>4. \A n \in S : n \in Nat /\ m \in Nat /\ ~(n < m)
    BY <1>2, <1>3
  <1>5. \A n \in S : m <= n
    BY <1>4
  <1> QED
    BY <1>5

LEMMA NodesAreNumbers ==
  /\ MaxNodes \in Nat /\ \A n \in Nodes : n \in Nat /\ n > 0 /\ n # BaseDir
  /\ \A d \in Dirs : d \in Nat
  /\ \A d \in 0..MaxNodes : d \in Dirs
  BY MaxNodesAssumption DEF Nodes, Dirs, BaseDir

LEMMA EmptyHasNone ==
  ASSUME NEW x
  PROVE  ~In(x, <<>>) /\ Once(x, <<>>)
  BY DEF In, Once

LEMMA HasElements ==
  ASSUME NEW s \in Seq(Nodes), NEW x, In(x, s)
  PROVE  x \in Nodes
  BY ElementOfSeq DEF In

LEMMA ConcatHas ==
  ASSUME NEW s \in Seq(Nodes), NEW t \in Seq(Nodes), NEW x
  PROVE  /\ In(x, s \o t) <=> In(x, s) \/ In(x, t)
         /\ Once(x, s) /\ Once(x, t) /\ ~(In(x, s) /\ In(x, t)) => Once(x, s \o t)
  <1> DEFINE st == s \o t
  <1>1. /\ st \in Seq(Nodes) /\ Len(s) \in Nat /\ Len(t) \in Nat /\ Len(st) = Len(s) + Len(t)
        /\ \A i \in 1..(Len(s) + Len(t)) : st[i] = IF i <= Len(s) THEN s[i] ELSE t[i - Len(s)]
    BY ConcatProperties, LenProperties
  <1> HIDE DEF st
  <1>2. \A i \in 1..Len(s) : i \in 1..Len(st) /\ st[i] = s[i]
    BY <1>1
  <1>3. \A i \in 1..Len(t) : i + Len(s) \in 1..Len(st) /\ st[i + Len(s)] = t[i]
    BY <1>1
  <1>4. \A i \in 1..Len(st) :
          \/ i \in 1..Len(s) /\ st[i] = s[i]
          \/ i - Len(s) \in 1..Len(t) /\ st[i] = t[i - Len(s)]
    BY <1>1
  <1>5. In(x, st) <=> In(x, s) \/ In(x, t)
    BY <1>2, <1>3, <1>4 DEF In
  <1>6. ASSUME Once(x, s), Once(x, t), ~(In(x, s) /\ In(x, t)),
               NEW a \in 1..Len(st), NEW b \in 1..Len(st), st[a] = x, st[b] = x
        PROVE  a = b
    <2>1. CASE a \in 1..Len(s) /\ b \in 1..Len(s)
      BY <1>2, <1>6, <2>1 DEF Once
    <2>2. CASE a - Len(s) \in 1..Len(t) /\ b - Len(s) \in 1..Len(t)
      <3>1. t[a - Len(s)] = x /\ t[b - Len(s)] = x
        BY <1>1, <1>3, <1>6, <2>2
      <3>2. a - Len(s) = b - Len(s)
        BY <1>6, <2>2, <3>1 DEF Once
      <3> QED
        BY <1>1, <3>2
    <2>3. ~(a \in 1..Len(s) /\ st[a] = s[a] /\ b - Len(s) \in 1..Len(t) /\ st[b] = t[b - Len(s)])
      BY <1>6 DEF In
    <2>4. ~(b \in 1..Len(s) /\ st[b] = s[b] /\ a - Len(s) \in 1..Len(t) /\ st[a] = t[a - Len(s)])
      BY <1>6 DEF In
    <2> QED
      BY <1>4, <2>1, <2>2, <2>3, <2>4
  <1> QED
    BY <1>5, <1>6 DEF st, Once

LEMMA AppendHas ==
  ASSUME NEW s \in Seq(Nodes), NEW y \in Nodes, NEW x
  PROVE  /\ In(x, Append(s, y)) <=> In(x, s) \/ x = y
         /\ Once(x, s) /\ ~(In(x, s) /\ x = y) => Once(x, Append(s, y))
  <1> DEFINE sy == Append(s, y)
  <1>1. /\ Len(s) \in Nat /\ Len(sy) = Len(s) + 1
        /\ \A i \in 1..Len(s) : sy[i] = s[i]
        /\ sy[Len(s) + 1] = y
    BY AppendProperties, LenProperties
  <1> HIDE DEF sy
  <1>2. \A i \in 1..Len(sy) : (i \in 1..Len(s) /\ sy[i] = s[i]) \/ (i = Len(s) + 1 /\ sy[i] = y)
    BY <1>1
  <1>3. \A i \in 1..Len(s) : i \in 1..Len(sy)
    BY <1>1
  <1>4. Len(s) + 1 \in 1..Len(sy)
    BY <1>1
  <1>5. In(x, sy) <=> In(x, s) \/ x = y
    BY <1>1, <1>2, <1>3, <1>4 DEF In
  <1>6. Once(x, s) /\ ~(In(x, s) /\ x = y) => Once(x, sy)
    BY <1>2 DEF In, Once
  <1> QED
    BY <1>5, <1>6 DEF sy

LEMMA TailHas ==
  ASSUME NEW s \in Seq(Nodes), s # <<>>
  PROVE  /\ Tail(s) \in Seq(Nodes) /\ Head(s) \in Nodes /\ In(Head(s), s)
         /\ \A x : /\ In(x, Tail(s)) => In(x, s)
                   /\ In(x, s) /\ x # Head(s) => In(x, Tail(s))
                   /\ Once(x, s) => Once(x, Tail(s)) /\ (x = Head(s) => ~In(x, Tail(s)))
  <1> DEFINE rest == Tail(s)
  <1>1. /\ rest \in Seq(Nodes) /\ Head(s) \in Nodes /\ Head(s) = s[1]
        /\ Len(s) \in Nat \ {0} /\ Len(rest) = Len(s) - 1
        /\ \A i \in 1..Len(rest) : rest[i] = s[i + 1]
    BY HeadTailProperties, EmptySeq
  <1> HIDE DEF rest
  <1>2. /\ \A i \in 1..Len(rest) : i + 1 \in 1..Len(s) /\ i + 1 # 1 /\ i \in Nat
        /\ \A i \in 1..Len(s) : i # 1 => i - 1 \in 1..Len(rest) /\ rest[i - 1] = s[i]
        /\ 1 \in 1..Len(s)
    BY <1>1
  <1>3. ASSUME NEW x
        PROVE  /\ In(x, rest) => In(x, s)
               /\ In(x, s) /\ x # Head(s) => In(x, rest)
               /\ Once(x, s) => Once(x, rest) /\ (x = Head(s) => ~In(x, rest))
    <2>1. In(x, rest) => In(x, s)
      BY <1>1, <1>2 DEF In
    <2>2. In(x, s) /\ x # Head(s) => In(x, rest)
      BY <1>1, <1>2 DEF In
    <2>3. ASSUME Once(x, s), NEW a \in 1..Len(rest), NEW b \in 1..Len(rest), rest[a] = x, rest[b] = x
          PROVE  a = b
      <3>1. a + 1 = b + 1
        BY <1>1, <1>2, <2>3 DEF Once
      <3> QED
        BY <1>2, <3>1
    <2>4. Once(x, s) /\ x = Head(s) => ~In(x, rest)
      BY <1>1, <1>2 DEF In, Once
    <2> QED
      BY <2>1, <2>2, <2>3, <2>4 DEF Once
  <1> QED
    BY <1>1, <1>2, <1>3 DEF In, rest

LEMMA SetToSeqHas ==
  ASSUME NEW S \in SUBSET Nodes
  PROVE  /\ SetToSeq(S) \in Seq(Nodes)
         /\ \A x : In(x, SetToSeq(S)) <=> x \in S
         /\ \A x : Once(x, SetToSeq(S))
  <1> DEFINE size == Cardinality(S)
  <1>1. IsFiniteSet(S)
    <2>1. 1 \in Int /\ MaxNodes \in Int
      BY MaxNodesAssumption
    <2>2. IsFiniteSet(Nodes)
      BY <2>1, FS_Interval DEF Nodes
    <2> QED
      BY <2>2, FS_Subset
  <1>2. size \in Nat /\ ExistsBijection(1..size, S)
    BY <1>1, FS_CardinalityType
  <1>3. PICK f \in Bijection(1..size, S) : TRUE
    BY <1>2 DEF ExistsBijection
  <1>4. f \in [1..size -> S] /\ IsInjective(f)
    BY <1>3 DEF Bijection, Injection
  <1>5. SetToSeq(S) \in [1..size -> S] /\ IsInjective(SetToSeq(S))
    BY <1>4 DEF SetToSeq
  <1>6. SetToSeq(S) \in Injection(1..size, S)
    BY <1>5 DEF Injection
  <1>7. IsFiniteSet(1..size) /\ Cardinality(1..size) = size
    BY <1>2, FS_Interval
  <1>8. SetToSeq(S) \in Surjection(1..size, S)
    BY <1>6, <1>7, <1>1, FS_Injection
  <1> HIDE DEF size
  <1>9. SetToSeq(S) \in Seq(S) /\ Len(SetToSeq(S)) = size
    BY <1>2, <1>5
  <1>10. SetToSeq(S) \in Seq(Nodes)
    BY <1>9, SeqMonotonic
  <1>11. /\ \A x \in S : \E n \in 1..size : SetToSeq(S)[n] = x
         /\ \A n \in 1..size : SetToSeq(S)[n] \in S
    BY <1>5, <1>8 DEF Surjection
  <1>12. \A a, b \in 1..size : SetToSeq(S)[a] = SetToSeq(S)[b] => a = b
    BY <1>5 DEF IsInjective
  <1> QED
    BY <1>9, <1>10, <1>11, <1>12 DEF In, Once

-----------------------------------------------------------------------------
(* What the steps do                                                        *)

LEMMA StackFacts ==
  ASSUME ScanTyped
  PROVE  /\ Len(open) \in Nat
         /\ \A i \in 1..Len(open) : open[i] \in Frames
         /\ at = "scanning" => /\ open # <<>> /\ Len(open) \in Nat \ {0}
                               /\ Len(open) \in 1..Len(open) /\ Top = open[Len(open)]
  <1>1. open \in Seq(Frames) /\ (at = "scanning" <=> open # <<>>)
    BY DEF ScanTyped, StackShape
  <1>2. /\ Len(open) \in Nat /\ \A i \in 1..Len(open) : open[i] \in Frames
        /\ open # <<>> => Len(open) \in Nat \ {0}
    BY <1>1, LenProperties, ElementOfSeq, EmptySeq
  <1> QED
    BY <1>1, <1>2 DEF Last, Top

LEMMA FrameParts ==
  ASSUME NEW f \in Frames
  PROVE  /\ f.dir \in Dirs /\ f.opened \in BOOLEAN
         /\ f.todo \in Seq(Nodes) /\ f.dirs \in Seq(Nodes) /\ f.files \in Seq(Nodes)
  BY DEF Frames

LEMMA NewScan ==
  ASSUME NEW d \in Dirs
  PROVE  /\ ScanOf(d) \in Frames /\ ScanOf(d).dir = d /\ ~ScanOf(d).opened
         /\ ScanOf(d).todo = <<>> /\ ScanOf(d).dirs = <<>> /\ ScanOf(d).files = <<>>
  BY EmptySeq DEF ScanOf, Frames

\* The frame on top is replaced.
LEMMA TopReplaced ==
  ASSUME ScanTyped, at = "scanning", NEW f \in Frames
  PROVE  /\ WithTop(f) \in Seq(Frames) /\ Len(WithTop(f)) = Len(open)
         /\ WithTop(f)[Len(open)] = f
         /\ \A i \in 1..Len(open) : i # Len(open) => WithTop(f)[i] = open[i]
  BY StackFacts, ExceptSeq DEF ScanTyped, WithTop

LEMMA BeginDoes ==
  ASSUME ScanTyped, Begin
  PROVE  /\ found = <<>> /\ throughout = there
         /\ UNCHANGED <<tree, there, scan, found, throughout, ever>>
         /\ \/ at' = "returned" /\ open' = <<>> /\ BaseDir \notin there /\ ~Lists
            \/ /\ at' = "scanning" /\ open' \in Seq(Frames) /\ Len(open') = 1
               /\ open'[1] = ScanOf(BaseDir)
  <1>1. at = "idle" /\ open = <<>> /\ found = <<>> /\ throughout = there
    BY DEF Begin, ScanTyped, StackShape
  <1>2. ScanOf(BaseDir) \in Frames
    BY NewScan DEF Dirs
  <1>3. /\ <<ScanOf(BaseDir)>> \in Seq(Frames) /\ Len(<<ScanOf(BaseDir)>>) = 1
        /\ <<ScanOf(BaseDir)>>[1] = ScanOf(BaseDir)
    BY <1>2
  <1> QED
    BY <1>1, <1>3 DEF Begin, Lists

\* The directories and the files of a listing.
DirsIn(d) == {n \in Listed(d) : IsDir(n)}
FilesIn(d) == {n \in Listed(d) : tree.kind[n] = "file" /\ Selected(n)}

LEMMA ScandirDoes ==
  ASSUME ScanTyped, Scandir
  PROVE  LET m == Len(open)
             f == open'[m]
             d == open[m].dir
         IN  /\ UNCHANGED <<tree, there, scan, at, found, throughout, ever>> /\ at = "scanning"
             /\ open' \in Seq(Frames) /\ Len(open') = m
             /\ \A i \in 1..m : i # m => open'[i] = open[i]
             /\ ~open[m].opened /\ d \in there
             /\ open[m].todo = <<>> /\ open[m].dirs = <<>> /\ open[m].files = <<>>
             /\ f \in Frames /\ f.dir = d /\ f.opened
             /\ \A n : Once(n, f.todo) /\ Once(n, f.dirs) /\ Once(n, f.files)
             /\ Lists => \A n : /\ In(n, f.todo) <=> n \in DirsIn(d)
                                /\ In(n, f.dirs) <=> n \in DirsIn(d)
                                /\ In(n, f.files) <=> n \in FilesIn(d)
             /\ ~Lists => /\ \A n : In(n, f.todo) <=> n \in Listed(d)
                          /\ f.dirs = <<>> /\ f.files = <<>>
  <1> DEFINE m == Len(open)
             d == open[m].dir
             ds == SetToSeq(DirsIn(d))
             fs == SetToSeq(FilesIn(d))
             ls == SetToSeq(Listed(d))
             f == IF Lists THEN [open[m] EXCEPT !.opened = TRUE, !.todo = ds, !.dirs = ds, !.files = fs]
                  ELSE [open[m] EXCEPT !.opened = TRUE, !.todo = ls]
  <1>1. /\ m \in 1..m /\ m \in Nat /\ Top = open[m] /\ open[m] \in Frames /\ at = "scanning"
    BY StackFacts DEF Scandir
  <1>2. /\ ~open[m].opened /\ d \in there
        /\ UNCHANGED <<tree, there, scan, at, found, throughout, ever>>
        /\ open' = WithTop(f)
    BY <1>1 DEF Scandir, Lists, DirsIn, FilesIn
  <1>3. open[m].todo = <<>> /\ open[m].dirs = <<>> /\ open[m].files = <<>>
    BY <1>1, <1>2 DEF ScanTyped, StackShape
  <1>4. DirsIn(d) \in SUBSET Nodes /\ FilesIn(d) \in SUBSET Nodes /\ Listed(d) \in SUBSET Nodes
    BY DEF DirsIn, FilesIn, Listed, Children
  <1>5. /\ ds \in Seq(Nodes) /\ \A n : (In(n, ds) <=> n \in DirsIn(d)) /\ Once(n, ds)
        /\ fs \in Seq(Nodes) /\ \A n : (In(n, fs) <=> n \in FilesIn(d)) /\ Once(n, fs)
        /\ ls \in Seq(Nodes) /\ \A n : (In(n, ls) <=> n \in Listed(d)) /\ Once(n, ls)
    BY <1>4, SetToSeqHas
  <1> HIDE DEF ds, fs, ls, d
  <1>6. /\ f \in Frames /\ f.dir = open[m].dir /\ f.opened
        /\ Lists => f.todo = ds /\ f.dirs = ds /\ f.files = fs
        /\ ~Lists => f.todo = ls /\ f.dirs = <<>> /\ f.files = <<>>
    BY <1>1, <1>3, <1>5 DEF Frames
  <1> HIDE DEF f
  <1>7. /\ open' \in Seq(Frames) /\ Len(open') = m /\ open'[m] = f
        /\ \A i \in 1..m : i # m => open'[i] = open[i]
    BY <1>1, <1>2, <1>6, TopReplaced
  <1> QED
    BY <1>1, <1>2, <1>3, <1>5, <1>6, <1>7, EmptyHasNone DEF d

\* The entry that Visit takes is given back.
Yields(n) ==
  CASE Lists -> FALSE
    [] scan.function = "dir_paths_from_dir" -> IsDir(n) /\ Selected(n)
    [] OTHER -> ~IsDir(n) /\ Selected(n)

VisitOf(n) ==
  LET m == Len(open)
      rest == open'[m].todo
  IN  /\ UNCHANGED <<tree, there, scan, at, throughout, ever>> /\ at = "scanning"
      /\ open[m].opened /\ open[m].todo # <<>> /\ In(n, open[m].todo)
      /\ open' \in Seq(Frames)
      /\ \A i \in 1..m : i # m => open'[i] = open[i]
      /\ open'[m].dir = open[m].dir /\ open'[m].opened
      /\ open'[m].dirs = open[m].dirs /\ open'[m].files = open[m].files
      /\ \A x : /\ In(x, rest) => In(x, open[m].todo)
                /\ In(x, open[m].todo) /\ x # n => In(x, rest)
                /\ Once(x, open[m].todo) => Once(x, rest) /\ (x = n => ~In(x, rest))
      /\ IF Lists \/ IsDir(n)
         THEN Len(open') = m + 1 /\ open'[m + 1] = ScanOf(n)
         ELSE Len(open') = m
      /\ found' \in Seq(Nodes)
      /\ \A x : /\ In(x, found') <=> In(x, found) \/ (x = n /\ Yields(n))
                /\ Once(x, found) /\ ~(x = n /\ In(n, found)) => Once(x, found')

LEMMA VisitDoes ==
  ASSUME ScanTyped, Visit
  PROVE  \E n \in Nodes : VisitOf(n)
  <1> DEFINE m == Len(open)
             n == Head(open[m].todo)
             f == [open[m] EXCEPT !.todo = Tail(@)]
             longer == Append(WithTop(f), ScanOf(n))
  <1>1. /\ m \in 1..m /\ m \in Nat /\ Top = open[m] /\ open[m] \in Frames /\ at = "scanning"
    BY StackFacts DEF Visit
  <1>2. /\ open[m].opened /\ open[m].todo # <<>>
        /\ UNCHANGED <<tree, there, scan, at, throughout, ever>>
        /\ open' = IF Lists \/ IsDir(n) THEN longer ELSE WithTop(f)
        /\ found' = IF Yields(n) THEN Append(found, n) ELSE found
    BY <1>1 DEF Visit, Lists, Yields
  <1>3. open[m].todo \in Seq(Nodes) /\ found \in Seq(Nodes)
    BY <1>1, FrameParts DEF ScanTyped
  <1>4. /\ Tail(open[m].todo) \in Seq(Nodes) /\ n \in Nodes /\ In(n, open[m].todo)
        /\ \A x : LET rest == Tail(open[m].todo)
                  IN  /\ In(x, rest) => In(x, open[m].todo)
                      /\ In(x, open[m].todo) /\ x # n => In(x, rest)
                      /\ Once(x, open[m].todo) => Once(x, rest) /\ (x = n => ~In(x, rest))
    BY <1>2, <1>3, TailHas
  <1>5. /\ f \in Frames /\ f.dir = open[m].dir /\ f.opened /\ f.todo = Tail(open[m].todo)
        /\ f.dirs = open[m].dirs /\ f.files = open[m].files
    BY <1>1, <1>2, <1>4 DEF Frames
  <1> HIDE DEF f
  <1>6. /\ WithTop(f) \in Seq(Frames) /\ Len(WithTop(f)) = m /\ WithTop(f)[m] = f
        /\ \A i \in 1..m : i # m => WithTop(f)[i] = open[i]
    BY <1>1, <1>5, TopReplaced
  <1>7. n \in Dirs /\ ScanOf(n) \in Frames
    BY <1>4, NewScan DEF Dirs
  <1>8. /\ longer \in Seq(Frames) /\ Len(longer) = m + 1
        /\ longer[m + 1] = ScanOf(n)
        /\ \A i \in 1..m : longer[i] = WithTop(f)[i]
    BY <1>6, <1>7, AppendProperties
  <1> HIDE DEF longer
  <1>9. /\ found' \in Seq(Nodes)
        /\ \A x : /\ In(x, found') <=> In(x, found) \/ (x = n /\ Yields(n))
                  /\ Once(x, found) /\ ~(x = n /\ In(n, found)) => Once(x, found')
    <2>1. CASE Yields(n)
      <3>1. Append(found, n) \in Seq(Nodes)
        BY <1>3, <1>4, AppendProperties
      <3> QED
        BY <1>2, <1>3, <1>4, <2>1, <3>1, AppendHas
    <2>2. CASE ~Yields(n)
      BY <1>2, <1>3, <2>2
    <2> QED
      BY <2>1, <2>2
  <1> HIDE DEF n
  <1>10. /\ open' \in Seq(Frames) /\ open'[m] = f
         /\ \A i \in 1..m : i # m => open'[i] = open[i]
         /\ IF Lists \/ IsDir(n)
            THEN Len(open') = m + 1 /\ open'[m + 1] = ScanOf(n)
            ELSE Len(open') = m
    BY <1>1, <1>2, <1>6, <1>8
  <1>11. VisitOf(n)
    BY <1>1, <1>2, <1>4, <1>5, <1>9, <1>10 DEF VisitOf
  <1> QED
    BY <1>4, <1>11

\* The outermost directory is done.
Returns ==
  /\ Len(open) = 1 /\ at' = "returned" /\ open' = <<>> /\ found' \in Seq(Nodes)
  /\ \A x : LET f == open[1]
            IN  /\ In(x, found') <=> In(x, found) \/ In(x, f.dirs) \/ In(x, f.files)
                /\ Lists /\ Once(x, f.dirs) /\ Once(x, f.files) /\ ~(In(x, f.dirs) /\ In(x, f.files)) =>
                     Once(x, found')
                /\ ~Lists /\ Once(x, found) => Once(x, found')

\* A directory inside is done.
HandsUp ==
  LET m == Len(open)
      f == open[m]
      g == open[m - 1]
      h == open'[m - 1]
  IN  /\ m > 1 /\ UNCHANGED <<at, found>>
      /\ open' \in Seq(Frames) /\ Len(open') = m - 1
      /\ \A i \in 1..(m - 1) : i # m - 1 => open'[i] = open[i]
      /\ h.dir = g.dir /\ h.opened = g.opened
      /\ \A x : /\ In(x, h.todo) <=> In(x, g.todo) \/ In(x, f.dirs)
                /\ In(x, h.dirs) <=> In(x, g.dirs) \/ In(x, f.dirs)
                /\ In(x, h.files) <=> In(x, g.files) \/ In(x, f.files)
                /\ Once(x, g.todo) /\ ~In(x, f.dirs) => Once(x, h.todo)
                /\ Once(x, g.dirs) /\ Once(x, f.dirs) /\ ~(In(x, g.dirs) /\ In(x, f.dirs)) =>
                     Once(x, h.dirs)
                /\ Once(x, g.files) /\ Once(x, f.files) /\ ~(In(x, g.files) /\ In(x, f.files)) =>
                     Once(x, h.files)
      /\ ~Lists => h.todo = g.todo /\ h.dirs = <<>> /\ h.files = <<>>

LEMMA DoneDoes ==
  ASSUME ScanTyped, DirectoryDone
  PROVE  /\ UNCHANGED <<tree, there, scan, throughout, ever>> /\ at = "scanning"
         /\ open[Len(open)].opened /\ open[Len(open)].todo = <<>>
         /\ Returns \/ HandsUp
  <1> DEFINE m == Len(open)
             f == open[m]
             g == open[m - 1]
             h == [g EXCEPT !.todo = @ \o f.dirs, !.dirs = @ \o f.dirs, !.files = @ \o f.files]
  <1>1. /\ m \in 1..m /\ m \in Nat \ {0} /\ Top = f /\ f \in Frames /\ at = "scanning"
        /\ \A i \in 1..m : open[i] \in Frames
    BY StackFacts DEF DirectoryDone
  <1>2. /\ f.opened /\ f.todo = <<>> /\ UNCHANGED <<tree, there, scan, throughout, ever>>
        /\ IF m = 1
           THEN at' = "returned" /\ found' = found \o f.dirs \o f.files /\ open' = <<>>
           ELSE /\ open' = [Front(open) EXCEPT ![m - 1] = h]
                /\ UNCHANGED <<at, found>>
    BY <1>1 DEF DirectoryDone
  <1>3. f.dirs \in Seq(Nodes) /\ f.files \in Seq(Nodes) /\ found \in Seq(Nodes)
    BY <1>1, FrameParts DEF ScanTyped
  <1>4. ASSUME m = 1
        PROVE  Returns
    <2>1. at' = "returned" /\ found' = (found \o f.dirs) \o f.files /\ open' = <<>>
      BY <1>2, <1>4
    <2>2. found \o f.dirs \in Seq(Nodes) /\ found' \in Seq(Nodes)
      BY <1>3, <2>1, ConcatProperties
    <2> DEFINE fd == found \o f.dirs
    <2>6. \A x : /\ In(x, fd) <=> In(x, found) \/ In(x, f.dirs)
                 /\ Once(x, found) /\ Once(x, f.dirs) /\ ~(In(x, found) /\ In(x, f.dirs)) => Once(x, fd)
      BY <1>3, ConcatHas
    <2>7. fd \in Seq(Nodes) /\ found' = fd \o f.files
      BY <2>1, <2>2
    <2> HIDE DEF fd
    <2>3. \A x : /\ In(x, found') <=> In(x, fd) \/ In(x, f.files)
                 /\ Once(x, fd) /\ Once(x, f.files) /\ ~(In(x, fd) /\ In(x, f.files)) => Once(x, found')
      BY <1>3, <2>7, ConcatHas
    <2>4. Lists => \A x : ~In(x, found) /\ Once(x, found)
      BY <1>1, EmptyHasNone DEF ScanTyped
    <2>5. ~Lists => \A x : /\ ~In(x, f.dirs) /\ Once(x, f.dirs)
                           /\ ~In(x, f.files) /\ Once(x, f.files)
      BY <1>1, EmptyHasNone DEF ScanTyped, StackShape
    <2> QED
      BY <1>4, <2>1, <2>2, <2>3, <2>4, <2>5, <2>6 DEF Returns
  <1>5. ASSUME m # 1
        PROVE  HandsUp
    <2> HIDE DEF h
    <2>11. m \in Nat \ {0} /\ m # 1
      BY <1>1, <1>5
    <2>13. \A k \in Nat \ {0} : k # 1 =>
             k - 1 \in 1..k /\ k - 1 \in 1..(k - 1) /\ k > 1 /\ k - 1 # k /\ k - 1 \in Nat
      OBVIOUS
    <2>12. m - 1 \in 1..m /\ m - 1 \in 1..(m - 1) /\ m > 1 /\ m - 1 # m /\ m - 1 \in Nat
      BY <2>11, <2>13
    <2>1. /\ m - 1 \in 1..m /\ m - 1 \in 1..(m - 1) /\ m > 1 /\ m - 1 # m /\ g \in Frames
          /\ m - 1 \in Nat
      BY <1>1, <2>12
    <2>2. g.todo \in Seq(Nodes) /\ g.dirs \in Seq(Nodes) /\ g.files \in Seq(Nodes)
      BY <2>1, FrameParts
    <2>3. /\ g.todo \o f.dirs \in Seq(Nodes) /\ g.dirs \o f.dirs \in Seq(Nodes)
          /\ g.files \o f.files \in Seq(Nodes)
      BY <1>3, <2>2, ConcatProperties
    <2>4. /\ h \in Frames /\ h.dir = g.dir /\ h.opened = g.opened
          /\ h.todo = g.todo \o f.dirs /\ h.dirs = g.dirs \o f.dirs /\ h.files = g.files \o f.files
      BY <2>1, <2>3 DEF Frames, h
    <2>5. /\ Front(open) \in Seq(Frames) /\ Len(Front(open)) = m - 1
          /\ \A i \in 1..(m - 1) : Front(open)[i] = open[i]
      <3>1. open \in Seq(Frames)
        BY DEF ScanTyped
      <3> QED
        BY <2>1, <3>1 DEF Front
    <2>6. open' = [Front(open) EXCEPT ![m - 1] = h] /\ UNCHANGED <<at, found>>
      BY <1>2, <1>5
    <2>7. /\ open' \in Seq(Frames) /\ Len(open') = m - 1 /\ open'[m - 1] = h
          /\ \A i \in 1..(m - 1) : i # m - 1 => open'[i] = open[i]
      BY <2>1, <2>4, <2>5, <2>6, ExceptSeq
    <2>8. \A x : /\ In(x, h.todo) <=> In(x, g.todo) \/ In(x, f.dirs)
                 /\ In(x, h.dirs) <=> In(x, g.dirs) \/ In(x, f.dirs)
                 /\ In(x, h.files) <=> In(x, g.files) \/ In(x, f.files)
                 /\ Once(x, g.todo) /\ Once(x, f.dirs) /\ ~(In(x, g.todo) /\ In(x, f.dirs)) =>
                      Once(x, h.todo)
                 /\ Once(x, g.dirs) /\ Once(x, f.dirs) /\ ~(In(x, g.dirs) /\ In(x, f.dirs)) =>
                      Once(x, h.dirs)
                 /\ Once(x, g.files) /\ Once(x, f.files) /\ ~(In(x, g.files) /\ In(x, f.files)) =>
                      Once(x, h.files)
      BY <1>3, <2>2, <2>4, ConcatHas
    <2>9. \A x : ~In(x, f.dirs) => Once(x, f.dirs)
      BY DEF In, Once
    <2>10. ~Lists => h.todo = g.todo /\ h.dirs = <<>> /\ h.files = <<>>
      <3>1. ~Lists => f.dirs = <<>> /\ f.files = <<>> /\ g.dirs = <<>> /\ g.files = <<>>
        BY <1>1, <2>1 DEF ScanTyped, StackShape
      <3>2. g.todo \o <<>> = g.todo /\ <<>> \o <<>> = <<>>
        BY <2>2, ConcatEmptySeq, EmptySeq
      <3> QED
        BY <2>4, <3>1, <3>2
    <2> QED
      BY <2>1, <2>4, <2>6, <2>7, <2>8, <2>9, <2>10 DEF HandsUp
  <1> QED
    BY <1>1, <1>2, <1>4, <1>5

LEMMA TreeChanges ==
  ASSUME ScanTyped, NEW n \in Dirs, EntryRemoved(n) \/ EntryMade(n)
  PROVE  /\ UNCHANGED <<tree, scan, at, open, found>> /\ at = "scanning"
         /\ throughout' \subseteq throughout /\ throughout' \subseteq there'
         /\ ever \subseteq ever' /\ there' \subseteq ever' /\ there' \subseteq Dirs
         /\ \A k \in Nodes : /\ k \in there' => tree.place[k] \in there'
                             /\ k \in throughout' => tree.place[k] \in throughout'
  <1>1. CASE EntryRemoved(n)
    <2>1. \A k \in Nodes : k \in there /\ tree.place[k] = n => FALSE
      BY <1>1 DEF EntryRemoved, Children
    <2> QED
      BY <1>1, <2>1 DEF EntryRemoved, ScanTyped
  <1>2. CASE EntryMade(n)
    BY <1>2 DEF EntryMade, ScanTyped, Dirs
  <1> QED
    BY <1>1, <1>2

\* What a node is depends on the tree, on what is there and on the function called.
LEMMA SameTree ==
  ASSUME UNCHANGED <<tree, there, scan, throughout, ever>>
  PROVE  /\ Lists' <=> Lists
         /\ \A n : /\ IsDir(n)' <=> IsDir(n)
                   /\ Wanted(n)' <=> Wanted(n)
                   /\ Sure(n)' <=> Sure(n)
                   /\ Shallow(n)' <=> Shallow(n)
         /\ \A n, d : /\ Child(n, d)' <=> Child(n, d)
                      /\ Grandchild(n, d)' <=> Grandchild(n, d)
                      /\ Under(n, d)' <=> Under(n, d)
                      /\ Near(n, d)' <=> Near(n, d)
  <1>1. Lists' <=> Lists
    BY DEF Lists
  <1>2. \A n : IsDir(n)' <=> IsDir(n)
    BY DEF IsDir
  <1>3. \A n : Selected(n)' <=> Selected(n)
    BY DEF Selected
  <1>4. \A n : Wanted(n)' <=> Wanted(n)
    BY <1>2, <1>3 DEF Wanted
  <1>5. \A n : Sure(n)' <=> Sure(n)
    BY <1>4 DEF Sure, LinkLost
  <1>6. \A n : Shallow(n)' <=> Shallow(n)
    BY DEF Shallow
  <1>7. \A n, d : /\ Child(n, d)' <=> Child(n, d)
                  /\ Grandchild(n, d)' <=> Grandchild(n, d)
    BY DEF Child, Grandchild
  <1>8. \A n, d : Under(n, d)' <=> Under(n, d)
    BY DEF Under, Child
  <1>9. \A n, d : Near(n, d)' <=> Near(n, d)
    BY <1>7 DEF Near
  <1> QED
    BY <1>1, <1>2, <1>4, <1>5, <1>6, <1>7, <1>8, <1>9

\* What has been there all the time stays what it is; what was wanted once stays sure.
LEMMA ChangedTree ==
  ASSUME ScanTyped, NEW k \in Dirs, EntryRemoved(k) \/ EntryMade(k)
  PROVE  /\ Lists' <=> Lists
         /\ \A n \in throughout' : (IsDir(n)' <=> IsDir(n)) /\ (Wanted(n)' <=> Wanted(n))
         /\ \A n : Sure(n) => Sure(n)'
         /\ \A n : Shallow(n)' <=> Shallow(n)
         /\ \A n, d : /\ Child(n, d)' <=> Child(n, d)
                      /\ Grandchild(n, d)' <=> Grandchild(n, d)
                      /\ Under(n, d)' <=> Under(n, d)
                      /\ Near(n, d)' <=> Near(n, d)
  <1>1. /\ UNCHANGED <<tree, scan>>
        /\ throughout' \subseteq throughout /\ throughout' \subseteq there'
        /\ throughout \subseteq there /\ ever \subseteq ever'
    BY TreeChanges DEF ScanTyped
  <1>2. Lists' <=> Lists
    BY <1>1 DEF Lists
  <1>3. \A n : /\ n \in throughout' => (IsDir(n)' <=> IsDir(n))
               /\ tree.kind[n] # "link" => (IsDir(n)' <=> IsDir(n))
    BY <1>1 DEF IsDir
  <1>4. \A n : Selected(n)' <=> Selected(n)
    BY <1>1 DEF Selected
  <1>5. \A n : (IsDir(n)' <=> IsDir(n)) => (Wanted(n)' <=> Wanted(n))
    BY <1>1, <1>4 DEF Wanted
  <1>6. \A n : Sure(n) => Sure(n)'
    BY <1>1, <1>3, <1>5 DEF Sure, LinkLost
  <1>7. \A n : Shallow(n)' <=> Shallow(n)
    BY <1>1 DEF Shallow
  <1>8. \A n, d : /\ Child(n, d)' <=> Child(n, d)
                  /\ Grandchild(n, d)' <=> Grandchild(n, d)
    BY <1>1 DEF Child, Grandchild
  <1>9. \A n, d : Under(n, d)' <=> Under(n, d)
    BY <1>1 DEF Under, Child
  <1>10. \A n, d : Near(n, d)' <=> Near(n, d)
    BY <1>8 DEF Near
  <1> QED
    BY <1>2, <1>3, <1>5, <1>6, <1>7, <1>8, <1>9, <1>10

-----------------------------------------------------------------------------
(* Types                                                                    *)

LEMMA TreeFacts ==
  ASSUME ScanTyped, NEW n \in Nodes
  PROVE  /\ tree.place[n] \in Nat /\ tree.place[n] \in Dirs /\ tree.place[n] < n
         /\ tree.kind[n] \in Kinds
         /\ tree.place[n] \in Nodes => tree.kind[tree.place[n]] = "dir"
  <1>1. tree \in Trees /\ MaxNodes \in Nat
    BY MaxNodesAssumption DEF ScanTyped
  <1>2. tree.place[n] \in 0..MaxNodes /\ tree.place[n] < n /\ tree.kind[n] \in Kinds
    BY <1>1 DEF Trees
  <1>3. tree.place[n] \in Nat /\ (tree.place[n] \in Dirs)
    BY <1>1, <1>2 DEF Dirs, Nodes, BaseDir
  <1>4. tree.place[n] \in Nodes => tree.place[n] # BaseDir
    BY DEF Nodes, BaseDir
  <1> QED
    BY <1>1, <1>2, <1>3, <1>4 DEF Trees

LEMMA TypedBegins == DirInit => ScanTyped
  <1> SUFFICES ASSUME DirInit
               PROVE  ScanTyped
    OBVIOUS
  <1>1. /\ open = <<>> /\ found = <<>> /\ at = "idle" /\ throughout = there /\ ever = there
        /\ tree \in Trees /\ scan \in [function : Functions, follow : BOOLEAN]
        /\ there \in SUBSET (Nodes \cup {BaseDir})
        /\ \A n \in Nodes \cap there : tree.place[n] \in there
    BY DEF DirInit
  <1>2. <<>> \in Seq(Frames) /\ <<>> \in Seq(Nodes) /\ Len(<<>>) = 0
    BY EmptySeq
  <1> QED
    BY <1>1, <1>2 DEF ScanTyped, StackShape, Phases, Dirs

LEMMA TypedKeeps ==
  ASSUME ScanTyped, [DirNext]_dirVars
  PROVE  ScanTyped'
  <1>1. CASE Begin
    <2>1. /\ UNCHANGED <<tree, there, scan, found, throughout, ever>> /\ found = <<>>
          /\ \/ at' = "returned" /\ open' = <<>>
             \/ /\ at' = "scanning" /\ open' \in Seq(Frames) /\ Len(open') = 1
                /\ open'[1] = ScanOf(BaseDir)
      BY <1>1, BeginDoes
    <2>2. BaseDir \in Dirs
      BY DEF Dirs
    <2>3. StackShape'
      <3>1. CASE at' = "returned" /\ open' = <<>>
        BY <3>1, EmptySeq DEF StackShape
      <3>2. CASE /\ at' = "scanning" /\ open' \in Seq(Frames) /\ Len(open') = 1
                 /\ open'[1] = ScanOf(BaseDir)
        <4>2. Len(<<>>) = 0 /\ Len(open') = 1
          BY <3>2
        <4>1. open' # <<>>
          BY <4>2
        <4> QED
          BY <3>2, <4>1, <2>2, NewScan DEF StackShape
      <3> QED
        BY <2>1, <3>1, <3>2
    <2>4. open' \in Seq(Frames) /\ at' \in Phases /\ at' # "idle"
      BY <2>1, EmptySeq DEF Phases
    <2> QED
      BY <2>1, <2>3, <2>4 DEF ScanTyped, Lists
  <1>2. CASE ScandirRaises
    <2>1. /\ UNCHANGED <<tree, there, scan, found, throughout, ever>>
          /\ at' = "raised" /\ open' = <<>>
      BY <1>2 DEF ScandirRaises
    <2> QED
      BY <2>1, EmptySeq DEF ScanTyped, StackShape, Phases, Lists
  <1>3. CASE Scandir
    <2> DEFINE m == Len(open)
    <2>1. /\ UNCHANGED <<tree, there, scan, at, found, throughout, ever>> /\ at = "scanning"
          /\ open' \in Seq(Frames) /\ Len(open') = m
          /\ \A i \in 1..m : i # m => open'[i] = open[i]
          /\ open'[m].dir = open[m].dir /\ open'[m].opened
          /\ ~Lists => open'[m].dirs = <<>> /\ open'[m].files = <<>>
      BY <1>3, ScandirDoes
    <2>2. m \in Nat \ {0} /\ open # <<>> /\ 1 \in 1..m
      BY <2>1, StackFacts
    <2>3. StackShape'
      <3>1. open' # <<>>
        BY <2>1, <2>2
      <3>2. open'[1].dir = BaseDir
        BY <2>1, <2>2 DEF ScanTyped, StackShape
      <3> QED
        BY <2>1, <2>2, <3>1, <3>2, SameTree DEF ScanTyped, StackShape
    <2> QED
      BY <2>1, <2>3, SameTree DEF ScanTyped
  <1>4. CASE Visit
    <2> DEFINE m == Len(open)
    <2>1. PICK n \in Nodes : VisitOf(n)
      BY <1>4, VisitDoes
    <2>2. /\ UNCHANGED <<tree, there, scan, at, throughout, ever>> /\ at = "scanning"
          /\ open' \in Seq(Frames) /\ found' \in Seq(Nodes)
          /\ \A i \in 1..m : i # m => open'[i] = open[i]
          /\ open'[m].dir = open[m].dir /\ open'[m].opened
          /\ open'[m].dirs = open[m].dirs /\ open'[m].files = open[m].files
          /\ Len(open') = m \/ (Len(open') = m + 1 /\ open'[m + 1] = ScanOf(n))
          /\ Lists => found' = found
      <3>2. Lists => found' = found
        BY <1>4 DEF Visit, Lists
      <3> QED
        BY <2>1, <3>2 DEF VisitOf
    <2>3. m \in Nat \ {0} /\ open # <<>> /\ 1 \in 1..m /\ m \in 1..m
      BY <2>2, StackFacts
    <2>4. StackShape'
      <3>1. open' # <<>>
        BY <2>2, <2>3
      <3>2. open'[1].dir = BaseDir
        BY <2>2, <2>3 DEF ScanTyped, StackShape
      <3>3. \A i \in 1..m : /\ open'[i].opened
                            /\ ~Lists => open'[i].dirs = <<>> /\ open'[i].files = <<>>
        BY <2>2, <2>3 DEF ScanTyped, StackShape
      <3>4. n \in Dirs
        BY DEF Dirs
      <3>5. \A i \in 1..Len(open') : i \in 1..m \/ (i = m + 1 /\ i = Len(open'))
        BY <2>2, <2>3
      <3> QED
        BY <2>2, <3>1, <3>2, <3>3, <3>4, <3>5, NewScan, SameTree DEF ScanTyped, StackShape
    <2> QED
      BY <2>2, <2>4, SameTree DEF ScanTyped
  <1>5. CASE DirectoryDone
    <2>1. /\ UNCHANGED <<tree, there, scan, throughout, ever>> /\ at = "scanning"
          /\ Returns \/ HandsUp
      BY <1>5, DoneDoes
    <2>2. CASE Returns
      <3>1. at' = "returned" /\ open' = <<>> /\ found' \in Seq(Nodes)
        BY <2>2 DEF Returns
      <3> QED
        BY <2>1, <3>1, EmptySeq DEF ScanTyped, StackShape, Phases
    <2>3. CASE HandsUp
      <3> DEFINE m == Len(open)
      <3>1. /\ m > 1 /\ UNCHANGED <<at, found>>
            /\ open' \in Seq(Frames) /\ Len(open') = m - 1
            /\ \A i \in 1..(m - 1) : i # m - 1 => open'[i] = open[i]
            /\ open'[m - 1].dir = open[m - 1].dir /\ open'[m - 1].opened = open[m - 1].opened
            /\ ~Lists => open'[m - 1].dirs = <<>> /\ open'[m - 1].files = <<>>
        BY <2>3 DEF HandsUp
      <3>2. m \in Nat \ {0}
        BY <2>1, StackFacts
      <3>3. 1 \in 1..(m - 1) /\ (\A i \in 1..(m - 1) : i \in 1..m /\ i < m) /\ m - 1 \in Nat \ {0}
        BY <3>1, <3>2
      <3>4. StackShape'
        <4>1. open' # <<>>
          BY <3>1, <3>3, EmptySeq
        <4>2. open'[1].dir = BaseDir
          BY <2>1, <3>1, <3>3 DEF ScanTyped, StackShape
        <4>3. \A i \in 1..(m - 1) : /\ open'[i].opened
                                    /\ ~Lists => open'[i].dirs = <<>> /\ open'[i].files = <<>>
          BY <3>1, <3>3 DEF ScanTyped, StackShape
        <4> QED
          BY <2>1, <3>1, <4>1, <4>2, <4>3, SameTree DEF ScanTyped, StackShape
      <3> QED
        BY <2>1, <3>1, <3>4, SameTree DEF ScanTyped
    <2> QED
      BY <2>1, <2>2, <2>3
  <1>6. ASSUME NEW k \in Dirs, EntryRemoved(k) \/ EntryMade(k)
        PROVE  ScanTyped'
    <2>1. UNCHANGED <<tree, scan, at, open, found>> /\ at = "scanning" /\ (Lists' <=> Lists)
      BY <1>6, TreeChanges, ChangedTree
    <2>2. StackShape'
      BY <2>1 DEF ScanTyped, StackShape
    <2> QED
      BY <1>6, <2>1, <2>2, TreeChanges DEF ScanTyped
  <1>7. CASE UNCHANGED dirVars
    BY <1>7 DEF dirVars, ScanTyped, StackShape, Lists
  <1> QED
    BY <1>1, <1>2, <1>3, <1>4, <1>5, <1>6, <1>7 DEF DirNext, ScanStep, Dirs

-----------------------------------------------------------------------------
(* Nothing that never was                                                   *)

\* A generator yields what is wanted when it comes to it; what recursive_dir_content
\* collects was wanted when it was listed.
LEMMA TakenIsWanted ==
  /\ \A n : Yields(n) => Wanted(n)
  /\ ~Lists => \A n : Wanted(n) => Yields(n)
  /\ Lists => \A n : Wanted(n) <=> IsDir(n) \/ (tree.kind[n] = "file" /\ Selected(n))
  BY DEF Yields, Wanted, Lists

LEMMA KnownBegins == DirInit => Known
  <1> SUFFICES ASSUME DirInit
               PROVE  Known
    OBVIOUS
  <1>1. open = <<>> /\ found = <<>> /\ Len(<<>>) = 0
    BY DEF DirInit
  <1> QED
    BY <1>1, EmptyHasNone DEF Known

LEMMA KnownKeeps ==
  ASSUME ScanTyped, ScanTyped', Known, [DirNext]_dirVars
  PROVE  Known'
  <1>1. CASE Begin
    <2>1. UNCHANGED <<tree, there, scan, found, throughout, ever>> /\ found = <<>>
      BY <1>1, BeginDoes
    <2>2. \/ Len(open') = 0
          \/ /\ Len(open') = 1 /\ open'[1].todo = <<>>
             /\ open'[1].dirs = <<>> /\ open'[1].files = <<>>
      BY <1>1, BeginDoes, NewScan, EmptySeq DEF Dirs
    <2> QED
      BY <2>1, <2>2, EmptyHasNone DEF Known
  <1>2. CASE ScandirRaises
    <2>1. UNCHANGED <<tree, there, scan, found, throughout, ever>> /\ open' = <<>>
      BY <1>2 DEF ScandirRaises
    <2>2. Len(open') = 0
      BY <2>1, EmptySeq
    <2> QED
      BY <2>1, <2>2, SameTree DEF Known
  <1>3. CASE Scandir
    <2> DEFINE m == Len(open)
               d == open[m].dir
    <2>1. /\ UNCHANGED <<tree, there, scan, at, found, throughout, ever>>
          /\ Len(open') = m /\ \A i \in 1..m : i # m => open'[i] = open[i]
          /\ Lists => \A n : /\ In(n, open'[m].todo) <=> n \in DirsIn(d)
                             /\ In(n, open'[m].dirs) <=> n \in DirsIn(d)
                             /\ In(n, open'[m].files) <=> n \in FilesIn(d)
          /\ ~Lists => /\ \A n : In(n, open'[m].todo) <=> n \in Listed(d)
                       /\ open'[m].dirs = <<>> /\ open'[m].files = <<>>
      BY <1>3, ScandirDoes
    <2>2. \A n : /\ n \in Listed(d) => n \in ever
                 /\ n \in DirsIn(d) => n \in ever /\ IsDir(n)
                 /\ n \in FilesIn(d) => n \in ever /\ tree.kind[n] = "file" /\ Selected(n)
      BY DEF Listed, DirsIn, FilesIn, ScanTyped
    <2>3. Lists => \A n : n \in DirsIn(d) \/ n \in FilesIn(d) => Sure(n)
      BY <2>2, TakenIsWanted DEF Sure
    <2>4. \A n : /\ In(n, open'[m].dirs) \/ In(n, open'[m].files) => Sure(n)
                 /\ In(n, open'[m].todo) => n \in ever
      BY <2>1, <2>2, <2>3, EmptyHasNone
    <2> QED
      BY <2>1, <2>4, SameTree DEF Known
  <1>4. CASE Visit
    <2> DEFINE m == Len(open)
    <2>1. PICK n \in Nodes : VisitOf(n)
      BY <1>4, VisitDoes
    <2>2. m \in 1..m /\ m \in Nat
      BY <2>1, StackFacts DEF VisitOf
    <2>3. n \in Dirs /\ n \in ever
      BY <2>1, <2>2 DEF VisitOf, Known, Dirs
    <2>4. \A x : In(x, found') => In(x, found) \/ (x = n /\ Sure(n))
      BY <2>1, <2>3, TakenIsWanted DEF VisitOf, Sure
    <2>5. \A i \in 1..m : \A x :
             /\ In(x, open'[i].dirs) \/ In(x, open'[i].files) =>
                  In(x, open[i].dirs) \/ In(x, open[i].files)
             /\ In(x, open'[i].todo) => In(x, open[i].todo)
      BY <2>1 DEF VisitOf
    <2>6. \A i \in 1..Len(open') :
            i \in 1..m \/ (open'[i].todo = <<>> /\ open'[i].dirs = <<>> /\ open'[i].files = <<>>)
      BY <2>1, <2>2, <2>3, NewScan DEF VisitOf
    <2>7. UNCHANGED <<tree, there, scan, throughout, ever>>
      BY <2>1 DEF VisitOf
    <2> QED
      BY <2>4, <2>5, <2>6, <2>7, SameTree, EmptyHasNone DEF Known
  <1>5. CASE DirectoryDone
    <2> DEFINE m == Len(open)
    <2>1. /\ UNCHANGED <<tree, there, scan, throughout, ever>> /\ at = "scanning"
          /\ Returns \/ HandsUp
      BY <1>5, DoneDoes
    <2>2. m \in 1..m /\ m \in Nat
      BY <2>1, StackFacts
    <2>3. CASE Returns
      <3>1. Len(open') = 0 /\ m = 1
        BY <2>3, EmptySeq DEF Returns
      <3>2. \A x : In(x, found') => In(x, found) \/ In(x, open[1].dirs) \/ In(x, open[1].files)
        BY <2>3 DEF Returns
      <3> QED
        BY <2>1, <2>2, <3>1, <3>2, SameTree DEF Known
    <2>4. CASE HandsUp
      <3>1. /\ found' = found /\ Len(open') = m - 1 /\ m > 1
            /\ \A i \in 1..(m - 1) : i # m - 1 => open'[i] = open[i]
            /\ \A x : /\ In(x, open'[m - 1].todo) => In(x, open[m - 1].todo) \/ In(x, open[m].dirs)
                      /\ In(x, open'[m - 1].dirs) => In(x, open[m - 1].dirs) \/ In(x, open[m].dirs)
                      /\ In(x, open'[m - 1].files) => In(x, open[m - 1].files) \/ In(x, open[m].files)
        BY <2>4 DEF HandsUp
      <3>2. \A i \in 1..(m - 1) : i \in 1..m /\ (i = m - 1 => m - 1 \in 1..m)
        BY <2>2
      <3>3. \A n \in Nodes : Sure(n) => n \in ever
        BY DEF Sure
      <3> QED
        BY <2>1, <2>2, <3>1, <3>2, <3>3, SameTree DEF Known
    <2> QED
      BY <2>1, <2>3, <2>4
  <1>6. ASSUME NEW k \in Dirs, EntryRemoved(k) \/ EntryMade(k)
        PROVE  Known'
    BY <1>6, TreeChanges, ChangedTree DEF Known
  <1>7. CASE UNCHANGED dirVars
    BY <1>7, SameTree DEF dirVars, Known
  <1> QED
    BY <1>1, <1>2, <1>3, <1>4, <1>5, <1>6, <1>7 DEF DirNext, ScanStep, Dirs

-----------------------------------------------------------------------------
(* Nothing is missed                                                        *)

\* By the least node whose directory has not been read: there is none.
LEMMA AllRead ==
  ASSUME ScanTyped, NEW read \in SUBSET Dirs, BaseDir \in read,
         \A n \in Nodes \cap throughout : tree.place[n] \in read /\ IsDir(n) => n \in read
  PROVE  \A n \in Nodes \cap throughout : tree.place[n] \in read
  <1> DEFINE missed == {n \in Nodes \cap throughout : tree.place[n] \notin read}
  <1> SUFFICES ASSUME missed # {}
               PROVE  FALSE
    OBVIOUS
  <1>1. missed \in SUBSET Nat
    BY NodesAreNumbers
  <1>2. PICK n \in missed : \A k \in missed : n <= k
    BY <1>1, Least
  <1> DEFINE p == tree.place[n]
  <1>3. n \in Nodes /\ n \in throughout /\ p \notin read
    BY <1>2
  <1>4. /\ p \in Nat /\ p \in Dirs /\ p < n /\ p # BaseDir
        /\ p \in Nodes => tree.kind[p] = "dir"
    BY <1>3, TreeFacts
  <1>5. p \in Nodes /\ p \in throughout /\ IsDir(p)
    BY <1>3, <1>4 DEF Dirs, ScanTyped, IsDir
  <1>6. p \notin missed
    BY <1>1, <1>2, <1>4
  <1>7. tree.place[p] \in read
    BY <1>5, <1>6
  <1> QED
    BY <1>3, <1>5, <1>7

LEMMA BaseIsThere ==
  ASSUME ScanTyped, NEW n \in Nodes \cap throughout
  PROVE  BaseDir \in throughout
  <1> DEFINE kept == Nodes \cap throughout
  <1>1. kept \in SUBSET Nat /\ kept # {}
    BY NodesAreNumbers
  <1>2. PICK k \in kept : \A l \in kept : k <= l
    BY <1>1, Least
  <1>3. /\ tree.place[k] \in throughout /\ tree.place[k] \in Nat /\ tree.place[k] \in Dirs
        /\ tree.place[k] < k
    BY <1>2, TreeFacts DEF ScanTyped
  <1>4. tree.place[k] \notin kept
    BY <1>1, <1>2, <1>3
  <1> QED
    BY <1>3, <1>4 DEF Dirs

LEMMA CoverBegins == DirInit => Covered /\ Complete
  BY DEF DirInit, Covered, Complete

LEMMA CoverKeeps ==
  ASSUME ScanTyped, ScanTyped', Covered, Complete, [DirNext]_dirVars
  PROVE  Covered' /\ Complete'
  <1>1. CASE Begin
    <2>1. /\ UNCHANGED <<tree, there, scan, found, throughout, ever>> /\ throughout = there
          /\ \/ at' = "returned" /\ BaseDir \notin there
             \/ at' = "scanning" /\ Len(open') = 1 /\ open'[1] = ScanOf(BaseDir)
      BY <1>1, BeginDoes
    <2>2. CASE at' = "returned" /\ BaseDir \notin there
      <3>1. Nodes \cap throughout = {}
        BY <2>1, <2>2, BaseIsThere
      <3> QED
        BY <2>1, <2>2, <3>1 DEF Covered, Complete
    <2>3. CASE at' = "scanning" /\ Len(open') = 1 /\ open'[1] = ScanOf(BaseDir)
      <3>1. Awaited(BaseDir)'
        BY <2>3, NewScan DEF Awaited, Dirs
      <3>2. CoveredBy({})'
        BY <3>1 DEF CoveredBy
      <3> QED
        BY <2>3, <3>2 DEF Covered, Complete
    <2> QED
      BY <2>1, <2>2, <2>3
  <1>2. CASE ScandirRaises
    BY <1>2 DEF ScandirRaises, Covered, Complete
  <1>3. CASE Scandir
    <2> DEFINE m == Len(open)
               d == open[m].dir
               f == open'[m]
    <2>1. /\ UNCHANGED <<tree, there, scan, at, found, throughout, ever>> /\ at = "scanning"
          /\ Len(open') = m /\ \A i \in 1..m : i # m => open'[i] = open[i]
          /\ open[m].todo = <<>> /\ open[m].dirs = <<>> /\ open[m].files = <<>>
          /\ f.dir = d /\ f.opened /\ ~open[m].opened
          /\ Lists => \A n : /\ In(n, f.todo) <=> n \in DirsIn(d)
                             /\ In(n, f.dirs) <=> n \in DirsIn(d)
                             /\ In(n, f.files) <=> n \in FilesIn(d)
          /\ ~Lists => \A n : In(n, f.todo) <=> n \in Listed(d)
      BY <1>3, ScandirDoes
    <2>2. m \in 1..m /\ d \in Dirs
      BY <2>1, StackFacts, FrameParts
    <2>3. PICK read \in SUBSET Dirs : CoveredBy(read)
      BY <2>1 DEF Covered
    <2>4. \A n : /\ Taken(n) => Taken(n)'
                 /\ Ahead(n) => Ahead(n)'
                 /\ Awaited(n) => Awaited(n)' \/ n = d
      <3>1. \A i \in 1..m : \A n :
               /\ In(n, open[i].todo) => In(n, open'[i].todo)
               /\ In(n, open[i].dirs) => In(n, open'[i].dirs)
               /\ In(n, open[i].files) => In(n, open'[i].files)
               /\ open[i].dir = n /\ ~open[i].opened => (open'[i].dir = n /\ ~open'[i].opened) \/ n = d
        BY <2>1, EmptyHasNone
      <3> QED
        BY <2>1, <3>1 DEF Taken, Ahead, Awaited
    <2>5. \A n \in Nodes \cap throughout : tree.place[n] = d =>
             /\ Wanted(n) => Taken(n)' \/ (~Lists /\ Ahead(n)')
             /\ IsDir(n) => Ahead(n)'
      <3> SUFFICES ASSUME NEW n \in Nodes \cap throughout, tree.place[n] = d
                   PROVE  /\ Wanted(n) => Taken(n)' \/ (~Lists /\ Ahead(n)')
                          /\ IsDir(n) => Ahead(n)'
        OBVIOUS
      <3>1. n \in Listed(d)
        BY DEF Listed, Children, ScanTyped
      <3>2. In(n, f.todo) => Ahead(n)'
        BY <2>1, <2>2 DEF Ahead
      <3>3. In(n, f.dirs) \/ In(n, f.files) => Taken(n)'
        BY <2>1, <2>2 DEF Taken
      <3>4. CASE Lists
        <4>1. /\ IsDir(n) => In(n, f.todo) /\ In(n, f.dirs)
              /\ tree.kind[n] = "file" /\ Selected(n) => In(n, f.files)
          BY <2>1, <3>1, <3>4 DEF DirsIn, FilesIn
        <4> QED
          BY <3>2, <3>3, <3>4, <4>1, TakenIsWanted
      <3>5. CASE ~Lists
        BY <2>1, <3>1, <3>2, <3>5
      <3> QED
        BY <3>4, <3>5
    <2>6. CoveredBy(read \cup {d})'
      <3>1. BaseDir \in read \cup {d} \/ Awaited(BaseDir)'
        BY <2>3, <2>4 DEF CoveredBy
      <3>2. ASSUME NEW n \in Nodes \cap throughout, tree.place[n] \in read \cup {d}
            PROVE  /\ Wanted(n) => Taken(n)' \/ (~Lists /\ Ahead(n)')
                   /\ IsDir(n) => n \in read \cup {d} \/ Ahead(n)' \/ Awaited(n)'
        <4>1. CASE tree.place[n] = d
          BY <2>5, <4>1
        <4>2. CASE tree.place[n] \in read
          BY <2>3, <2>4, <4>2 DEF CoveredBy
        <4> QED
          BY <3>2, <4>1, <4>2
      <3> QED
        BY <2>1, <3>1, <3>2, SameTree DEF CoveredBy
    <2>7. read \cup {d} \in SUBSET Dirs
      BY <2>2
    <2> QED
      BY <2>1, <2>6, <2>7 DEF Covered, Complete
  <1>4. CASE Visit
    <2> DEFINE m == Len(open)
    <2>1. PICK n \in Nodes : VisitOf(n)
      BY <1>4, VisitDoes
    <2>2. at = "scanning" /\ at' = "scanning" /\ UNCHANGED <<tree, there, scan, throughout, ever>>
      BY <2>1 DEF VisitOf
    <2>3. m \in 1..m /\ m \in Nat
      BY <2>2, StackFacts
    <2>4. PICK read \in SUBSET Dirs : CoveredBy(read)
      BY <2>2 DEF Covered
    <2>5. Len(open') \in Nat /\ (\A i \in 1..m : i \in 1..Len(open'))
      BY <2>1, <2>3 DEF VisitOf
    <2>6. \A x : /\ Taken(x) => Taken(x)'
                 /\ Awaited(x) => Awaited(x)'
                 /\ Ahead(x) /\ x # n => Ahead(x)'
      <3>1. /\ open[m].opened /\ open'[m].opened
            /\ open'[m].dirs = open[m].dirs /\ open'[m].files = open[m].files
            /\ \A i \in 1..m : i # m => open'[i] = open[i]
            /\ \A x : In(x, open[m].todo) /\ x # n => In(x, open'[m].todo)
            /\ \A x : In(x, found) => In(x, found')
        BY <2>1 DEF VisitOf
      <3>2. \A i \in 1..m : \A x :
               /\ In(x, open[i].todo) /\ x # n => In(x, open'[i].todo)
               /\ In(x, open[i].dirs) => In(x, open'[i].dirs)
               /\ In(x, open[i].files) => In(x, open'[i].files)
               /\ open[i].dir = x /\ ~open[i].opened => open'[i].dir = x /\ ~open'[i].opened
        BY <3>1
      <3> QED
        BY <2>5, <3>1, <3>2 DEF Taken, Ahead, Awaited
    <2>7. Lists \/ IsDir(n) => Awaited(n)'
      <3>1. n \in Dirs
        BY DEF Dirs
      <3>2. Lists \/ IsDir(n) => /\ m + 1 \in 1..Len(open')
                                 /\ open'[m + 1] = ScanOf(n)
        BY <2>1, <2>3 DEF VisitOf
      <3> QED
        BY <3>1, <3>2, NewScan DEF Awaited
    <2>8. ~Lists /\ Wanted(n) => Taken(n)'
      BY <2>1, TakenIsWanted DEF VisitOf, Taken
    <2>9. CoveredBy(read)'
      <3>1. BaseDir \in read \/ Awaited(BaseDir)'
        BY <2>4, <2>6 DEF CoveredBy
      <3>2. \A k \in Nodes \cap throughout : tree.place[k] \in read =>
               /\ Wanted(k) => Taken(k)' \/ (~Lists /\ Ahead(k)')
               /\ IsDir(k) => k \in read \/ Ahead(k)' \/ Awaited(k)'
        BY <2>4, <2>6, <2>7, <2>8 DEF CoveredBy
      <3> QED
        BY <2>2, <3>1, <3>2, SameTree DEF CoveredBy
    <2> QED
      BY <2>2, <2>9 DEF Covered, Complete
  <1>5. CASE DirectoryDone
    <2> DEFINE m == Len(open)
    <2>1. /\ UNCHANGED <<tree, there, scan, throughout, ever>> /\ at = "scanning"
          /\ open[m].opened /\ open[m].todo = <<>>
          /\ Returns \/ HandsUp
      BY <1>5, DoneDoes
    <2>2. m \in 1..m /\ m \in Nat
      BY <2>1, StackFacts
    <2>3. PICK read \in SUBSET Dirs : CoveredBy(read)
      BY <2>1 DEF Covered
    <2>4. CASE Returns
      <3>1. /\ m = 1 /\ at' = "returned"
            /\ \A x : In(x, found') <=> In(x, found) \/ In(x, open[1].dirs) \/ In(x, open[1].files)
        BY <2>4 DEF Returns
      <3>2. \A x : ~Ahead(x) /\ ~Awaited(x) /\ (Taken(x) => In(x, found'))
        BY <2>1, <3>1, EmptyHasNone DEF Ahead, Awaited, Taken
      <3>3. \A n \in Nodes \cap throughout : tree.place[n] \in read
        <4>1. BaseDir \in read
          BY <2>3, <3>2 DEF CoveredBy
        <4>2. \A n \in Nodes \cap throughout : tree.place[n] \in read /\ IsDir(n) => n \in read
          BY <2>3, <3>2 DEF CoveredBy
        <4> QED
          BY <4>1, <4>2, AllRead
      <3>4. \A n \in Nodes \cap throughout : Wanted(n) => In(n, found')
        BY <2>3, <3>2, <3>3 DEF CoveredBy
      <3> QED
        BY <2>1, <3>1, <3>4, SameTree DEF Covered, Complete
    <2>5. CASE HandsUp
      <3>1. /\ found' = found /\ at' = at /\ Len(open') = m - 1 /\ m > 1
            /\ \A i \in 1..(m - 1) : i # m - 1 => open'[i] = open[i]
            /\ open'[m - 1].dir = open[m - 1].dir /\ open'[m - 1].opened = open[m - 1].opened
            /\ \A x : /\ In(x, open'[m - 1].todo) <=> In(x, open[m - 1].todo) \/ In(x, open[m].dirs)
                      /\ In(x, open'[m - 1].dirs) <=> In(x, open[m - 1].dirs) \/ In(x, open[m].dirs)
                      /\ In(x, open'[m - 1].files) <=> In(x, open[m - 1].files) \/ In(x, open[m].files)
        BY <2>5 DEF HandsUp
      <3>2. m - 1 \in 1..(m - 1) /\ \A i \in 1..m : i = m \/ i \in 1..(m - 1)
        BY <2>2, <3>1
      <3>3. \A i \in 1..(m - 1) : \A x :
               /\ In(x, open[i].todo) => In(x, open'[i].todo)
               /\ In(x, open[i].dirs) => In(x, open'[i].dirs)
               /\ In(x, open[i].files) => In(x, open'[i].files)
               /\ open[i].dir = x /\ ~open[i].opened => open'[i].dir = x /\ ~open'[i].opened
        BY <3>1
      <3>4. \A x : /\ In(x, open[m].dirs) => In(x, open'[m - 1].dirs)
                   /\ In(x, open[m].files) => In(x, open'[m - 1].files)
                   /\ ~In(x, open[m].todo)
        BY <2>1, <3>1, EmptyHasNone
      <3>5. \A x : /\ Taken(x) => Taken(x)'
                   /\ Ahead(x) => Ahead(x)'
                   /\ Awaited(x) => Awaited(x)'
        <4>1. \A x : Taken(x) => Taken(x)'
          BY <3>1, <3>2, <3>3, <3>4 DEF Taken
        <4>2. \A x : Ahead(x) => Ahead(x)'
          BY <3>1, <3>2, <3>3, <3>4 DEF Ahead
        <4>3. \A x : Awaited(x) => Awaited(x)'
          BY <2>1, <3>1, <3>2, <3>3 DEF Awaited
        <4> QED
          BY <4>1, <4>2, <4>3
      <3>6. CoveredBy(read)'
        BY <2>1, <2>3, <3>5, SameTree DEF CoveredBy
      <3> QED
        BY <2>1, <3>1, <3>6 DEF Covered, Complete
    <2> QED
      BY <2>1, <2>4, <2>5
  <1>6. ASSUME NEW k \in Dirs, EntryRemoved(k) \/ EntryMade(k)
        PROVE  Covered' /\ Complete'
    <2>1. /\ UNCHANGED <<tree, scan, at, open, found>> /\ at = "scanning"
          /\ throughout' \subseteq throughout /\ (Lists' <=> Lists)
          /\ \A n \in throughout' : (IsDir(n)' <=> IsDir(n)) /\ (Wanted(n)' <=> Wanted(n))
      BY <1>6, TreeChanges, ChangedTree
    <2>2. PICK read \in SUBSET Dirs : CoveredBy(read)
      BY <2>1 DEF Covered
    <2>3. \A x : /\ Taken(x)' <=> Taken(x)
                 /\ Ahead(x)' <=> Ahead(x)
                 /\ Awaited(x)' <=> Awaited(x)
      BY <2>1 DEF Taken, Ahead, Awaited
    <2>4. CoveredBy(read)'
      BY <2>1, <2>2, <2>3 DEF CoveredBy
    <2> QED
      BY <2>1, <2>4 DEF Covered, Complete
  <1>7. CASE UNCHANGED dirVars
    <2>1. /\ UNCHANGED <<tree, there, scan, throughout, ever>> /\ UNCHANGED <<at, open, found>>
      BY <1>7 DEF dirVars
    <2>2. \A x : /\ Taken(x)' <=> Taken(x)
                 /\ Ahead(x)' <=> Ahead(x)
                 /\ Awaited(x)' <=> Awaited(x)
      BY <2>1 DEF Taken, Ahead, Awaited
    <2>3. \A read : CoveredBy(read)' <=> CoveredBy(read)
      BY <2>1, <2>2, SameTree DEF CoveredBy
    <2> QED
      BY <2>1, <2>3, SameTree DEF Covered, Complete
  <1> QED
    BY <1>1, <1>2, <1>3, <1>4, <1>5, <1>6, <1>7 DEF DirNext, ScanStep, Dirs

-----------------------------------------------------------------------------
(* Once each, for the generators                                            *)

LEMMA OnceBegins == DirInit => OnceEach
  BY DEF DirInit, OnceEach

LEMMA OnceKeeps ==
  ASSUME ScanTyped, ScanTyped', OnceEach, [DirNext]_dirVars
  PROVE  OnceEach'
  <1>1. CASE Begin
    <2>1. /\ UNCHANGED <<tree, there, scan, found, throughout, ever>> /\ found = <<>>
          /\ \/ at' = "returned" /\ open' = <<>>
             \/ at' = "scanning" /\ Len(open') = 1 /\ open'[1] = ScanOf(BaseDir)
      BY <1>1, BeginDoes
    <2>2. CASE at' = "returned"
      BY <2>1, <2>2, EmptyHasNone DEF OnceEach
    <2>3. CASE at' = "scanning" /\ Len(open') = 1 /\ open'[1] = ScanOf(BaseDir)
      <3>1. open'[1].dir = BaseDir /\ open'[1].todo = <<>>
        BY <2>3, NewScan DEF Dirs
      <3>2. \A n : /\ ~Ahead(n)'
                   /\ Awaited(n)' => n = BaseDir
        BY <2>3, <3>1, EmptyHasNone DEF Ahead, Awaited
      <3>3. \A n \in Nodes : n # BaseDir
        BY NodesAreNumbers
      <3>4. OnceBy({})'
        BY <2>1, <2>3, <3>1, <3>2, <3>3, EmptyHasNone DEF OnceBy
      <3> QED
        BY <2>3, <3>4 DEF OnceEach
    <2> QED
      BY <2>1, <2>2, <2>3
  <1>2. CASE ScandirRaises
    BY <1>2 DEF ScandirRaises, OnceEach
  <1>3. CASE Scandir
    <2> SUFFICES ASSUME ~Lists'
                 PROVE  /\ at' = "scanning" => \E read \in SUBSET Dirs : OnceBy(read)'
                        /\ at' = "returned" => \A n \in Nodes : Once(n, found')
      BY DEF OnceEach
    <2> DEFINE m == Len(open)
               f == open'[m]
    <2>0. PICK d \in Dirs : d = open[m].dir
      BY <1>3, StackFacts, FrameParts DEF Scandir
    <2>1. /\ UNCHANGED <<tree, there, scan, at, found, throughout, ever>> /\ at = "scanning"
          /\ Len(open') = m /\ \A i \in 1..m : i # m => open'[i] = open[i]
          /\ f.dir = d /\ f.opened /\ ~open[m].opened /\ open[m].todo = <<>>
          /\ \A n : Once(n, f.todo)
          /\ ~Lists => \A n : In(n, f.todo) <=> n \in Listed(d)
      BY <1>3, <2>0, ScandirDoes
    <2>2. m \in 1..m /\ d \in Dirs
      BY <2>1, StackFacts, FrameParts
    <2>3. ~Lists
      BY <2>1, SameTree
    <2>4. PICK read \in SUBSET Dirs : OnceBy(read)
      BY <2>1, <2>3 DEF OnceEach
    <2>5. /\ \A n : In(n, f.todo) <=> n \in Listed(d)
          /\ \A n : n \in Listed(d) => n \in Nodes /\ tree.place[n] = d
      BY <2>1, <2>3 DEF Listed, Children
    <2>6. Awaited(d)
      BY <2>0, <2>1, <2>2 DEF Awaited
    <2>7. \A n : /\ Ahead(n)' <=> Ahead(n) \/ n \in Listed(d)
                 /\ Awaited(n)' => Awaited(n)
      <3>1. \A n : Ahead(n)' => Ahead(n) \/ n \in Listed(d)
        BY <2>1, <2>5 DEF Ahead
      <3>2. \A n : n \in Listed(d) => Ahead(n)'
        BY <2>1, <2>2, <2>5 DEF Ahead
      <3>3. \A n : Ahead(n) => Ahead(n)'
        BY <2>1, EmptyHasNone DEF Ahead
      <3>4. \A n : Awaited(n)' => Awaited(n)
        BY <2>1 DEF Awaited
      <3> QED
        BY <3>1, <3>2, <3>3, <3>4
    <2>8. ~Awaited(d)'
      <3>1. \A i \in 1..m : i # m => open[i].opened
        BY <2>1, <2>2, StackFacts DEF ScanTyped, StackShape
      <3> QED
        BY <2>1, <3>1 DEF Awaited
    <2>9. d \notin read
      BY <2>2, <2>4, <2>6 DEF OnceBy
    <2>10. \A n \in Nodes : n \in Listed(d) =>
             ~Ahead(n) /\ ~In(n, found) /\ n \notin read /\ ~Awaited(n) /\ n # d
      <3>1. \A n \in Nodes : tree.place[n] # n
        BY TreeFacts, NodesAreNumbers
      <3> QED
        BY <2>4, <2>5, <2>9, <3>1 DEF OnceBy
    <2>11. OnceBy(read \cup {d})'
      <3>1. \A n \in Nodes : In(n, found') \/ Ahead(n)' \/ Awaited(n)' \/ n \in read \cup {d} =>
              tree'.place[n] \in read \cup {d}
        <4>1. \A n \in Nodes : In(n, found) \/ Ahead(n) \/ Awaited(n) \/ n \in read => tree.place[n] \in read
          BY <2>4 DEF OnceBy
        <4>2. \A n \in Nodes : In(n, found') \/ Awaited(n)' \/ n \in read \cup {d} =>
                In(n, found) \/ Awaited(n) \/ n \in read
          BY <2>1, <2>6, <2>7
        <4>3. \A n \in Nodes : Ahead(n)' => Ahead(n) \/ tree.place[n] = d
          BY <2>5, <2>7
        <4>4. tree' = tree
          BY <2>1
        <4> QED
          BY <4>1, <4>2, <4>3, <4>4
      <3>2. \A n \in Dirs : n \in read \cup {d} => ~Awaited(n)'
        BY <2>4, <2>7, <2>8 DEF OnceBy
      <3>3. \A n \in Nodes : n \in read \cup {d} \/ Awaited(n)' \/ In(n, found') => ~Ahead(n)'
        BY <2>1, <2>4, <2>6, <2>7, <2>10 DEF OnceBy
      <3>4. \A n \in Nodes : Once(n, found')
        BY <2>1, <2>4 DEF OnceBy
      <3>5. ASSUME NEW n \in Nodes, NEW i \in 1..m, NEW j \in 1..m
            PROVE  /\ Once(n, open'[i].todo)
                   /\ In(n, open'[i].todo) /\ In(n, open'[j].todo) => i = j
        <4>1. \A k \in 1..m : k # m => /\ Once(n, open[k].todo) /\ open'[k] = open[k]
                                       /\ In(n, open[k].todo) => Ahead(n)
          BY <2>1, <2>4 DEF OnceBy, Ahead
        <4>2. In(n, open'[m].todo) => ~Ahead(n)
          BY <2>5, <2>10
        <4>3. In(n, open[i].todo) /\ In(n, open[j].todo) => i = j
          BY <2>4 DEF OnceBy
        <4> QED
          BY <2>1, <4>1, <4>2, <4>3
      <3> QED
        BY <2>1, <3>1, <3>2, <3>3, <3>4, <3>5 DEF OnceBy
    <2>12. read \cup {d} \in SUBSET Dirs
      BY <2>2
    <2> QED
      BY <2>1, <2>11, <2>12
  <1>4. CASE Visit
    <2> SUFFICES ASSUME ~Lists'
                 PROVE  /\ at' = "scanning" => \E read \in SUBSET Dirs : OnceBy(read)'
                        /\ at' = "returned" => \A n \in Nodes : Once(n, found')
      BY DEF OnceEach
    <2> DEFINE m == Len(open)
    <2>1. PICK n \in Nodes : VisitOf(n)
      BY <1>4, VisitDoes
    <2>2. at = "scanning" /\ at' = "scanning" /\ UNCHANGED <<tree, there, scan, throughout, ever>>
      BY <2>1 DEF VisitOf
    <2>3. m \in 1..m /\ m \in Nat /\ ~Lists
      BY <2>2, StackFacts, SameTree
    <2>4. PICK read \in SUBSET Dirs : OnceBy(read)
      BY <2>2, <2>3 DEF OnceEach
    <2>5. /\ In(n, open[m].todo) /\ open[m].opened /\ open'[m].opened
          /\ \A i \in 1..m : i # m => open'[i] = open[i]
          /\ \A x : /\ In(x, open'[m].todo) => In(x, open[m].todo)
                    /\ Once(x, open[m].todo) => Once(x, open'[m].todo) /\ (x = n => ~In(x, open'[m].todo))
                    /\ In(x, found') => In(x, found) \/ x = n
                    /\ Once(x, found) /\ ~(x = n /\ In(n, found)) => Once(x, found')
      BY <2>1 DEF VisitOf
    <2>6. \A i \in 1..Len(open') :
            i \in 1..m \/ (open'[i].todo = <<>> /\ open'[i].dir = n)
      <3>1. n \in Dirs
        BY DEF Dirs
      <3>2. Len(open') = m \/ (Len(open') = m + 1 /\ open'[m + 1] = ScanOf(n))
        BY <2>1 DEF VisitOf
      <3> QED
        BY <2>3, <3>1, <3>2, NewScan
    <2>7. Ahead(n)
      BY <2>3, <2>5 DEF Ahead
    <2>8. n \in Dirs /\ n \notin read /\ ~In(n, found) /\ ~Awaited(n) /\ tree.place[n] \in read
      BY <2>4, <2>7 DEF OnceBy, Dirs
    <2>9. \A i \in 1..m : \A x : In(x, open'[i].todo) => In(x, open[i].todo)
      BY <2>5
    <2>10. \A x : /\ Ahead(x)' => Ahead(x)
                  /\ Awaited(x)' => Awaited(x) \/ x = n
      <3>1. \A i \in 1..m : \A x :
               open'[i].dir = x /\ ~open'[i].opened => open[i].dir = x /\ ~open[i].opened
        BY <2>5
      <3> QED
        BY <2>6, <2>9, <3>1, EmptyHasNone DEF Ahead, Awaited
    <2>11. ~Ahead(n)'
      <3>1. \A i \in 1..m : ~In(n, open'[i].todo)
        <4>1. \A i \in 1..m : i # m => ~In(n, open[i].todo)
          BY <2>3, <2>4, <2>5 DEF OnceBy
        <4>2. ~In(n, open'[m].todo)
          BY <2>3, <2>4, <2>5 DEF OnceBy
        <4> QED
          BY <2>5, <4>1, <4>2
      <3> QED
        BY <2>6, <3>1, EmptyHasNone DEF Ahead
    <2>12. OnceBy(read)'
      <3>1. \A x \in Nodes : In(x, found') \/ Ahead(x)' \/ Awaited(x)' \/ x \in read =>
              tree'.place[x] \in read
        BY <2>2, <2>4, <2>5, <2>8, <2>10 DEF OnceBy
      <3>2. \A x \in Dirs : x \in read => ~Awaited(x)'
        BY <2>4, <2>8, <2>10 DEF OnceBy
      <3>3. \A x \in Nodes : x \in read \/ Awaited(x)' \/ In(x, found') => ~Ahead(x)'
        BY <2>4, <2>5, <2>10, <2>11 DEF OnceBy
      <3>4. \A x \in Nodes : Once(x, found')
        BY <2>4, <2>5, <2>8 DEF OnceBy
      <3>5. ASSUME NEW x \in Nodes, NEW i \in 1..Len(open'), NEW j \in 1..Len(open')
            PROVE  /\ Once(x, open'[i].todo)
                   /\ In(x, open'[i].todo) /\ In(x, open'[j].todo) => i = j
        <4>1. i \in 1..m => Once(x, open'[i].todo)
          BY <2>3, <2>4, <2>5 DEF OnceBy
        <4>2. In(x, open'[i].todo) => i \in 1..m /\ In(x, open[i].todo)
          BY <2>6, <2>9, EmptyHasNone
        <4>3. In(x, open'[j].todo) => j \in 1..m /\ In(x, open[j].todo)
          BY <2>6, <2>9, EmptyHasNone
        <4>4. i \in 1..m /\ j \in 1..m /\ In(x, open[i].todo) /\ In(x, open[j].todo) => i = j
          BY <2>4 DEF OnceBy
        <4> QED
          BY <2>6, <4>1, <4>2, <4>3, <4>4, EmptyHasNone
      <3> QED
        BY <3>1, <3>2, <3>3, <3>4, <3>5 DEF OnceBy
    <2> QED
      BY <2>2, <2>12
  <1>5. CASE DirectoryDone
    <2> SUFFICES ASSUME ~Lists'
                 PROVE  /\ at' = "scanning" => \E read \in SUBSET Dirs : OnceBy(read)'
                        /\ at' = "returned" => \A n \in Nodes : Once(n, found')
      BY DEF OnceEach
    <2> DEFINE m == Len(open)
    <2>1. /\ UNCHANGED <<tree, there, scan, throughout, ever>> /\ at = "scanning"
          /\ Returns \/ HandsUp
      BY <1>5, DoneDoes
    <2>2. m \in 1..m /\ m \in Nat /\ ~Lists
      BY <2>1, StackFacts, SameTree
    <2>3. PICK read \in SUBSET Dirs : OnceBy(read)
      BY <2>1, <2>2 DEF OnceEach
    <2>4. CASE Returns
      <3>1. at' = "returned" /\ \A x : Once(x, found) => Once(x, found')
        BY <2>2, <2>4 DEF Returns
      <3> QED
        BY <2>3, <3>1 DEF OnceBy
    <2>5. CASE HandsUp
      <3>1. /\ found' = found /\ at' = at /\ Len(open') = m - 1 /\ m > 1
            /\ \A i \in 1..(m - 1) : i # m - 1 => open'[i] = open[i]
            /\ open'[m - 1].dir = open[m - 1].dir /\ open'[m - 1].opened = open[m - 1].opened
            /\ open'[m - 1].todo = open[m - 1].todo
        BY <2>2, <2>5 DEF HandsUp
      <3>2. \A i \in 1..(m - 1) : /\ i \in 1..m /\ open'[i].dir = open[i].dir
                                  /\ open'[i].opened = open[i].opened /\ open'[i].todo = open[i].todo
        BY <2>2, <3>1
      <3>3. \A x : (Ahead(x)' => Ahead(x)) /\ (Awaited(x)' => Awaited(x))
        BY <3>1, <3>2 DEF Ahead, Awaited
      <3>4. \A n \in Nodes : \A i, j \in 1..Len(open') :
              /\ Once(n, open'[i].todo)
              /\ In(n, open'[i].todo) /\ In(n, open'[j].todo) => i = j
        BY <2>3, <3>1, <3>2 DEF OnceBy
      <3>5. OnceBy(read)'
        BY <2>1, <2>3, <3>1, <3>3, <3>4 DEF OnceBy
      <3> QED
        BY <2>1, <3>1, <3>5
    <2> QED
      BY <2>1, <2>4, <2>5
  <1>6. ASSUME UNCHANGED <<tree, at, open, found>>, Lists' <=> Lists
        PROVE  OnceEach'
    <2>1. \A x : /\ Ahead(x)' <=> Ahead(x)
                 /\ Awaited(x)' <=> Awaited(x)
      BY <1>6 DEF Ahead, Awaited
    <2>2. \A read : OnceBy(read)' <=> OnceBy(read)
      BY <1>6, <2>1 DEF OnceBy
    <2> QED
      BY <1>6, <2>2 DEF OnceEach
  <1>7. ASSUME NEW k \in Dirs, EntryRemoved(k) \/ EntryMade(k)
        PROVE  OnceEach'
    BY <1>6, <1>7, TreeChanges, ChangedTree
  <1>8. CASE UNCHANGED dirVars
    BY <1>6, <1>8, SameTree DEF dirVars
  <1> QED
    BY <1>1, <1>2, <1>3, <1>4, <1>5, <1>7, <1>8 DEF DirNext, ScanStep, Dirs

-----------------------------------------------------------------------------
(* Once each, for the lists                                                 *)

\* What is under a directory that is under another, is under that one, and deeper.
LEMMA UnderUnder ==
  ASSUME ScanTyped, NEW x \in Nodes, NEW e \in Nodes, NEW d \in Dirs, Under(x, e), Under(e, d)
  PROVE  /\ Under(x, d) /\ ~Child(x, d)
         /\ Grandchild(x, d) => Child(x, e)
  <1>1. e \in Nat /\ d \in Nat /\ x \in Nat
    BY NodesAreNumbers
  <1>2. tree.place[e] \in Nat /\ tree.place[e] < e /\ tree.place[x] \in Nat
    BY TreeFacts
  <1>3. tree.place[e] >= d
    <2>1. CASE tree.place[e] = d
      BY <1>1, <2>1
    <2>2. CASE tree.place[e] \in Nodes /\ tree.place[tree.place[e]] >= d
      <3>1. tree.place[tree.place[e]] \in Nat /\ tree.place[tree.place[e]] < tree.place[e]
        BY <2>2, TreeFacts
      <3> QED
        BY <1>1, <1>2, <2>2, <3>1
    <2> QED
      BY <2>1, <2>2 DEF Under, Child
  <1>4. e > d
    BY <1>1, <1>2, <1>3
  <1>5. CASE tree.place[x] = e
    BY <1>1, <1>2, <1>3, <1>4, <1>5 DEF Under, Child
  <1>6. CASE tree.place[x] # e /\ tree.place[x] \in Nodes /\ tree.place[tree.place[x]] >= e
    <2>1. tree.place[tree.place[x]] \in Nat /\ tree.place[tree.place[x]] < tree.place[x]
      BY <1>6, TreeFacts
    <2>2. tree.place[tree.place[x]] > d /\ tree.place[x] > d
      BY <1>1, <1>2, <1>4, <1>6, <2>1
    <2> QED
      BY <1>1, <1>2, <1>6, <2>1, <2>2 DEF Under, Child, Grandchild
  <1> QED
    BY <1>5, <1>6 DEF Under, Child

LEMMA EmptyLevel ==
  ASSUME NEW i, open'[i].todo = <<>>, open'[i].dirs = <<>>, open'[i].files = <<>>
  PROVE  LevelKept(i)'
  BY EmptyHasNone DEF LevelKept

\* A frame that stays as it is, and so does the call it is in.
LEMMA LevelStays ==
  ASSUME UNCHANGED <<tree, there, scan, throughout, ever>>,
         NEW i \in Nat, LevelKept(i), open'[i] = open[i],
         i < Len(open') => i < Len(open) /\ open'[i + 1].dir = open[i + 1].dir
  PROVE  LevelKept(i)'
  BY SameTree DEF LevelKept

LEMMA CallStays ==
  ASSUME UNCHANGED <<tree, there, scan, throughout, ever>>,
         NEW i \in Nat, CallKept(i), open'[i] = open[i], open'[i + 1].dir = open[i + 1].dir
  PROVE  CallKept(i)'
  BY SameTree DEF CallKept

LEMMA LevelsBegin == DirInit => Levels
  <1> SUFFICES ASSUME DirInit
               PROVE  Levels
    OBVIOUS
  <1>1. open = <<>> /\ at = "idle" /\ Len(<<>>) = 0
    BY DEF DirInit
  <1> QED
    BY <1>1 DEF Levels

LEMMA ScandirKeepsLevels ==
  ASSUME ScanTyped, Lists, Levels, Scandir
  PROVE  Levels'
  <1>0. PICK m \in Nat : m = Len(open)
    BY StackFacts DEF Scandir
  <1> DEFINE d == open[m].dir
             f == open'[m]
  <1>1. /\ UNCHANGED <<tree, there, scan, at, found, throughout, ever>> /\ at = "scanning"
        /\ Len(open') = m /\ \A i \in 1..m : i # m => open'[i] = open[i]
        /\ f.dir = d
        /\ \A n : Once(n, f.todo) /\ Once(n, f.dirs) /\ Once(n, f.files)
        /\ \A n : /\ In(n, f.todo) <=> n \in DirsIn(d)
                  /\ In(n, f.dirs) <=> n \in DirsIn(d)
                  /\ In(n, f.files) <=> n \in FilesIn(d)
    BY <1>0, ScandirDoes
  <1>2. m \in 1..m /\ m \in Nat /\ d \in Dirs
    BY <1>0, <1>1, StackFacts, FrameParts
  <1>3. \A n : n \in DirsIn(d) \/ n \in FilesIn(d) => n \in Nodes /\ Child(n, d)
    BY DEF DirsIn, FilesIn, Listed, Children, Child
  <1>4. \A n : ~(n \in DirsIn(d) /\ n \in FilesIn(d))
    BY DEF DirsIn, FilesIn, IsDir
  <1>5. \A n \in Nodes : Child(n, d) => ~Grandchild(n, d)
    <2>1. ASSUME NEW n \in Nodes, Child(n, d), Grandchild(n, d)
          PROVE  FALSE
      <3>1. d \in Nodes /\ tree.place[d] = d
        BY <2>1 DEF Child, Grandchild
      <3> QED
        BY <3>1, TreeFacts, NodesAreNumbers
    <2> QED
      BY <2>1
  <1>6. LevelKept(m)'
    <2>1. ASSUME NEW n \in Nodes
          PROVE  /\ In(n, f.todo) \/ In(n, f.dirs) \/ In(n, f.files) => Under(n, d)
                 /\ Grandchild(n, d) => ~In(n, f.dirs) /\ ~In(n, f.files)
                 /\ ~(In(n, f.dirs) /\ In(n, f.files))
      BY <1>1, <1>3, <1>4, <1>5 DEF Under
    <2> QED
      BY <1>1, <2>1, SameTree DEF LevelKept
  <1>7. ASSUME NEW i \in 1..m
        PROVE  LevelKept(i)' /\ (i < m => CallKept(i)')
    <2>1. CASE i = m
      BY <1>2, <1>6, <2>1
    <2>2. CASE i # m
      <3>1. i \in Nat /\ i < m /\ i + 1 \in 1..m
        BY <1>2, <2>2
      <3>2. LevelKept(i) /\ CallKept(i)
        BY <1>0, <3>1 DEF Levels
      <3>3. open'[i] = open[i] /\ open'[i + 1].dir = open[i + 1].dir
        BY <1>1, <2>2, <3>1
      <3> QED
        BY <1>0, <1>1, <3>1, <3>2, <3>3, LevelStays, CallStays
    <2> QED
      BY <2>1, <2>2
  <1> QED
    BY <1>1, <1>7 DEF Levels

LEMMA VisitKeepsLevels ==
  ASSUME ScanTyped, Lists, Levels, Visit
  PROVE  Levels'
  <1>0. PICK m \in Nat : m = Len(open)
    BY StackFacts DEF Visit
  <1>1. PICK n \in Nodes : VisitOf(n)
    BY VisitDoes
  <1>2. /\ UNCHANGED <<tree, there, scan, at, throughout, ever>> /\ at = "scanning"
        /\ Len(open') = m + 1 /\ open'[m + 1] = ScanOf(n)
        /\ In(n, open[m].todo)
        /\ \A i \in 1..m : i # m => open'[i] = open[i]
        /\ open'[m].dir = open[m].dir
        /\ open'[m].dirs = open[m].dirs /\ open'[m].files = open[m].files
        /\ \A x : /\ In(x, open'[m].todo) => In(x, open[m].todo)
                  /\ Once(x, open[m].todo) =>
                       Once(x, open'[m].todo) /\ (x = n => ~In(x, open'[m].todo))
    BY <1>0, <1>1 DEF VisitOf
  <1>3. m \in 1..m /\ m \in Nat /\ n \in Dirs
    BY <1>0, <1>2, StackFacts DEF Dirs
  <1>4. /\ open'[m + 1].dir = n /\ open'[m + 1].todo = <<>>
        /\ open'[m + 1].dirs = <<>> /\ open'[m + 1].files = <<>>
    BY <1>2, <1>3, NewScan
  <1>5. LevelKept(m)
    BY <1>0, <1>3 DEF Levels
  <1>6. LevelKept(m)'
    <2>1. ASSUME NEW x \in Nodes, Grandchild(x, open[m].dir),
                 In(x, open[m].dirs) \/ In(x, open[m].files)
          PROVE  ~In(tree.place[x], open'[m].todo) /\ n # tree.place[x]
      BY <1>2, <1>5, <2>1 DEF LevelKept
    <2>2. \A x \in Nodes :
             /\ In(x, open'[m].todo) => Under(x, open[m].dir)
             /\ Child(x, open[m].dir) => Once(x, open'[m].todo)
      BY <1>2, <1>5 DEF LevelKept
    <2> QED
      BY <1>2, <1>4, <1>5, <2>1, <2>2, SameTree DEF LevelKept
  <1>7. CallKept(m)'
    <2>1. Under(n, open[m].dir) /\ (Child(n, open[m].dir) => ~In(n, open'[m].todo))
      BY <1>2, <1>5 DEF LevelKept
    <2> QED
      BY <1>2, <1>4, <2>1, SameTree DEF CallKept
  <1>8. LevelKept(m + 1)'
    BY <1>4, EmptyLevel
  <1>9. ASSUME NEW i \in 1..(m + 1)
        PROVE  LevelKept(i)' /\ (i < m + 1 => CallKept(i)')
    <2>1. CASE i = m + 1
      BY <1>3, <1>8, <2>1
    <2>2. CASE i = m
      BY <1>6, <1>7, <2>2
    <2>3. CASE i # m + 1 /\ i # m
      <3>1. i \in Nat /\ i < m /\ i \in 1..m /\ i + 1 \in 1..m
        BY <1>3, <2>3
      <3>2. LevelKept(i) /\ CallKept(i)
        BY <1>0, <3>1 DEF Levels
      <3>3. open'[i] = open[i] /\ open'[i + 1].dir = open[i + 1].dir
        BY <1>2, <2>3, <3>1
      <3> QED
        BY <1>0, <1>2, <3>1, <3>2, <3>3, LevelStays, CallStays
    <2> QED
      BY <2>1, <2>2, <2>3
  <1> QED
    BY <1>2, <1>9 DEF Levels

LEMMA DoneKeepsLevels ==
  ASSUME ScanTyped, Lists, Levels, DirectoryDone
  PROVE  Levels'
  <1>0. PICK m \in Nat : m = Len(open)
    BY StackFacts DEF DirectoryDone
  <1> DEFINE f == open[m]
             g == open[m - 1]
             h == open'[m - 1]
  <1>1. /\ UNCHANGED <<tree, there, scan, throughout, ever>> /\ at = "scanning"
        /\ Returns \/ HandsUp
    BY DoneDoes
  <1>2. m \in 1..m /\ m \in Nat
    BY <1>0, <1>1, StackFacts
  <1>3. CASE Returns
    <2>1. /\ m = 1 /\ at' = "returned" /\ open' = <<>>
          /\ \A x : Once(x, open[1].dirs) /\ Once(x, open[1].files)
                      /\ ~(In(x, open[1].dirs) /\ In(x, open[1].files)) => Once(x, found')
      BY <1>0, <1>3 DEF Returns
    <2>2. LevelKept(1) /\ open[1].dir = BaseDir
      BY <1>0, <1>1, <1>2, <2>1 DEF Levels, ScanTyped, StackShape
    <2>3. ASSUME NEW n \in Nodes, Shallow(n)
          PROVE  Near(n, BaseDir)
      <3>1. tree.place[n] # BaseDir => tree.place[n] \in Nodes
        BY TreeFacts DEF Dirs
      <3> QED
        BY <2>3, <3>1 DEF Shallow, Near, Child, Grandchild
    <2>4. \A n \in Nodes : Shallow(n) => Once(n, found')
      BY <2>1, <2>2, <2>3 DEF LevelKept
    <2>5. Len(open') = 0
      BY <2>1, EmptySeq
    <2> QED
      BY <1>1, <2>1, <2>4, <2>5, SameTree DEF Levels
  <1>4. CASE HandsUp
    <2>1. /\ m > 1 /\ at' = at
          /\ Len(open') = m - 1
          /\ \A i \in 1..(m - 1) : i # m - 1 => open'[i] = open[i]
          /\ h.dir = g.dir
          /\ \A x : /\ In(x, h.todo) <=> In(x, g.todo) \/ In(x, f.dirs)
                    /\ In(x, h.dirs) <=> In(x, g.dirs) \/ In(x, f.dirs)
                    /\ In(x, h.files) <=> In(x, g.files) \/ In(x, f.files)
                    /\ Once(x, g.todo) /\ ~In(x, f.dirs) => Once(x, h.todo)
                    /\ Once(x, g.dirs) /\ Once(x, f.dirs) /\ ~(In(x, g.dirs) /\ In(x, f.dirs)) =>
                         Once(x, h.dirs)
                    /\ Once(x, g.files) /\ Once(x, f.files) /\ ~(In(x, g.files) /\ In(x, f.files)) =>
                         Once(x, h.files)
      BY <1>0, <1>4 DEF HandsUp
    <2>2. m - 1 \in 1..(m - 1) /\ m - 1 \in 1..m /\ m - 1 \in Nat /\ (m - 1) + 1 = m /\ m - 1 < m
      BY <1>2, <2>1
    <2>3. LevelKept(m) /\ LevelKept(m - 1) /\ CallKept(m - 1)
      BY <1>0, <1>2, <2>2 DEF Levels
    <2> DEFINE d == g.dir
               e == f.dir
    <2>4. e \in Nodes /\ d \in Dirs /\ Under(e, d) /\ (Child(e, d) => ~In(e, g.todo))
      BY <1>0, <2>2, <2>3, StackFacts, FrameParts DEF CallKept
    <2>5. \A x \in Nodes : In(x, f.dirs) \/ In(x, f.files) =>
             Under(x, d) /\ ~Child(x, d) /\ (Grandchild(x, d) => Child(x, e))
      <3>1. \A x \in Nodes : In(x, f.dirs) \/ In(x, f.files) => Under(x, e)
        BY <2>3 DEF LevelKept
      <3> QED
        BY <2>4, <3>1, UnderUnder
    <2>6. \A x \in Nodes : /\ In(x, g.todo) \/ In(x, g.dirs) \/ In(x, g.files) => Under(x, d)
                           /\ Child(x, d) => Once(x, g.todo)
                           /\ Grandchild(x, d) /\ (In(x, g.dirs) \/ In(x, g.files)) =>
                                ~In(tree.place[x], g.todo) /\ e # tree.place[x]
                           /\ Near(x, d) => /\ Once(x, g.dirs) /\ Once(x, g.files)
                                            /\ ~(In(x, g.dirs) /\ In(x, g.files))
      <3>1. m - 1 < Len(open)
        BY <1>0, <2>2
      <3> QED
        BY <2>2, <2>3, <3>1 DEF LevelKept
    <2>7. \A x \in Nodes : Near(x, e) => /\ Once(x, f.dirs) /\ Once(x, f.files)
                                         /\ ~(In(x, f.dirs) /\ In(x, f.files))
      BY <2>3 DEF LevelKept
    <2> HIDE DEF d, e, f, g, h
    <2>8. \A x \in Nodes : In(x, h.todo) \/ In(x, h.dirs) \/ In(x, h.files) => Under(x, d)
      BY <2>1, <2>5, <2>6
    <2>9. \A x \in Nodes : Child(x, d) => Once(x, h.todo)
      BY <2>1, <2>5, <2>6
    <2>10. ASSUME NEW x \in Nodes, Grandchild(x, d), In(x, h.dirs) \/ In(x, h.files)
           PROVE  ~In(tree.place[x], h.todo)
      <3>1. tree.place[x] \in Nodes /\ Child(tree.place[x], d)
        BY <2>10 DEF Grandchild, Child
      <3>2. ~In(tree.place[x], f.dirs)
        BY <2>5, <3>1
      <3>3. CASE In(x, f.dirs) \/ In(x, f.files)
        <4>1. tree.place[x] = e
          BY <2>5, <2>10, <3>3 DEF Child
        <4> QED
          BY <2>1, <2>4, <3>1, <3>2, <4>1
      <3>4. CASE In(x, g.dirs) \/ In(x, g.files)
        BY <2>1, <2>6, <2>10, <3>2, <3>4
      <3> QED
        BY <2>1, <2>10, <3>3, <3>4
    <2>11. ASSUME NEW x \in Nodes, Near(x, d)
           PROVE  Once(x, h.dirs) /\ Once(x, h.files) /\ ~(In(x, h.dirs) /\ In(x, h.files))
      <3>1. CASE In(x, f.dirs) \/ In(x, f.files)
        <4>1. Grandchild(x, d) /\ Child(x, e) /\ tree.place[x] = e
          BY <2>5, <2>11, <3>1 DEF Near, Child
        <4>2. ~In(x, g.dirs) /\ ~In(x, g.files)
          BY <2>6, <4>1
        <4>3. Once(x, f.dirs) /\ Once(x, f.files) /\ ~(In(x, f.dirs) /\ In(x, f.files))
          BY <2>7, <4>1 DEF Near
        <4>4. Once(x, g.dirs) /\ Once(x, g.files)
          BY <2>6, <2>11
        <4> QED
          BY <2>1, <4>2, <4>3, <4>4
      <3>2. CASE ~In(x, f.dirs) /\ ~In(x, f.files)
        <4>1. Once(x, f.dirs) /\ Once(x, f.files)
          BY <3>2 DEF In, Once
        <4> QED
          BY <2>1, <2>6, <2>11, <3>2, <4>1
      <3> QED
        BY <3>1, <3>2
    <2>12. LevelKept(m - 1)'
      <3>1. ~(m - 1 < Len(open'))
        BY <2>1, <2>2
      <3>2. open'[m - 1] = h /\ h.dir = d
        BY <2>1 DEF h, d
      <3> QED
        BY <1>1, <2>8, <2>9, <2>10, <2>11, <3>1, <3>2, SameTree DEF LevelKept
    <2>13. ASSUME NEW i \in 1..(m - 1)
           PROVE  LevelKept(i)' /\ (i < m - 1 => CallKept(i)')
      <3>1. CASE i = m - 1
        BY <2>2, <2>12, <3>1
      <3>2. CASE i # m - 1
        <4>1. i \in Nat /\ i < m /\ i < m - 1 /\ i \in 1..m /\ i + 1 \in 1..(m - 1)
          BY <2>2, <3>2
        <4>2. LevelKept(i) /\ CallKept(i)
          BY <1>0, <4>1 DEF Levels
        <4>3. open'[i] = open[i] /\ open'[i + 1].dir = open[i + 1].dir
          BY <2>1, <3>2, <4>1 DEF h, g
        <4> QED
          BY <1>0, <1>1, <2>1, <4>1, <4>2, <4>3, LevelStays, CallStays
      <3> QED
        BY <3>1, <3>2
    <2> QED
      BY <1>1, <2>1, <2>13 DEF Levels
  <1> QED
    BY <1>1, <1>3, <1>4

LEMMA LevelsKeep ==
  ASSUME ScanTyped, Levels, [DirNext]_dirVars
  PROVE  Levels'
  <1> SUFFICES ASSUME Lists'
               PROVE  Levels'
    BY DEF Levels
  <1>1. Lists
    <2>1. scan' = scan
      BY DEF DirNext, ScanStep, Begin, ScandirRaises, Scandir, Visit, DirectoryDone,
             EntryRemoved, EntryMade, dirVars
    <2> QED
      BY <2>1 DEF Lists
  <1>2. CASE Begin
    <2>1. /\ at' = "scanning" /\ Len(open') = 1 /\ open'[1] = ScanOf(BaseDir)
      BY <1>1, <1>2, BeginDoes
    <2>2. LevelKept(1)'
      BY <2>1, NewScan, EmptyLevel DEF Dirs
    <2> QED
      BY <2>1, <2>2 DEF Levels
  <1>3. CASE ScandirRaises
    <2>1. at' = "raised" /\ open' = <<>> /\ Len(<<>>) = 0
      BY <1>3 DEF ScandirRaises
    <2> QED
      BY <2>1 DEF Levels
  <1>4. CASE Scandir
    BY <1>1, <1>4, ScandirKeepsLevels
  <1>5. CASE Visit
    BY <1>1, <1>5, VisitKeepsLevels
  <1>6. CASE DirectoryDone
    BY <1>1, <1>6, DoneKeepsLevels
  <1>7. ASSUME UNCHANGED <<tree, at, open, found>>,
               \A n : Shallow(n)' <=> Shallow(n),
               \A n, d : /\ Child(n, d)' <=> Child(n, d)
                         /\ Grandchild(n, d)' <=> Grandchild(n, d)
                         /\ Under(n, d)' <=> Under(n, d)
                         /\ Near(n, d)' <=> Near(n, d)
        PROVE  Levels'
    <2>1. \A i : LevelKept(i)' <=> LevelKept(i)
      BY <1>7 DEF LevelKept
    <2>2. \A i : CallKept(i)' <=> CallKept(i)
      BY <1>7 DEF CallKept
    <2> QED
      BY <1>1, <1>7, <2>1, <2>2 DEF Levels
  <1>8. ASSUME NEW k \in Dirs, EntryRemoved(k) \/ EntryMade(k)
        PROVE  Levels'
    BY <1>7, <1>8, TreeChanges, ChangedTree
  <1>9. CASE UNCHANGED dirVars
    BY <1>7, <1>9, SameTree DEF dirVars
  <1> QED
    BY <1>2, <1>3, <1>4, <1>5, <1>6, <1>8, <1>9 DEF DirNext, ScanStep, Dirs

-----------------------------------------------------------------------------
(* The theorem                                                              *)

LEMMA CountsTimes ==
  ASSUME ScanTyped, NEW n
  PROVE  /\ In(n, found) <=> Times(n) > 0
         /\ Once(n, found) => Times(n) <= 1
  <1> DEFINE places == {i \in DOMAIN found : found[i] = n}
  <1>1. found \in Seq(Nodes)
    BY DEF ScanTyped
  <1>2. DOMAIN found = 1..Len(found) /\ Len(found) \in Nat
    BY <1>1, LenProperties
  <1>3. IsFiniteSet(1..Len(found))
    BY <1>2, FS_Interval
  <1>4. IsFiniteSet(places)
    BY <1>2, <1>3, FS_Subset
  <1>5. Cardinality(places) \in Nat /\ (Cardinality(places) = 0 <=> places = {})
    BY <1>4, FS_CardinalityType, FS_EmptySet
  <1>6. In(n, found) <=> places # {}
    BY <1>2 DEF In
  <1>7. ASSUME Once(n, found), places # {}
        PROVE  Cardinality(places) = 1
    <2>1. PICK i \in places : places = {i}
      BY <1>2, <1>7 DEF Once
    <2> QED
      BY <2>1, FS_Singleton
  <1>8. Times(n) = Cardinality(places)
    BY DEF Times
  <1> HIDE DEF places
  <1> QED
    BY <1>5, <1>6, <1>7, <1>8

ScanInv == ScanTyped /\ Known /\ Covered /\ Complete /\ OnceEach /\ Levels

LEMMA ScanInvHolds == DirSpec => []ScanInv
  <1>1. DirInit => ScanInv
    BY TypedBegins, KnownBegins, CoverBegins, OnceBegins, LevelsBegin DEF ScanInv
  <1>2. ScanInv /\ [DirNext]_dirVars => ScanInv'
    BY TypedKeeps, KnownKeeps, CoverKeeps, OnceKeeps, LevelsKeep DEF ScanInv
  <1> QED
    BY <1>1, <1>2, PTL DEF DirSpec

\* A scan of fileops.py that returns has missed nothing that was there all the time and has
\* nothing that never was, once each, in trees of any size and however they change; only
\* recursive_dir_content repeats what lies deeper than two levels.
THEOREM ScansComplete == DirSpec => []ScanComplete
  <1>1. ScanInv => ScanComplete
    <2> SUFFICES ASSUME ScanInv, at = "returned", NEW n \in Nodes
                 PROVE  /\ n \in throughout /\ Wanted(n) => Times(n) > 0
                        /\ Times(n) > 0 => n \in ever /\ (Wanted(n) \/ LinkLost(n))
                        /\ scan.function # "recursive_dir_content" \/ Shallow(n) => Times(n) <= 1
      BY DEF ScanComplete
    <2>1. (In(n, found) <=> Times(n) > 0) /\ (Once(n, found) => Times(n) <= 1)
      BY CountsTimes DEF ScanInv
    <2>2. n \in throughout /\ Wanted(n) => In(n, found)
      BY DEF ScanInv, Complete
    <2>3. In(n, found) => n \in ever /\ (Wanted(n) \/ LinkLost(n))
      BY DEF ScanInv, Known, Sure
    <2>4. ~Lists \/ Shallow(n) => Once(n, found)
      BY DEF ScanInv, OnceEach, Levels
    <2> QED
      BY <2>1, <2>2, <2>3, <2>4 DEF Lists
  <1> QED
    BY <1>1, ScanInvHolds, PTL

=============================================================================
