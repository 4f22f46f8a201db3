------------------------------ MODULE DirScan ------------------------------
(***************************************************************************)
(* The scans of directories in core/ayuna_core/fileops.py: generators of   *)
(* files and of directories, a count of files, and the lists that          *)
(* recursive_dir_content collects, for which a loop over a list of         *)
(* directories extends that list.  Other processes change the tree while it*)
(* is scanned, the consumer of a generator among them.                     *)
(***************************************************************************)
EXTENDS Naturals, FiniteSets, SequencesExt

CONSTANTS
  MaxNodes,    \* bound: the entries of the tree
  MaxChanges   \* bound: how often the tree changes during the scan

ASSUME MaxNodesAssumption == MaxNodes \in Nat

BaseDir == 0
Nodes == 1..MaxNodes

VARIABLES
  tree,        \* where each entry is, what it is, and which match extensions and pattern
  there,       \* the directory entries that exist
  scan,        \* the function called, and whether it follows links
  at,          \* "idle", "scanning", "returned" or "raised"
  open,       \* the directories being scanned, each in a call of its own
  found,       \* what was yielded, counted or returned
  throughout, ever, \* what existed all the time, and at any time, since the scan began
  changes

dirVars == <<tree, there, scan, at, open, found, throughout, ever, changes>>

-----------------------------------------------------------------------------
(* The tree                                                                 *)

\* "special" is neither a file nor a directory; "link" leads to an empty directory.
Kinds == {"dir", "file", "special", "link"}

\* A directory has a lower number than what is in it.
Trees ==
  {t \in [place : [Nodes -> 0..MaxNodes], kind : [Nodes -> Kinds], chosen : SUBSET Nodes] :
     \A n \in Nodes : t.place[n] < n /\ (t.place[n] # BaseDir => t.kind[t.place[n]] = "dir")}

Children(d) == {n \in Nodes : tree.place[n] = d}
\* The listing says which entries are directories, and a link is followed when asked:
\* one that is gone by then is none.
IsDir(n) == tree.kind[n] = "dir" \/ (tree.kind[n] = "link" /\ scan.follow /\ n \in there)
Listed(d) == Children(d) \cap there

\* A file that _select_matching_file and the pattern let pass.
Selected(n) == n \in tree.chosen

-----------------------------------------------------------------------------
(* The scans                                                                *)

Functions == {"recursive_dir_content", "file_paths_from_dir", "dir_paths_from_dir",
              "total_files_in_dir"}

\* todo: the entries, or for recursive_dir_content the directories, still to look at;
\* dirs and files: its two lists.
ScanOf(d) == [dir |-> d, opened |-> FALSE, todo |-> <<>>, dirs |-> <<>>, files |-> <<>>]

DirInit ==
  /\ tree \in Trees
  /\ there \in {s \in SUBSET (Nodes \cup {BaseDir}) : \A n \in Nodes \cap s : tree.place[n] \in s}
  /\ scan \in [function : Functions, follow : BOOLEAN]
  /\ at = "idle"
  /\ open = <<>> /\ found = <<>>
  /\ throughout = there /\ ever = there
  /\ changes = 0

\* The call.  All functions but recursive_dir_content ask first whether they can read
\* the directory, and find nothing (or -1 files) if not.
Begin ==
  /\ at = "idle"
  /\ IF scan.function # "recursive_dir_content" /\ BaseDir \notin there
     THEN at' = "returned" /\ UNCHANGED open
     ELSE at' = "scanning" /\ open' = <<ScanOf(BaseDir)>>
  /\ UNCHANGED <<tree, there, scan, found, throughout, ever, changes>>

Top == Last(open)
WithTop(f) == [open EXCEPT ![Len(open)] = f]

\* os.scandir raises if the directory is gone, and so does the whole scan.
ScandirRaises ==
  /\ at = "scanning" /\ ~Top.opened /\ Top.dir \notin there
  /\ at' = "raised"
  /\ open' = <<>>
  /\ UNCHANGED <<tree, there, scan, found, throughout, ever, changes>>

\* The directory is read; recursive_dir_content goes through it at once.
\* Abstraction: a directory is read in one step, and each list of entries has one order.
Scandir ==
  /\ at = "scanning" /\ ~Top.opened /\ Top.dir \in there
  /\ LET dirs == SetToSeq({n \in Listed(Top.dir) : IsDir(n)})
         files == SetToSeq({n \in Listed(Top.dir) : tree.kind[n] = "file" /\ Selected(n)})
     IN  open' = WithTop(
           IF scan.function = "recursive_dir_content"
           THEN [Top EXCEPT !.opened = TRUE, !.todo = dirs, !.dirs = dirs, !.files = files]
           ELSE [Top EXCEPT !.opened = TRUE, !.todo = SetToSeq(Listed(Top.dir))])
  /\ UNCHANGED <<tree, there, scan, at, found, throughout, ever, changes>>

\* The next entry: a directory is descended into, anything else taken if selected.
\* recursive_dir_content has listed directories only, and does not ask again.
Visit ==
  /\ at = "scanning" /\ Top.opened /\ Top.todo # <<>>
  /\ LET n == Head(Top.todo)
         rest == WithTop([Top EXCEPT !.todo = Tail(@)])
         descends == scan.function = "recursive_dir_content" \/ IsDir(n)
         yields == CASE scan.function = "recursive_dir_content" -> FALSE
                     [] scan.function = "dir_paths_from_dir" -> IsDir(n) /\ Selected(n)
                     [] OTHER -> ~IsDir(n) /\ Selected(n)
     IN  /\ open' = IF descends THEN Append(rest, ScanOf(n)) ELSE rest
         /\ found' = IF yields THEN Append(found, n) ELSE found
  /\ UNCHANGED <<tree, there, scan, at, throughout, ever, changes>>

\* The files of a directory's directories are forgotten.
DirectoryDoneForgetsFiles ==
  /\ at = "scanning" /\ Top.opened /\ Top.todo = <<>>
  /\ LET caller == open[Len(open) - 1]
     IN IF Len(open) = 1
        THEN at' = "returned" /\ found' = found \o Top.dirs \o Top.files /\ open' = <<>>
        ELSE /\ open' = [Front(open) EXCEPT ![Len(open) - 1] =
                            [caller EXCEPT !.todo = @ \o Top.dirs, !.dirs = @ \o Top.dirs]]
             /\ UNCHANGED <<at, found>>
  /\ UNCHANGED <<tree, there, scan, throughout, ever, changes>>

\* A directory is done.  What recursive_dir_content has found there extends the lists
\* of its caller, and so the list that the caller goes through.
DirectoryDone ==
  /\ at = "scanning" /\ Top.opened /\ Top.todo = <<>>
  /\ LET caller == open[Len(open) - 1]
     IN IF Len(open) = 1
        THEN at' = "returned" /\ found' = found \o Top.dirs \o Top.files /\ open' = <<>>
        ELSE /\ open' = [Front(open) EXCEPT ![Len(open) - 1] =
                            [caller EXCEPT !.todo = @ \o Top.dirs, !.dirs = @ \o Top.dirs,
                                           !.files = @ \o Top.files]]
             /\ UNCHANGED <<at, found>>
  /\ UNCHANGED <<tree, there, scan, throughout, ever, changes>>

\* Another process removes a file or an empty directory, or makes an entry.
EntryRemoved(n) ==
  /\ changes < MaxChanges /\ at = "scanning"
  /\ n \in there /\ Children(n) \cap there = {}
  /\ there' = there \ {n} /\ throughout' = throughout \ {n}
  /\ changes' = changes + 1
  /\ UNCHANGED <<tree, scan, at, open, found, ever>>

EntryMade(n) ==
  /\ changes < MaxChanges /\ at = "scanning"
  /\ n \in Nodes \ there /\ tree.place[n] \in there
  /\ there' = there \cup {n} /\ ever' = ever \cup {n}
  /\ changes' = changes + 1
  /\ UNCHANGED <<tree, scan, at, open, found, throughout>>

ScanStep == Begin \/ ScandirRaises \/ Scandir \/ Visit \/ DirectoryDone

DirNext == ScanStep \/ \E n \in Nodes \cup {BaseDir} : EntryRemoved(n) \/ EntryMade(n)

DirSpec == DirInit /\ [][DirNext]_dirVars

-----------------------------------------------------------------------------
(* Properties                                                               *)

Wanted(n) ==
  CASE scan.function = "recursive_dir_content" ->
         IsDir(n) \/ (tree.kind[n] = "file" /\ Selected(n))
    [] scan.function = "dir_paths_from_dir" -> IsDir(n) /\ Selected(n)
    [] OTHER -> ~IsDir(n) /\ Selected(n)

\* Entries of the scanned directory, and of the directories in it.
Shallow(n) == tree.place[n] = BaseDir \/ tree.place[tree.place[n]] = BaseDir

\* A link that was removed may have been taken for a directory or for a file.
LinkLost(n) == tree.kind[n] = "link" /\ n \notin throughout

Times(n) == Cardinality({i \in DOMAIN found : found[i] = n})

\* A scan that returns has found every entry asked for that was there all the time, and
\* nothing that never was; once each, but that recursive_dir_content, which goes through
\* the list it extends, may list again what lies deeper than two levels.
ScanComplete ==
  at = "returned" =>
    \A n \in Nodes :
      /\ n \in throughout /\ Wanted(n) => Times(n) > 0
      /\ Times(n) > 0 => n \in ever /\ (Wanted(n) \/ LinkLost(n))
      /\ scan.function # "recursive_dir_content" \/ Shallow(n) => Times(n) <= 1
=============================================================================
