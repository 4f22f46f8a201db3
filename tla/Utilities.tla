----------------------------- MODULE Utilities -----------------------------
(***************************************************************************)
(* Three utilities of ayuna_core that share nothing: the singleton         *)
(* metaclasses, the conversion of case and the scans of directories.  A    *)
(* behaviour is about one of them, and the others stand still.             *)
(***************************************************************************)
EXTENDS Singletons, CaseConverter, DirScan

VARIABLE subject

vars == <<subject, singletonVars, caseVars, dirVars>>

NoSingleton ==
  /\ makes = [c \in Classes |-> NoClass]
  /\ SingletonInit

NoConversion ==
  /\ request = [style |-> "kebab", clear |-> TRUE, delimiters |-> DEFAULT_WORD_DELIMITERS]
  /\ texts = <<<<>>>>
  /\ CaseInit

NoScan ==
  /\ tree = [place |-> [n \in Nodes |-> BaseDir], kind |-> [n \in Nodes |-> "file"], chosen |-> Nodes]
  /\ there = {}
  /\ scan = [function |-> "total_files_in_dir", follow |-> TRUE]
  /\ DirInit

\* Bounds: entries numbered level by level, all but at most one of them selected, at most
\* one missing (or all); whether links are followed matters only if there are links.
SmallScan ==
  /\ DirInit
  /\ \A n \in Nodes : n > 1 => tree.place[n - 1] <= tree.place[n]
  /\ Cardinality(tree.chosen) >= MaxNodes - 1
  /\ Cardinality(there) >= MaxNodes \/ there = {}
  /\ scan.follow \/ \E n \in Nodes : tree.kind[n] = "link"

Init ==
  \/ subject = "singletons" /\ SingletonInit /\ NoConversion /\ NoScan
  \/ subject = "conversion" /\ NoSingleton /\ CaseInit /\ NoScan
  \/ subject = "scan" /\ NoSingleton /\ NoConversion /\ SmallScan

Next ==
  \/ subject = "singletons" /\ SingletonNext /\ UNCHANGED <<subject, caseVars, dirVars>>
  \/ subject = "conversion" /\ CaseNext /\ UNCHANGED <<subject, singletonVars, dirVars>>
  \/ subject = "scan" /\ DirNext /\ UNCHANGED <<subject, singletonVars, caseVars>>

Spec == Init /\ [][Next]_vars /\ (subject = "singletons" => SingletonFairness)
=============================================================================
