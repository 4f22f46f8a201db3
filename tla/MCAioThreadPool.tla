-------------------------- MODULE MCAioThreadPool --------------------------
(***************************************************************************)
(* AioThreadPool for TLC.                                                  *)
(***************************************************************************)
EXTENDS AioThreadPool, TLC

Symmetry == Permutations(Items) \cup Permutations(Workers) \cup Permutations(Callers)
=============================================================================
