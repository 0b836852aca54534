------------------------------- MODULE MCPmap -------------------------------
(* Small instances of Pmap for TLC. *)
EXTENDS Pmap, TLC

\* Pages, environments, CPUs and table indices are interchangeable: nothing
\* in Pmap or in its invariants names one of them.
Symmetry ==
  Permutations(Page) \cup Permutations(Env) \cup Permutations(CPU)
    \cup Permutations(Dir) \cup Permutations(Tab)
=============================================================================
