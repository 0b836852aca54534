------------------------------- MODULE MCPipe -------------------------------
(* Small instances of Pipe for TLC. *)
EXTENDS Pipe, TLC

\* Descriptor numbers are interchangeable.
Symmetry == Permutations(Num)
=============================================================================
