-------------------------------- MODULE MCFork --------------------------------
(* Small instances of Fork for TLC. *)
EXTENDS Fork, TLC

\* Physical pages are interchangeable.
Symmetry == Permutations(Frame)
=============================================================================
