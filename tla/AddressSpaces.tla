---------------------------- MODULE AddressSpaces ----------------------------
(***************************************************************************)
(* What fork() promises: every program has a memory of its own, a child    *)
(* starts with its parent's, and only the pages mapped with PTE_SHARE are  *)
(* seen by all.                                                            *)
(***************************************************************************)
CONSTANTS
  Proc,    \* the programs there may be
  First,   \* the first one
  Page,    \* the pages of a program
  Shared,  \* those mapped with PTE_SHARE
  Stack,   \* the page fork() itself works on
  Val,     \* what a page may hold
  None     \* the memory of a program that does not run

VARIABLE view  \* the memory each program sees

Init ==
  /\ view \in [Proc -> [Page -> Val] \cup {None}]
  /\ \A p \in Proc : view[p] = None <=> p # First

Runs(p) == view[p] # None

Write(p, g, v) ==
  /\ Runs(p)
  /\ view' = [q \in Proc |-> IF Runs(q) /\ (q = p \/ g \in Shared)
                             THEN [view[q] EXCEPT ![g] = v] ELSE view[q]]

\* The stack goes on changing while fork() runs: the child's may be any of
\* its states.
Fork(p, c) ==
  /\ Runs(p) /\ ~ Runs(c)
  /\ \E v \in Val : view' = [view EXCEPT ![c] = [view[p] EXCEPT ![Stack] = v]]

Exit(p) == Runs(p) /\ view' = [view EXCEPT ![p] = None]

Next ==
  \E p \in Proc :
    \/ \E g \in Page, v \in Val : Write(p, g, v)
    \/ \E c \in Proc : Fork(p, c)
    \/ Exit(p)

Spec == Init /\ [][Next]_view
=============================================================================
