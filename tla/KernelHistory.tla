---------------------------- MODULE KernelHistory ----------------------------
(***************************************************************************)
(* Kernel with a record of who is who: every environment ever created gets *)
(* a number of its own, which no reuse of its slot or its env_id repeats.  *)
(***************************************************************************)
EXTENDS Kernel, FiniteSets

CONSTANT MaxBirths  \* bounds the environments created

VARIABLES
  births,   \* how many environments were ever created
  birth,    \* the number of the environment in a slot
  creator   \* the number of the environment that created it

hvars == <<vars, births, birth, creator>>

HInit ==
  /\ Init
  /\ births = NBoot
  /\ birth = [e \in Slot |-> IF e < NBoot THEN e + 1 ELSE 0]
  /\ creator = [e \in Slot |-> 0]

Born == {e \in Slot : ~ pgdir[e] /\ pgdir'[e]}

Record(c) ==
  /\ births' = births + Cardinality(Born)
  /\ births' <= MaxBirths
  /\ birth' = [e \in Slot |-> IF e \in Born THEN births' ELSE birth[e]]
  /\ creator' = [e \in Slot |-> IF e \in Born THEN birth[curenv[c]] ELSE creator[e]]

HNext ==
  \E c \in CPU :
    /\ Trap(c) \/ LockKernel(c) \/ KernelStep(c)
    /\ Record(c)

HSpec == HInit /\ [][HNext]_hvars

\* A system call ends another environment, or starts a child, only on behalf
\* of the very environment that created it: a stale envid, or a slot with a
\* new tenant, gives no such power (envid2env, kern/env.c:83-102) before the
\* generations of a slot repeat, which takes GenLimit - 1 births.
OnlyParentControls ==
  [][\A c \in CPU, e \in Slot :
       /\ births' < NBoot + GenLimit - 1
       /\ phase[c] = "kernel" /\ phase'[c] # "kernel"
       /\ e # curenv[c]
       /\ \/ status[e] \notin {"FREE", "DYING"} /\ status'[e] \in {"FREE", "DYING"}
          \/ status[e] = "NOT_RUNNABLE" /\ ~ recving[e] /\ status'[e] # status[e]
       => curenv[c] # None /\ creator[e] = birth[curenv[c]]]_hvars

=============================================================================
