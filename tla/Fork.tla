--------------------------------- MODULE Fork ---------------------------------
(***************************************************************************)
(* fork() of lib/fork.c, which copies no memory: parent and child get the  *)
(* same pages copy-on-write, page after page by two system calls each, and *)
(* the handler pgfault(), which runs in the program, makes the copy when   *)
(* one of them writes. The parent writes to its stack between any two of   *)
(* these steps; the other programs run on other CPUs.                      *)
(***************************************************************************)
EXTENDS Integers, FiniteSets

CONSTANTS
  Proc, First, Val, None,  \* as in AddressSpaces
  NPages,   \* the pages the first program has mapped, below the exception stack
  Shared,   \* those of them mapped with PTE_SHARE
  Frame     \* physical pages

Page == 0 .. NPages - 1

\* The stack is above the program and the descriptors.
Stack == NPages - 1

\* The bits of a page table entry with PTE_P set, and the entry.
Rights == [w : BOOLEAN, cow : BOOLEAN, share : BOOLEAN]
Pte == [frame : Frame, w : BOOLEAN, cow : BOOLEAN, share : BOOLEAN]

ASSUME ForkAssumption ==
  /\ First \in Proc
  /\ NPages \in Nat \ {0} /\ Shared \subseteq Page \ {Stack}
  /\ None \notin Frame \cup Proc \cup Page \cup Pte \cup Rights \cup [Page -> Val]

VARIABLES
  status,  \* none; embryo: sys_exofork has made it; live; dead
  pte,     \* the page table entries, None when PTE_P is clear
  data,    \* what a physical page holds
  upcall,  \* the programs with env_pgfault_upcall set
  at,      \* the step of fork() a program has reached
  fault    \* the page pgfault() is copying, and the copy at PFTEMP

vars == <<status, pte, data, upcall, at, fault>>

\* pn, child: of the loop in fork(); perms: of duppage.
Idle == [pc |-> "run", pn |-> 0, child |-> None, perms |-> None]

NoFault == [page |-> None, copy |-> None]


Init ==
  /\ status = [p \in Proc |-> IF p = First THEN "live" ELSE "none"]
  /\ \E f \in [Page -> Frame] :
       /\ \A g, h \in Page : f[g] = f[h] => g = h
       /\ pte = [p \in Proc |-> [g \in Page |->
                   IF p = First THEN [frame |-> f[g], w |-> TRUE, cow |-> FALSE,
                                      share |-> g \in Shared]
                   ELSE None]]
  /\ data \in [Frame -> Val]
  /\ upcall = {}
  /\ at = [p \in Proc |-> Idle]
  /\ fault = [p \in Proc |-> NoFault]

Mapped(f) ==
  \/ \E p \in Proc, g \in Page : pte[p][g] # None /\ pte[p][g].frame = f
  \/ \E p \in Proc : fault[p].copy = f

Free == {f \in Frame : ~ Mapped(f)}

Gone(p) ==
  /\ status' = [status EXCEPT ![p] = "dead"]
  /\ pte' = [pte EXCEPT ![p] = [g \in Page |-> None]]
  /\ fault' = [fault EXCEPT ![p] = NoFault]
  /\ at' = [at EXCEPT ![p] = Idle]
  /\ UNCHANGED <<data, upcall>>

\* A program exits or is destroyed. (One that panics, as fork() and pgfault() do
\* for want of memory, stops the machine.)
Exit(p) == status[p] = "live" /\ Gone(p)

-----------------------------------------------------------------------------
(* Writing, and pgfault() *)

\* Program p executes instructions of its own, or of fork().
Executes(p) == status[p] = "live" /\ fault[p] = NoFault

MayWrite(p, g) == Executes(p) /\ (at[p].pc = "run" \/ g = Stack)

Write(p, g, v) ==
  /\ MayWrite(p, g) /\ pte[p][g].w
  /\ data' = [data EXCEPT ![pte[p][g].frame] = v]
  /\ UNCHANGED <<status, pte, upcall, at, fault>>

\* page_fault_handler calls pgfault(), which allocates PFTEMP and copies.
Pgfault(p, g, f) ==
  /\ MayWrite(p, g) /\ ~ pte[p][g].w /\ pte[p][g].cow /\ p \in upcall
  /\ f \in Free
  /\ fault' = [fault EXCEPT ![p] = [page |-> g, copy |-> f]]
  /\ data' = [data EXCEPT ![f] = data[pte[p][g].frame]]
  /\ UNCHANGED <<status, pte, upcall, at>>

\* The copy is mapped over the page, and the instruction executed again.
PgfaultEnd(p) ==
  /\ fault[p] # NoFault
  /\ pte' = [pte EXCEPT ![p][fault[p].page] =
               [frame |-> fault[p].copy, w |-> TRUE, cow |-> FALSE, share |-> FALSE]]
  /\ fault' = [fault EXCEPT ![p] = NoFault]
  /\ UNCHANGED <<status, data, upcall, at>>

-----------------------------------------------------------------------------
(* fork() *)

\* set_pgfault_handler and sys_exofork.
Fork(p, c) ==
  /\ Executes(p) /\ at[p].pc = "run" /\ status[c] = "none"
  /\ upcall' = upcall \cup {p}
  /\ status' = [status EXCEPT ![c] = "embryo"]
  /\ at' = [at EXCEPT ![p] = [pc |-> "perms", pn |-> 0, child |-> c, perms |-> None]]
  /\ UNCHANGED <<pte, data, fault>>

At(p, where) == Executes(p) /\ at[p].pc = where

Goto(p, where) == at' = [at EXCEPT ![p].pc = where]

\* The perms duppage computes from the entry e.
Perms(e) ==
  LET private == ~ e.share /\ (e.w \/ e.cow)
  IN  [w |-> e.w /\ ~ private, cow |-> e.cow \/ private, share |-> e.share]

Map(frame, perms) ==
  [frame |-> frame, w |-> perms.w, cow |-> perms.cow, share |-> perms.share]

\* duppage: perms are read from uvpt ...
DuppagePerms(p) ==
  /\ At(p, "perms")
  /\ at' = [at EXCEPT ![p].pc = "child", ![p].perms = Perms(pte[p][at[p].pn])]
  /\ UNCHANGED <<status, pte, data, upcall, fault>>

\* ... the page the parent has there now is mapped in the child ...
DuppageChild(p) ==
  LET g == at[p].pn IN
  /\ At(p, "child")
  /\ pte' = [pte EXCEPT ![at[p].child][g] = Map(pte[p][g].frame, at[p].perms)]
  /\ Goto(p, "own")
  /\ UNCHANGED <<status, data, upcall, fault>>

\* slip: the parent's own mapping is left as it is
OwnUnmarked(p, g) == pte[p][g]

Own(p, g) == Map(pte[p][g].frame, at[p].perms)

\* ... and in the parent, which may have faulted on it since.
DuppageOwn(p) ==
  LET g == at[p].pn IN
  /\ At(p, "own")
  /\ pte' = [pte EXCEPT ![p][g] = Own(p, g)]
  /\ at' = [at EXCEPT ![p].pc = IF g + 1 < NPages THEN "perms" ELSE "uxstack",
                      ![p].pn = IF g + 1 < NPages THEN g + 1 ELSE 0,
                      ![p].perms = None]
  /\ UNCHANGED <<status, data, upcall, fault>>

\* The child's exception stack is a page of its own: module Fork leaves out
\* what it holds.
ForkUxstack(p) == At(p, "uxstack") /\ Goto(p, "upcall")
                  /\ UNCHANGED <<status, pte, data, upcall, fault>>

\* slip: the upcall is set for the caller
ForkUpcallOwn(p) ==
  /\ At(p, "upcall")
  /\ upcall' = upcall \cup {p}
  /\ Goto(p, "status")
  /\ UNCHANGED <<status, pte, data, fault>>

ForkUpcall(p) ==
  /\ At(p, "upcall")
  /\ upcall' = upcall \cup {at[p].child}
  /\ Goto(p, "status")
  /\ UNCHANGED <<status, pte, data, fault>>

ForkStatus(p) ==
  /\ At(p, "status")
  /\ status' = [status EXCEPT ![at[p].child] = "live"]
  /\ at' = [at EXCEPT ![p] = Idle]
  /\ UNCHANGED <<pte, data, upcall, fault>>

Next ==
  \E p \in Proc :
    \/ \E g \in Page, v \in Val : Write(p, g, v)
    \/ \E g \in Page, f \in Frame : Pgfault(p, g, f)
    \/ PgfaultEnd(p)
    \/ \E c \in Proc : Fork(p, c)
    \/ DuppagePerms(p) \/ DuppageChild(p) \/ DuppageOwn(p)
    \/ ForkUxstack(p) \/ ForkUpcall(p) \/ ForkStatus(p)
    \/ Exit(p)

Spec == Init /\ [][Next]_vars

-----------------------------------------------------------------------------
(* Properties *)

Unset == {None}
Entry == {e \in Pte : ~ (e.w /\ e.cow)}
Step == [pc : {"run", "perms", "child", "own", "uxstack", "upcall", "status"},
         pn : Page, child : Proc \cup Unset, perms : Rights \cup Unset]
Copying == [page : Page \cup Unset, copy : Frame \cup Unset]

TypeOK ==
  /\ status \in [Proc -> {"none", "embryo", "live", "dead"}]
  /\ pte \in [Proc -> [Page -> Entry \cup Unset]]
  /\ data \in [Frame -> Val]
  /\ upcall \subseteq Proc
  /\ at \in [Proc -> Step]
  /\ fault \in [Proc -> Copying]

\* A private page a program can write without a fault is mapped nowhere else:
\* not in its parent, its children, or a program that got the physical page
\* later. The one exception is the page duppage has mapped in the child and
\* not yet in the parent (lib/fork.c:71-80), while the child does not run.
WriterIsAlone ==
  /\ TypeOK
  /\ \A p, q \in Proc, g, h \in Page :
       /\ pte[p][g] # None /\ pte[q][h] # None /\ <<p, g>> # <<q, h>>
       /\ pte[p][g].w /\ ~ pte[p][g].share /\ pte[p][g].frame = pte[q][h].frame
       => /\ at[p].pc = "own" /\ at[p].pn = g /\ h = g
          /\ at[p].child = q /\ status[q] = "embryo"

\* Writing to its memory never kills a program, in fork() or after it: the
\* page is writable, or copy-on-write with the upcall set (lib/fork.c:28,
\* 151, 178; kern/trap.c:389).
NoFaultKills ==
  \A p \in Proc, g \in Page :
    MayWrite(p, g) => pte[p][g].w \/ (pte[p][g].cow /\ p \in upcall)

\* The memory a program sees.
View ==
  [p \in Proc |-> IF status[p] = "live" THEN [g \in Page |-> data[pte[p][g].frame]]
                  ELSE None]

Spaces == INSTANCE AddressSpaces WITH view <- View

\* Programs that share physical pages behave as if each had its own memory,
\* which a child starts with a copy of its parent's (lib/fork.c:131-136), and
\* as if they all had the PTE_SHARE pages (lib/fork.c:66).
ImplementsAddressSpaces == Spaces!Spec
=============================================================================
