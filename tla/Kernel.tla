------------------------------- MODULE Kernel -------------------------------
(***************************************************************************)
(* The JOS kernel's environments (processes), its per-CPU scheduler and    *)
(* the big kernel lock: kern/env.c, kern/sched.c, kern/trap.c,             *)
(* kern/spinlock.h and the system calls of kern/syscall.c that change the  *)
(* table of environments.                                                  *)
(*                                                                         *)
(* A CPU runs a user environment, traps, spins on the lock, handles the    *)
(* trap in one step (nothing else touches the table while it holds the     *)
(* lock) and gives the lock up again in env_run or in sched_halt.          *)
(***************************************************************************)
EXTENDS Naturals, Sequences

CONSTANTS
  CPU,       \* the processors
  BSP,       \* the one that boots the others
  NENV,      \* length of envs[]
  NBoot,     \* environments created by i386_init
  GenLimit,  \* 2^31 / 2^ENVGENSHIFT: where the generation turns negative
  None       \* NULL, and the envid 0

Slot  == 0 .. NENV - 1
Gen   == 1 .. GenLimit - 1
EnvId == Slot \X Gen

ASSUME KernelAssumption ==
  /\ BSP \in CPU
  /\ NENV \in Nat
  /\ NBoot \in 1 .. NENV
  /\ GenLimit \in Nat /\ GenLimit > 1
  /\ None \notin CPU /\ None \notin Slot /\ None \notin EnvId

Status == {"FREE", "DYING", "RUNNABLE", "RUNNING", "NOT_RUNNABLE"}

\* "spin" waits for the lock, "kernel" holds it, "monitor" and "panic" never
\* give it back, "stopped" met panicstr on its way into the kernel.
Phase == {"user", "halted", "spin", "kernel", "monitor", "panic", "stopped"}

VARIABLES
  status,    \* env_status
  gen,       \* the generation in env_id (0: the slot was never used)
  parent,    \* env_parent_id
  recving,   \* env_ipc_recving
  pgdir,     \* env_pgdir # NULL
  freeList,  \* env_free_list, through env_link
  forking,   \* user level: the child a program is building, lib/fork.c
  curenv,    \* thiscpu->cpu_env
  phase,     \* where each CPU is
  lock       \* the CPU that holds kernel_lock

vars == <<status, gen, parent, recving, pgdir, freeList, forking,
          curenv, phase, lock>>

Init ==
  /\ status   = [e \in Slot |-> IF e < NBoot THEN "RUNNABLE" ELSE "FREE"]
  /\ gen      = [e \in Slot |-> IF e < NBoot THEN 1 ELSE 0]
  /\ parent   = [e \in Slot |-> None]
  /\ recving  = [e \in Slot |-> FALSE]
  /\ pgdir    = [e \in Slot |-> e < NBoot]
  /\ freeList = [i \in 1 .. NENV - NBoot |-> NBoot + i - 1]
  /\ forking  = [e \in Slot |-> None]
  /\ curenv   = [c \in CPU |-> None]
  /\ phase    = [c \in CPU |-> IF c = BSP THEN "kernel" ELSE "spin"]
  /\ lock     = BSP

-----------------------------------------------------------------------------
(* Environment ids *)

Id(e) == <<e, gen[e]>>

\* slip: the sign test is `generation < 0'
NextGenUnsigned(g) == IF g < GenLimit THEN g + 1 ELSE 1

NextGen(g) == IF g + 1 < GenLimit THEN g + 1 ELSE 1

\* slip: permission is checked on the parent's slot, not on its whole id
Envid2envSlotOnly(c, id, checkperm) ==
  IF id = None THEN curenv[c]
  ELSE LET e == id[1] IN
       IF \/ status[e] = "FREE" \/ Id(e) # id
          \/ checkperm /\ e # curenv[c]
             /\ (parent[e] = None \/ parent[e][1] # curenv[c])
       THEN None ELSE e

\* The environment an id names for a call made on CPU c, or None (E_BAD_ENV).
Envid2env(c, id, checkperm) ==
  IF id = None THEN curenv[c]
  ELSE LET e == id[1] IN
       IF \/ status[e] = "FREE" \/ Id(e) # id
          \/ checkperm /\ e # curenv[c] /\ parent[e] # Id(curenv[c])
       THEN None ELSE e

-----------------------------------------------------------------------------
(* Leaving the kernel. These operators complete a handler: st is the status *)
(* of the environments when the code reaches them, cur is curenv, and       *)
(* pgdir' is already set.                                                   *)

Unlock(c, p) == /\ phase' = [phase EXCEPT ![c] = p]
                /\ lock' = None

Stuck(c, p) == /\ phase' = [phase EXCEPT ![c] = p]
               /\ UNCHANGED lock

\* lcr3(PADDR(env_pgdir)) panics when the page directory is gone.
EnvRun(c, st, cur, e) ==
  /\ status' = [f \in Slot |->
                  IF f = e THEN "RUNNING"
                  ELSE IF f = cur /\ st[f] = "RUNNING" THEN "RUNNABLE"
                  ELSE st[f]]
  /\ curenv' = [curenv EXCEPT ![c] = e]
  /\ IF pgdir'[e] THEN Unlock(c, "user") ELSE Stuck(c, "panic")

\* slip: an environment running elsewhere counts as runnable
RunnableOrRunning(st) == {e \in Slot : st[e] \in {"RUNNABLE", "RUNNING"}}

Runnable(st) == {e \in Slot : st[e] = "RUNNABLE"}

\* Position of slot e in the scan that starts at slot ENVX(cur), or at 0.
ScanOrder(cur, e) ==
  IF cur = None THEN e
  ELSE IF e >= cur THEN e - cur ELSE e + NENV - cur

\* slip: no unlock_kernel() before hlt
SchedHaltLocked(c, st, cur) ==
  /\ status' = st
  /\ curenv' = [curenv EXCEPT ![c] = None]
  /\ Stuck(c, "halted")

\* slip: the loop over envs[] does not look for ENV_DYING
SchedHaltForgetsDying(c, st, cur) ==
  /\ status' = st
  /\ IF \E e \in Slot : st[e] \in {"RUNNABLE", "RUNNING"}
     THEN /\ curenv' = [curenv EXCEPT ![c] = None]
          /\ Unlock(c, "halted")
     ELSE /\ curenv' = [curenv EXCEPT ![c] = cur]
          /\ Stuck(c, "monitor")

\* With nothing left to run, drop into the monitor, for good and locked.
SchedHalt(c, st, cur) ==
  /\ status' = st
  /\ IF \E e \in Slot : st[e] \in {"RUNNABLE", "RUNNING", "DYING"}
     THEN /\ curenv' = [curenv EXCEPT ![c] = None]
          /\ Unlock(c, "halted")
     ELSE /\ curenv' = [curenv EXCEPT ![c] = cur]
          /\ Stuck(c, "monitor")

\* slip: the loop over the slots before ENVX(id) is missing
SchedYieldOneLoop(c, st, cur) ==
  LET Seen == {e \in Runnable(st) : cur = None \/ e >= cur} IN
  \/ \E e \in Seen : (\A f \in Seen : e <= f) /\ EnvRun(c, st, cur, e)
  \/ /\ Seen = {}
     /\ IF cur # None /\ st[cur] = "RUNNING"
        THEN EnvRun(c, st, cur, cur) ELSE SchedHalt(c, st, cur)

SchedYield(c, st, cur) ==
  \/ \E e \in Runnable(st) :
       /\ \A f \in Runnable(st) : ScanOrder(cur, e) <= ScanOrder(cur, f)
       /\ EnvRun(c, st, cur, e)
  \/ /\ Runnable(st) = {}
     /\ cur # None /\ st[cur] = "RUNNING"
     /\ EnvRun(c, st, cur, cur)
  \/ /\ Runnable(st) = {}
     /\ ~ (cur # None /\ st[cur] = "RUNNING")
     /\ SchedHalt(c, st, cur)

\* The end of trap().
TrapReturn(c, st) ==
  IF st[curenv[c]] = "RUNNING"
  THEN EnvRun(c, st, curenv[c], curenv[c])
  ELSE SchedYield(c, st, curenv[c])

-----------------------------------------------------------------------------
(* Entering the kernel *)

\* A system call, fault or interrupt in user mode, or the timer on a halted
\* CPU.
Trap(c) ==
  /\ phase[c] \in {"user", "halted"}
  /\ phase' = [phase EXCEPT ![c] =
                 IF \E d \in CPU : phase[d] = "panic" THEN "stopped" ELSE "spin"]
  /\ UNCHANGED <<status, gen, parent, recving, pgdir, freeList, forking,
                 curenv, lock>>

LockKernel(c) ==
  /\ phase[c] = "spin"
  /\ lock = None
  /\ lock' = c
  /\ phase' = [phase EXCEPT ![c] = "kernel"]
  /\ UNCHANGED <<status, gen, parent, recving, pgdir, freeList, forking, curenv>>

\* A CPU that boots or was halted has no environment to return to.
Schedule(c) ==
  /\ phase[c] = "kernel"
  /\ curenv[c] = None
  /\ UNCHANGED <<gen, parent, recving, pgdir, freeList, forking>>
  /\ SchedYield(c, status, None)

\* slip: trap() does not look for ENV_DYING
CallsEvenDying(c) == phase[c] = "kernel" /\ curenv[c] # None

\* The calling environment of a trap taken from user mode.
Calls(c) ==
  /\ phase[c] = "kernel"
  /\ curenv[c] # None
  /\ status[curenv[c]] # "DYING"

-----------------------------------------------------------------------------
(* Freeing environments *)

\* slip: the slot is not linked into env_free_list
EnvFreeUnlinked(e) ==
  /\ pgdir' = [pgdir EXCEPT ![e] = FALSE]
  /\ UNCHANGED freeList

\* What env_free does besides the status; a second env_free of a slot reads
\* through a null env_pgdir, which is a kernel page fault.
EnvFree(e) ==
  /\ pgdir' = [pgdir EXCEPT ![e] = FALSE]
  /\ freeList' = <<e>> \o freeList

KernelPageFault(c) ==
  /\ Stuck(c, "panic")
  /\ UNCHANGED <<status, pgdir, freeList, curenv>>

\* slip: frees an environment that runs on another CPU
EnvDestroyAtOnce(c, e) ==
  \/ /\ pgdir[e]
     /\ EnvFree(e)
     /\ LET st == [status EXCEPT ![e] = "FREE"] IN
          IF curenv[c] = e THEN SchedYield(c, st, None) ELSE TrapReturn(c, st)
  \/ ~ pgdir[e] /\ KernelPageFault(c)

EnvDestroy(c, e) ==
  \/ /\ status[e] = "RUNNING" /\ curenv[c] # e
     /\ UNCHANGED <<pgdir, freeList>>
     /\ TrapReturn(c, [status EXCEPT ![e] = "DYING"])
  \/ /\ ~ (status[e] = "RUNNING" /\ curenv[c] # e)
     /\ pgdir[e]
     /\ EnvFree(e)
     /\ LET st == [status EXCEPT ![e] = "FREE"] IN
          IF curenv[c] = e THEN SchedYield(c, st, None) ELSE TrapReturn(c, st)
  \/ /\ ~ (status[e] = "RUNNING" /\ curenv[c] # e)
     /\ ~ pgdir[e]
     /\ KernelPageFault(c)

\* trap() collects the zombie it was about to serve.
Collect(c) ==
  /\ phase[c] = "kernel"
  /\ curenv[c] # None
  /\ status[curenv[c]] = "DYING"
  /\ \/ /\ pgdir[curenv[c]]
        /\ EnvFree(curenv[c])
        /\ SchedYield(c, [status EXCEPT ![curenv[c]] = "FREE"], None)
     \/ ~ pgdir[curenv[c]] /\ KernelPageFault(c)
  /\ UNCHANGED <<gen, parent, recving, forking>>

-----------------------------------------------------------------------------
(* System calls *)

\* Calls and faults that leave the table alone: getenvid, page_*, cputs, a
\* fault with an upcall, every call that fails.
SysReturn(c) ==
  /\ Calls(c)
  /\ UNCHANGED <<gen, parent, recving, pgdir, freeList, forking>>
  /\ TrapReturn(c, status)

\* sys_yield and the timer interrupt.
SysYield(c) ==
  /\ Calls(c)
  /\ UNCHANGED <<gen, parent, recving, pgdir, freeList, forking>>
  /\ SchedYield(c, status, curenv[c])

\* slip: env_alloc does not clear env_ipc_recving
SysExoforkKeepsRecving(c) ==
  /\ Calls(c)
  /\ freeList # <<>>
  /\ LET e == Head(freeList)
         p == curenv[c]
         g == NextGen(gen[e])
     IN /\ gen' = [gen EXCEPT ![e] = g]
        /\ parent' = [parent EXCEPT ![e] = Id(p)]
        /\ UNCHANGED recving
        /\ pgdir' = [pgdir EXCEPT ![e] = TRUE]
        /\ freeList' = Tail(freeList)
        /\ forking' = [forking EXCEPT ![e] = None, ![p] = <<e, g>>]
        /\ TrapReturn(c, [status EXCEPT ![e] = "NOT_RUNNABLE"])

\* env_alloc takes the head of the free list.
SysExofork(c) ==
  /\ Calls(c)
  /\ freeList # <<>>
  /\ LET e == Head(freeList)
         p == curenv[c]
         g == NextGen(gen[e])
     IN /\ gen' = [gen EXCEPT ![e] = g]
        /\ parent' = [parent EXCEPT ![e] = Id(p)]
        /\ recving' = [recving EXCEPT ![e] = FALSE]
        /\ pgdir' = [pgdir EXCEPT ![e] = TRUE]
        /\ freeList' = Tail(freeList)
        /\ forking' = [forking EXCEPT ![e] = None, ![p] = <<e, g>>]
        /\ TrapReturn(c, [status EXCEPT ![e] = "NOT_RUNNABLE"])

\* exit(), a fault without upcall, a failed user_mem_assert: id is None.
SysEnvDestroy(c, id) ==
  LET e == Envid2env(c, id, TRUE)
      p == curenv[c]
  IN /\ Calls(c)
     /\ e # None
     /\ EnvDestroy(c, e)
     /\ forking' = [forking EXCEPT ![p] = IF @ = id THEN None ELSE @]
     /\ UNCHANGED <<gen, parent, recving>>

SysEnvSetStatus(c, id, s) ==
  LET e == Envid2env(c, id, TRUE)
  IN /\ Calls(c)
     /\ e # None
     /\ UNCHANGED <<gen, parent, recving, pgdir, freeList>>
     /\ TrapReturn(c, [status EXCEPT ![e] = s])

SysIpcTrySend(c, id) ==
  LET e == Envid2env(c, id, FALSE)
  IN /\ Calls(c)
     /\ e # None
     /\ recving[e]
     /\ recving' = [recving EXCEPT ![e] = FALSE]
     /\ UNCHANGED <<gen, parent, pgdir, freeList, forking>>
     /\ TrapReturn(c, [status EXCEPT ![e] = "RUNNABLE"])

\* slip: the caller is not marked ENV_NOT_RUNNABLE
SysIpcRecvStaysRunnable(c) ==
  /\ Calls(c)
  /\ recving' = [recving EXCEPT ![curenv[c]] = TRUE]
  /\ UNCHANGED <<gen, parent, pgdir, freeList, forking>>
  /\ SchedYield(c, status, curenv[c])

SysIpcRecv(c) ==
  /\ Calls(c)
  /\ recving' = [recving EXCEPT ![curenv[c]] = TRUE]
  /\ UNCHANGED <<gen, parent, pgdir, freeList, forking>>
  /\ SchedYield(c, [status EXCEPT ![curenv[c]] = "NOT_RUNNABLE"], curenv[c])

-----------------------------------------------------------------------------
(* How user programs use the calls. fork(), dumbfork() and spawn() call     *)
(* sys_env_set_status once, on the child sys_exofork just gave them; no      *)
(* program in the repository destroys the same child twice, and only its    *)
(* parent's sys_env_destroy makes an environment DYING.                     *)

StartChild(c) ==
  /\ Calls(c)
  /\ forking[curenv[c]] # None
  /\ SysEnvSetStatus(c, forking[curenv[c]], "RUNNABLE")
  /\ forking' = [forking EXCEPT ![curenv[c]] = None]

DestroyOnce(c, id) ==
  /\ Calls(c)
  /\ id # None => status[id[1]] # "DYING"
  /\ SysEnvDestroy(c, id)

KernelStep(c) ==
  \/ Schedule(c)
  \/ Collect(c)
  \/ SysReturn(c)
  \/ SysYield(c)
  \/ SysExofork(c)
  \/ StartChild(c)
  \/ \E id \in EnvId \cup {None} : DestroyOnce(c, id)
  \/ \E id \in EnvId : SysIpcTrySend(c, id)
  \/ SysIpcRecv(c)

Next == \E c \in CPU : Trap(c) \/ LockKernel(c) \/ KernelStep(c)

Spec == Init /\ [][Next]_vars

-----------------------------------------------------------------------------
(* Safety *)

TypeOK ==
  /\ status \in [Slot -> Status]
  /\ gen \in [Slot -> 0 .. GenLimit - 1]
  /\ parent \in [Slot -> EnvId \cup {None}]
  /\ recving \in [Slot -> BOOLEAN]
  /\ pgdir \in [Slot -> BOOLEAN]
  /\ freeList \in Seq(Slot)
  /\ forking \in [Slot -> EnvId \cup {None}]
  /\ curenv \in [CPU -> Slot \cup {None}]
  /\ phase \in [CPU -> Phase]
  /\ lock \in CPU \cup {None}

\* The big kernel lock excludes: exactly the CPU that lock names is between
\* lock_kernel and unlock_kernel, and a CPU that stays in the monitor or in
\* panic() keeps it (kern/spinlock.c, kern/sched.c:72, kern/init.c:169).
LockExcludes ==
  \A c \in CPU : phase[c] \in {"kernel", "monitor", "panic"} <=> lock = c

\* Never two CPUs on one environment (kern/sched.c:25), and ENV_RUNNING or
\* ENV_DYING say exactly that some CPU is on it: no running environment is
\* lost by its CPU, none is freed under it (env_run, env_destroy).
OneCpuPerEnv ==
  /\ \A c, d \in CPU : curenv[c] = curenv[d] /\ c # d => curenv[c] = None
  /\ \A e \in Slot : status[e] \in {"RUNNING", "DYING"}
                      <=> \E c \in CPU : curenv[c] = e /\ phase[c] # "monitor"

\* Only the CPU that runs an environment can be in user mode with it: never
\* on a slot that env_free returned to the free list (kern/env.c:486-492).
NoUseAfterFree ==
  \A c \in CPU : curenv[c] # None => status[curenv[c]] # "FREE"

\* The free list holds every free slot once and nothing else, and a slot has
\* a page directory exactly while it is not free (env_alloc, env_free).
FreeListExact ==
  /\ \A i, j \in DOMAIN freeList : freeList[i] = freeList[j] => i = j
  /\ \A e \in Slot : status[e] = "FREE" <=> \E i \in DOMAIN freeList : freeList[i] = e
  /\ \A e \in Slot : pgdir[e] <=> status[e] # "FREE"

\* An environment that waits in sys_ipc_recv does not run, and a child under
\* construction waits for its parent, not for a message left over from the
\* slot's last tenant (env_alloc clears env_ipc_recving, kern/env.c:265).
Embryo(e) == \E p \in Slot : status[p] # "FREE" /\ forking[p] = Id(e)

ReceiverBlocked ==
  \A e \in Slot : recving[e] /\ status[e] # "FREE"
                  => status[e] = "NOT_RUNNABLE" /\ ~ Embryo(e)

\* The kernel never faults on a page directory it freed (env_free, env_run).
NoPanic == \A c \in CPU : phase[c] # "panic"

\* A CPU drops into the monitor, keeping the lock, only when no other CPU is
\* on an environment and none could ever be (kern/sched.c:62-74).
MonitorIsLast ==
  \A c \in CPU : phase[c] = "monitor" =>
    /\ \A e \in Slot : status[e] \in {"FREE", "NOT_RUNNABLE"}
    /\ \A d \in CPU \ {c} : phase[d] \in {"spin", "halted"}

\* A zombie stays one until it is freed (kern/env.c:486-488).
ZombiesOnlyDie ==
  [][\A e \in Slot : status[e] = "DYING" => status'[e] \in {"DYING", "FREE"}]_vars

\* The kernel implements the life of an environment that EnvLife describes.
LifeOf(e) ==
  CASE status[e] = "FREE"         -> "none"
    [] status[e] = "RUNNABLE"     -> "ready"
    [] status[e] = "RUNNING"      -> "running"
    [] status[e] = "DYING"        -> "zombie"
    [] status[e] = "NOT_RUNNABLE" -> IF recving[e] THEN "waiting" ELSE "embryo"

EnvOn(c) == IF phase[c] = "monitor" THEN None ELSE curenv[c]

Life == INSTANCE EnvLife WITH Env <- Slot,
                              life <- [e \in Slot |-> LifeOf(e)],
                              on <- [c \in CPU |-> EnvOn(c)]

\* Every step of the kernel is one step in the life of its environments, or
\* none (env_run, env_destroy, sys_ipc_recv, sys_exofork together).
ImplementsEnvLife == Life!Spec

-----------------------------------------------------------------------------
(* Liveness. Interrupts are on in user mode and on a halted CPU, and the     *)
(* timer is periodic, so a CPU traps again and again and a trap is the      *)
(* timer's again and again; a CPU that holds the lock finishes; and a CPU   *)
(* that keeps trying gets the lock in the end (spinlock.h:41-45).           *)

Fairness ==
  \A c \in CPU : /\ WF_vars(Trap(c))
                 /\ SF_vars(LockKernel(c))
                 /\ WF_vars(KernelStep(c))
                 /\ SF_vars(SysYield(c))

FairSpec == Spec /\ Fairness

\* An environment destroyed while it runs elsewhere is freed at that CPU's
\* next trap (kern/env.c:486-488).
ZombiesAreFreed ==
  \A e \in Slot : status[e] = "DYING" ~> status[e] = "FREE"

\* Steps that end no environment and make none wait.
Carry(c) ==
  Schedule(c) \/ SysReturn(c) \/ SysYield(c) \/ SysExofork(c) \/ StartChild(c)

CarryOn == \E c \in CPU : Trap(c) \/ LockKernel(c) \/ Carry(c)

\* Round robin (kern/sched.c:16-20): once environments only carry on, each
\* runnable one gets a CPU. While environments end, the scans that start at
\* envs[0] can pass over a high slot for ever.
RunnableRuns ==
  <>[][CarryOn]_vars
  => \A e \in Slot : status[e] = "RUNNABLE" ~> status[e] # "RUNNABLE"

=============================================================================
