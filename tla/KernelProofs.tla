---------------------------- MODULE KernelProofs ----------------------------
(***************************************************************************)
(* Proofs about Kernel, for any number of CPUs and environments.           *)
(*                                                                         *)
(* A handler first edits the table (an operator such as EnvFree, or the    *)
(* primed variables of a system call) and then leaves the kernel through   *)
(* EnvRun or SchedHalt. Mid states what holds between the two; each        *)
(* handler establishes Mid, and each way out of the kernel turns Mid into  *)
(* the invariant. The last part is about KernelHistory: who controls whom. *)
(***************************************************************************)
EXTENDS KernelHistory, FiniteSetTheorems, TLAPS

Owned == {"RUNNING", "DYING"}

\* fl lists the free slots of st, each once; pg marks the others.
FreeSlots(st, fl, pg) ==
  /\ \A i, j \in DOMAIN fl : fl[i] = fl[j] => i = j
  /\ \A e \in Slot : st[e] = "FREE" <=> \E i \in DOMAIN fl : fl[i] = e
  /\ \A e \in Slot : pg[e] <=> st[e] # "FREE"

\* A child under construction is as sys_exofork left it, for its parent only.
Embryos(st, g, par, rcv, fk) ==
  \A p \in Slot : st[p] # "FREE" /\ fk[p] # None =>
    /\ st[fk[p][1]] = "NOT_RUNNABLE"
    /\ ~ rcv[fk[p][1]]
    /\ g[fk[p][1]] = fk[p][2]
    /\ par[fk[p][1]] = <<p, g[p]>>

\* What the other fields of a used slot look like.
Tenants(st, g, rcv) ==
  \A e \in Slot : st[e] # "FREE" =>
    g[e] # 0 /\ (rcv[e] => st[e] = "NOT_RUNNABLE")

\* The environment table with status st.
Table(st, g, par, rcv, pg, fl, fk) ==
  /\ FreeSlots(st, fl, pg)
  /\ Embryos(st, g, par, rcv, fk)
  /\ Tenants(st, g, rcv)

CPUs ==
  /\ \A c \in CPU : phase[c] \notin {"panic", "stopped"}
  /\ \A c \in CPU : phase[c] = "user" => curenv[c] # None
  /\ \A c \in CPU : phase[c] = "halted" => curenv[c] = None

IInv ==
  /\ TypeOK
  /\ LockExcludes
  /\ OneCpuPerEnv
  /\ NoUseAfterFree
  /\ MonitorIsLast
  /\ Table(status, gen, parent, recving, pgdir, freeList, forking)
  /\ CPUs

-----------------------------------------------------------------------------
(* Between a handler and the way out of the kernel *)

TableType ==
  /\ gen \in [Slot -> 0 .. GenLimit - 1]
  /\ parent \in [Slot -> EnvId \cup {None}]
  /\ recving \in [Slot -> BOOLEAN]
  /\ pgdir \in [Slot -> BOOLEAN]
  /\ freeList \in Seq(Slot)
  /\ forking \in [Slot -> EnvId \cup {None}]

Mid(c, st, cur) ==
  /\ st \in [Slot -> Status]
  /\ cur \in Slot \cup {None}
  /\ phase[c] = "kernel"
  /\ TableType'
  /\ Table(st, gen', parent', recving', pgdir', freeList', forking')
  /\ cur # None => st[cur] \in {"RUNNING", "NOT_RUNNABLE"}
  /\ \A d \in CPU \ {c} : curenv[d] # None =>
        curenv[d] # cur /\ st[curenv[d]] \in Owned
  /\ \A e \in Slot : st[e] \in Owned =>
        e = cur \/ \E d \in CPU \ {c} : curenv[d] = e

\* env_run keeps the invariant: the environment it picks is on no other CPU.
LEMMA EnvRunOK ==
  ASSUME IInv,
         NEW c \in CPU, NEW st, NEW cur, NEW e \in Slot,
         Mid(c, st, cur),
         st[e] = "RUNNABLE" \/ (e = cur /\ st[e] = "RUNNING"),
         EnvRun(c, st, cur, e)
  PROVE  IInv'
<1>1. /\ pgdir'[e] /\ st[e] # "FREE" /\ st[e] # "NOT_RUNNABLE"
      /\ phase' = [phase EXCEPT ![c] = "user"]
      /\ lock' = None
      /\ curenv' = [curenv EXCEPT ![c] = e]
  BY DEF EnvRun, Unlock, Mid, Table, FreeSlots
<1>2. /\ phase[c] = "kernel" /\ lock = c
      /\ \A d \in CPU \ {c} : phase[d] \in {"user", "halted", "spin"}
  BY DEF IInv, LockExcludes, Mid, CPUs, TypeOK, Phase
<1>3. /\ status' \in [Slot -> Status]
      /\ status'[e] = "RUNNING"
      /\ \A f \in Slot : f # e /\ f # cur => status'[f] = st[f]
      /\ cur # None /\ cur # e => status'[cur] \in {"RUNNABLE", "NOT_RUNNABLE"}
      /\ \A f \in Slot : /\ status'[f] = "FREE" <=> st[f] = "FREE"
                         /\ status'[f] = "NOT_RUNNABLE" <=> st[f] = "NOT_RUNNABLE"
  BY <1>1, KernelAssumption DEF EnvRun, Mid, Status
<1>4. TypeOK'
  <2>1. TableType'
    BY DEF Mid
  <2>2. curenv' \in [CPU -> Slot \cup {None}] /\ phase' \in [CPU -> Phase]
    BY <1>1 DEF IInv, TypeOK, Phase
  <2> QED
    BY <1>1, <1>3, <2>1, <2>2 DEF TypeOK, TableType
<1>5. LockExcludes'
  BY <1>1, <1>2, KernelAssumption DEF LockExcludes, IInv, TypeOK
<1>6. Table(status, gen, parent, recving, pgdir, freeList, forking)'
  <2>1. FreeSlots(st, freeList', pgdir') /\ Embryos(st, gen', parent', recving', forking')
        /\ Tenants(st, gen', recving')
    BY DEF Mid, Table
  <2>2. FreeSlots(status', freeList', pgdir')
    BY <2>1, <1>3 DEF FreeSlots
  <2>3. Embryos(status', gen', parent', recving', forking')
    <3> SUFFICES ASSUME NEW p \in Slot, status'[p] # "FREE", forking'[p] # None
                 PROVE  /\ status'[forking'[p][1]] = "NOT_RUNNABLE"
                        /\ ~ recving'[forking'[p][1]]
                        /\ gen'[forking'[p][1]] = forking'[p][2]
                        /\ parent'[forking'[p][1]] = <<p, gen'[p]>>
      BY DEF Embryos
    <3>1. forking'[p][1] \in Slot
      BY DEF Mid, TableType, EnvId
    <3> QED
      BY <2>1, <1>3, <3>1 DEF Embryos
  <2>4. Tenants(status', gen', recving')
    BY <2>1, <1>3 DEF Tenants
  <2> QED
    BY <2>2, <2>3, <2>4 DEF Table
<1>7. OneCpuPerEnv'
  <2>1. \A d \in CPU \ {c} : curenv'[d] = curenv[d] /\ phase'[d] = phase[d]
    BY <1>1 DEF IInv, TypeOK
  <2>2. curenv'[c] = e /\ phase'[c] = "user"
    BY <1>1 DEF IInv, TypeOK
  <2>3. \A d \in CPU \ {c} : curenv[d] # None => curenv[d] # e
    BY KernelAssumption DEF Mid, Owned
  <2>4. \A d, f \in CPU : curenv'[d] = curenv'[f] /\ d # f => curenv'[d] = None
    BY <2>1, <2>2, <2>3, KernelAssumption DEF IInv, OneCpuPerEnv
  <2>5. ASSUME NEW f \in Slot, status'[f] \in {"RUNNING", "DYING"}
        PROVE  \E d \in CPU : curenv'[d] = f /\ phase'[d] # "monitor"
    <3>1. CASE f = e
      BY <3>1, <2>2
    <3>2. CASE f # e
      <4>1. f # cur /\ st[f] \in Owned
        BY <3>2, <2>5, <1>3, KernelAssumption DEF Owned
      <4>2. PICK d \in CPU \ {c} : curenv[d] = f
        BY <4>1 DEF Mid
      <4> QED
        BY <4>2, <2>1, <1>2
    <3> QED
      BY <3>1, <3>2
  <2>6. ASSUME NEW f \in Slot, NEW d \in CPU, curenv'[d] = f
        PROVE  status'[f] \in {"RUNNING", "DYING"}
    <3>1. CASE d = c
      BY <3>1, <2>2, <2>6, <1>3
    <3>2. CASE d # c
      <4>1. curenv[d] = f /\ f # cur /\ st[f] \in Owned /\ f # e
        BY <3>2, <2>1, <2>3, <2>6, KernelAssumption DEF Mid
      <4> QED
        BY <4>1, <1>3 DEF Owned
    <3> QED
      BY <3>1, <3>2
  <2> QED
    BY <2>4, <2>5, <2>6 DEF OneCpuPerEnv
<1>8. NoUseAfterFree'
  <2>1. \A d \in CPU : phase'[d] # "monitor"
    BY <1>1, <1>2 DEF IInv, TypeOK
  <2>2. \A d \in CPU : curenv'[d] \in Slot \cup {None}
    BY <1>4 DEF TypeOK
  <2> QED
    BY <1>7, <2>1, <2>2 DEF NoUseAfterFree, OneCpuPerEnv
<1>9. MonitorIsLast'
  BY <1>1, <1>2 DEF MonitorIsLast, IInv, TypeOK
<1>10. CPUs'
  BY <1>1, <1>2, KernelAssumption DEF CPUs, IInv, TypeOK
<1> QED
  BY <1>4, <1>5, <1>6, <1>7, <1>8, <1>9, <1>10 DEF IInv

\* sched_halt keeps the invariant: with nothing runnable it leaves the CPU
\* without an environment, or with one that waits, in the monitor.
LEMMA SchedHaltOK ==
  ASSUME IInv,
         NEW c \in CPU, NEW st, NEW cur,
         Mid(c, st, cur),
         Runnable(st) = {},
         ~ (cur # None /\ st[cur] = "RUNNING"),
         SchedHalt(c, st, cur)
  PROVE  IInv'
<1>1. /\ phase[c] = "kernel" /\ lock = c
      /\ \A d \in CPU \ {c} : phase[d] \in {"user", "halted", "spin"}
  BY DEF IInv, LockExcludes, Mid, CPUs, TypeOK, Phase
<1>2. /\ status' = st /\ st \in [Slot -> Status]
      /\ \A e \in Slot : st[e] # "RUNNABLE"
      /\ cur # None => cur \in Slot /\ st[cur] = "NOT_RUNNABLE"
  BY DEF SchedHalt, Mid, Runnable
<1>3. \/ /\ curenv' = [curenv EXCEPT ![c] = None]
         /\ phase' = [phase EXCEPT ![c] = "halted"]
         /\ lock' = None
      \/ /\ \A e \in Slot : st[e] \notin {"RUNNABLE", "RUNNING", "DYING"}
         /\ curenv' = [curenv EXCEPT ![c] = cur]
         /\ phase' = [phase EXCEPT ![c] = "monitor"]
         /\ lock' = lock
  BY DEF SchedHalt, Unlock, Stuck
<1>4. TypeOK'
  <2>1. TableType'
    BY DEF Mid
  <2>2. curenv' \in [CPU -> Slot \cup {None}] /\ phase' \in [CPU -> Phase]
    BY <1>3, <1>2 DEF IInv, TypeOK, Phase
  <2>3. lock' \in CPU \cup {None}
    BY <1>3, <1>1
  <2> QED
    BY <1>2, <2>1, <2>2, <2>3 DEF TypeOK, TableType
<1>5. LockExcludes'
  <2>1. \A d \in CPU \ {c} : phase'[d] \in {"user", "halted", "spin"}
    BY <1>1, <1>3 DEF IInv, TypeOK
  <2>2. \/ phase'[c] = "halted" /\ lock' = None
        \/ phase'[c] = "monitor" /\ lock' = c
    BY <1>1, <1>3 DEF IInv, TypeOK
  <2> QED
    BY <2>1, <2>2, KernelAssumption DEF LockExcludes
<1>6. Table(status, gen, parent, recving, pgdir, freeList, forking)'
  BY <1>2 DEF Mid
<1>7. /\ \A d \in CPU \ {c} : curenv'[d] = curenv[d] /\ phase'[d] = phase[d]
      /\ curenv'[c] = None \/ (phase'[c] = "monitor" /\ curenv'[c] = cur)
      /\ phase'[c] \in {"halted", "monitor"}
  BY <1>3 DEF IInv, TypeOK
<1>8. OneCpuPerEnv'
  <2>1. \A d, f \in CPU : curenv'[d] = curenv'[f] /\ d # f => curenv'[d] = None
    BY <1>7 DEF IInv, OneCpuPerEnv, Mid
  <2>2. ASSUME NEW f \in Slot, status'[f] \in {"RUNNING", "DYING"}
        PROVE  \E d \in CPU : curenv'[d] = f /\ phase'[d] # "monitor"
    <3>1. f # cur /\ st[f] \in Owned
      BY <2>2, <1>2, KernelAssumption DEF Owned
    <3>2. PICK d \in CPU \ {c} : curenv[d] = f
      BY <3>1 DEF Mid
    <3> QED
      BY <3>2, <1>1, <1>7
  <2>3. ASSUME NEW f \in Slot, NEW d \in CPU, curenv'[d] = f, phase'[d] # "monitor"
        PROVE  status'[f] \in {"RUNNING", "DYING"}
    <3>1. d # c /\ curenv[d] = f
      BY <2>3, <1>7, KernelAssumption
    <3> QED
      BY <3>1, <1>2, KernelAssumption DEF Mid, Owned
  <2> QED
    BY <2>1, <2>2, <2>3 DEF OneCpuPerEnv
<1>9. NoUseAfterFree'
  <2>1. \A d \in CPU \ {c} : curenv'[d] # None => status'[curenv'[d]] # "FREE"
    BY <1>7, <1>2 DEF Mid, Owned
  <2> QED
    BY <2>1, <1>7, <1>2 DEF NoUseAfterFree
<1>10. MonitorIsLast'
  <2>1. CASE phase'[c] = "halted"
    BY <2>1, <1>7, <1>1 DEF MonitorIsLast
  <2>2. CASE phase'[c] = "monitor"
    <3>1. \A e \in Slot : st[e] \in {"FREE", "NOT_RUNNABLE"}
      BY <2>2, <1>3, <1>2 DEF Status, IInv, TypeOK
    <3>2. \A d \in CPU \ {c} : curenv[d] = None
      BY <3>1 DEF Mid, Owned, IInv, TypeOK
    <3> QED
      BY <3>1, <3>2, <1>1, <1>2, <1>7 DEF MonitorIsLast, IInv, CPUs
  <2> QED
    BY <2>1, <2>2, <1>7
<1>11. CPUs'
  <2>1. phase'[c] = "halted" => curenv'[c] = None
    BY <1>3 DEF IInv, TypeOK
  <2> QED
    BY <1>1, <1>7, <2>1 DEF CPUs, IInv
<1> QED
  BY <1>4, <1>5, <1>6, <1>8, <1>9, <1>10, <1>11 DEF IInv

\* sched_yield keeps the invariant, whichever environment the scan finds.
LEMMA SchedYieldOK ==
  ASSUME IInv,
         NEW c \in CPU, NEW st, NEW cur,
         Mid(c, st, cur),
         SchedYield(c, st, cur)
  PROVE  IInv'
<1>1. CASE \E e \in Runnable(st) : EnvRun(c, st, cur, e)
  BY <1>1, EnvRunOK DEF Runnable
<1>2. CASE cur # None /\ st[cur] = "RUNNING" /\ EnvRun(c, st, cur, cur)
  <2>1. cur \in Slot
    BY <1>2 DEF Mid
  <2> QED
    BY <1>2, <2>1, EnvRunOK
<1>3. CASE /\ Runnable(st) = {}
           /\ ~ (cur # None /\ st[cur] = "RUNNING")
           /\ SchedHalt(c, st, cur)
  BY <1>3, SchedHaltOK
<1> QED
  BY <1>1, <1>2, <1>3 DEF SchedYield

\* The end of trap() keeps the invariant.
LEMMA TrapReturnOK ==
  ASSUME IInv,
         NEW c \in CPU, NEW st,
         curenv[c] # None,
         Mid(c, st, curenv[c]),
         TrapReturn(c, st)
  PROVE  IInv'
<1>1. curenv[c] \in Slot
  BY DEF IInv, TypeOK
<1>2. CASE st[curenv[c]] = "RUNNING" /\ EnvRun(c, st, curenv[c], curenv[c])
  BY <1>1, <1>2, EnvRunOK
<1>3. CASE SchedYield(c, st, curenv[c])
  BY <1>3, SchedYieldOK
<1> QED
  BY <1>2, <1>3 DEF TrapReturn

-----------------------------------------------------------------------------
(* The handlers *)

\* What the CPU that holds the lock knows of itself and of the others.
LEMMA HolderFacts ==
  ASSUME IInv, NEW c \in CPU, phase[c] = "kernel"
  PROVE  /\ curenv[c] # None => curenv[c] \in Slot /\ status[curenv[c]] \in Owned
         /\ \A d \in CPU \ {c} : curenv[d] # None =>
              /\ curenv[d] \in Slot /\ curenv[d] # curenv[c]
              /\ status[curenv[d]] \in Owned
         /\ \A e \in Slot : status[e] \in Owned =>
              e = curenv[c] \/ \E d \in CPU \ {c} : curenv[d] = e
<1>1. \A d \in CPU : phase[d] # "monitor"
  BY DEF IInv, LockExcludes
<1>2. \A d \in CPU : curenv[d] # None => curenv[d] \in Slot
  BY DEF IInv, TypeOK
<1> QED
  BY <1>1, <1>2 DEF IInv, OneCpuPerEnv, Owned

\* A handler that edits nothing leaves the kernel with the table as it is.
LEMMA MidCaller ==
  ASSUME IInv, NEW c \in CPU, Calls(c),
         UNCHANGED <<gen, parent, recving, pgdir, freeList, forking>>
  PROVE  Mid(c, status, curenv[c])
<1>1. TableType' /\ Table(status, gen', parent', recving', pgdir', freeList', forking')
  BY DEF IInv, TypeOK, TableType
<1>2. status[curenv[c]] = "RUNNING"
  BY HolderFacts DEF Calls, Owned
<1> QED
  BY <1>1, <1>2, HolderFacts DEF Mid, Calls, IInv, TypeOK

\* A CPU that boots, or that the timer woke from its halt, looks for work.
LEMMA ScheduleOK ==
  ASSUME IInv, NEW c \in CPU, Schedule(c)
  PROVE  IInv'
<1>1. TableType' /\ Table(status, gen', parent', recving', pgdir', freeList', forking')
  BY DEF IInv, TypeOK, TableType, Schedule
<1>2. Mid(c, status, None)
  BY <1>1, HolderFacts DEF Mid, Schedule, IInv, TypeOK
<1> QED
  BY <1>2, SchedYieldOK DEF Schedule

\* A call that edits nothing goes back to its caller.
LEMMA SysReturnOK ==
  ASSUME IInv, NEW c \in CPU, SysReturn(c)
  PROVE  IInv'
BY MidCaller, TrapReturnOK DEF SysReturn, Calls

\* sys_yield and the timer interrupt keep the invariant.
LEMMA SysYieldOK ==
  ASSUME IInv, NEW c \in CPU, SysYield(c)
  PROVE  IInv'
BY MidCaller, SchedYieldOK DEF SysYield, Calls

\* sys_ipc_recv: the caller waits, off every CPU.
LEMMA SysIpcRecvOK ==
  ASSUME IInv, NEW c \in CPU, SysIpcRecv(c)
  PROVE  IInv'
<1> DEFINE p == curenv[c]
           st == [status EXCEPT ![p] = "NOT_RUNNABLE"]
<1>1. /\ p \in Slot /\ p # None /\ status[p] = "RUNNING" /\ phase[c] = "kernel"
      /\ recving' = [recving EXCEPT ![p] = TRUE]
      /\ UNCHANGED <<gen, parent, pgdir, freeList, forking>>
  BY HolderFacts DEF SysIpcRecv, Calls, Owned
<1>2. st \in [Slot -> Status] /\ TableType'
  BY <1>1 DEF IInv, TypeOK, TableType, Status
<1>3. /\ st[p] = "NOT_RUNNABLE"
      /\ \A e \in Slot : e # p => st[e] = status[e]
  BY <1>1 DEF IInv, TypeOK
<1>4. FreeSlots(st, freeList', pgdir')
  BY <1>1, <1>3 DEF IInv, Table, FreeSlots
<1>5. Embryos(st, gen', parent', recving', forking')
  <2> SUFFICES ASSUME NEW q \in Slot, st[q] # "FREE", forking'[q] # None
               PROVE  /\ st[forking'[q][1]] = "NOT_RUNNABLE"
                      /\ ~ recving'[forking'[q][1]]
                      /\ gen'[forking'[q][1]] = forking'[q][2]
                      /\ parent'[forking'[q][1]] = <<q, gen'[q]>>
    BY DEF Embryos
  <2>1. status[q] # "FREE" /\ forking[q] # None
    BY <1>1, <1>3
  <2>2. forking[q][1] \in Slot
    BY <2>1 DEF IInv, TypeOK, EnvId
  <2>3. /\ status[forking[q][1]] = "NOT_RUNNABLE"
        /\ ~ recving[forking[q][1]]
        /\ gen[forking[q][1]] = forking[q][2]
        /\ parent[forking[q][1]] = <<q, gen[q]>>
    BY <2>1 DEF IInv, Table, Embryos
  <2>4. forking[q][1] # p
    BY <2>3, <1>1
  <2> QED
    BY <1>1, <1>3, <2>2, <2>3, <2>4 DEF IInv, TypeOK
<1>6. Tenants(st, gen', recving')
  BY <1>1, <1>3 DEF IInv, TypeOK, Table, Tenants
<1>7. Mid(c, st, p)
  <2>1. \A d \in CPU \ {c} : curenv[d] # None =>
          curenv[d] # p /\ st[curenv[d]] \in Owned
    BY <1>1, <1>3, HolderFacts
  <2>2. \A e \in Slot : st[e] \in Owned =>
          e = p \/ \E d \in CPU \ {c} : curenv[d] = e
    BY <1>1, <1>3, HolderFacts
  <2>3. Table(st, gen', parent', recving', pgdir', freeList', forking')
    BY <1>4, <1>5, <1>6 DEF Table
  <2> QED
    BY <1>1, <1>2, <1>3, <2>1, <2>2, <2>3 DEF Mid
<1>8. SchedYield(c, st, p)
  BY DEF SysIpcRecv
<1> QED
  BY <1>7, <1>8, SchedYieldOK

\* sys_ipc_try_send wakes an environment that waits; it is no embryo.
LEMMA SysIpcTrySendOK ==
  ASSUME IInv, NEW c \in CPU, NEW id \in EnvId, SysIpcTrySend(c, id)
  PROVE  IInv'
<1> DEFINE p == curenv[c]
           e == id[1]
           st == [status EXCEPT ![e] = "RUNNABLE"]
<1>1. /\ p \in Slot /\ p # None /\ status[p] = "RUNNING" /\ phase[c] = "kernel"
  BY HolderFacts DEF SysIpcTrySend, Calls, Owned
<1>2. Envid2env(c, id, FALSE) = e /\ e \in Slot /\ status[e] # "FREE"
  BY KernelAssumption DEF SysIpcTrySend, Envid2env, EnvId
<1>3. /\ recving[e] /\ recving' = [recving EXCEPT ![e] = FALSE]
      /\ UNCHANGED <<gen, parent, pgdir, freeList, forking>>
      /\ TrapReturn(c, st)
  BY <1>2 DEF SysIpcTrySend
<1>4. status[e] = "NOT_RUNNABLE" /\ e # p
  BY <1>1, <1>2, <1>3 DEF IInv, Table, Tenants
<1>5. st \in [Slot -> Status] /\ TableType'
  BY <1>2, <1>3 DEF IInv, TypeOK, TableType, Status
<1>6. /\ st[e] = "RUNNABLE"
      /\ \A f \in Slot : f # e => st[f] = status[f]
  BY <1>2 DEF IInv, TypeOK
<1>7. FreeSlots(st, freeList', pgdir')
  BY <1>3, <1>4, <1>6 DEF IInv, Table, FreeSlots
<1>8. Embryos(st, gen', parent', recving', forking')
  <2> SUFFICES ASSUME NEW q \in Slot, st[q] # "FREE", forking'[q] # None
               PROVE  /\ st[forking'[q][1]] = "NOT_RUNNABLE"
                      /\ ~ recving'[forking'[q][1]]
                      /\ gen'[forking'[q][1]] = forking'[q][2]
                      /\ parent'[forking'[q][1]] = <<q, gen'[q]>>
    BY DEF Embryos
  <2>1. status[q] # "FREE" /\ forking[q] # None
    BY <1>2, <1>3, <1>6
  <2>2. forking[q][1] \in Slot
    BY <2>1 DEF IInv, TypeOK, EnvId
  <2>3. /\ status[forking[q][1]] = "NOT_RUNNABLE"
        /\ ~ recving[forking[q][1]]
        /\ gen[forking[q][1]] = forking[q][2]
        /\ parent[forking[q][1]] = <<q, gen[q]>>
    BY <2>1 DEF IInv, Table, Embryos
  <2>4. forking[q][1] # e
    BY <2>3, <1>3
  <2> QED
    BY <1>3, <1>6, <2>2, <2>3, <2>4 DEF IInv, TypeOK
<1>9. Tenants(st, gen', recving')
  BY <1>2, <1>3, <1>6 DEF IInv, TypeOK, Table, Tenants
<1>10. Mid(c, st, p)
  <2>1. \A d \in CPU \ {c} : curenv[d] # None =>
          curenv[d] # p /\ st[curenv[d]] \in Owned
    BY <1>1, <1>4, <1>6, HolderFacts DEF Owned
  <2>2. \A f \in Slot : st[f] \in Owned =>
          f = p \/ \E d \in CPU \ {c} : curenv[d] = f
    BY <1>1, <1>6, HolderFacts DEF Owned
  <2>3. Table(st, gen', parent', recving', pgdir', freeList', forking')
    BY <1>7, <1>8, <1>9 DEF Table
  <2> QED
    BY <1>1, <1>4, <1>5, <1>6, <2>1, <2>2, <2>3 DEF Mid
<1> QED
  BY <1>1, <1>3, <1>10, TrapReturnOK

\* sys_env_set_status as fork() uses it, on the child it has just built.
LEMMA StartChildOK ==
  ASSUME IInv, NEW c \in CPU, StartChild(c)
  PROVE  IInv'
<1> DEFINE p == curenv[c]
           e == forking[p][1]
           st == [status EXCEPT ![e] = "RUNNABLE"]
<1>1. /\ p \in Slot /\ p # None /\ status[p] = "RUNNING" /\ phase[c] = "kernel"
      /\ forking[p] # None /\ forking[p] \in EnvId
  BY HolderFacts DEF StartChild, Calls, Owned, IInv, TypeOK
<1>2. /\ e \in Slot /\ status[e] = "NOT_RUNNABLE" /\ ~ recving[e]
      /\ parent[e] = <<p, gen[p]>> /\ e # p
  BY <1>1 DEF EnvId, IInv, Table, Embryos
<1>3. Envid2env(c, forking[p], TRUE) = e
  BY <1>1, <1>2, KernelAssumption DEF StartChild, SysEnvSetStatus, Envid2env
<1>4. /\ forking' = [forking EXCEPT ![p] = None]
      /\ UNCHANGED <<gen, parent, recving, pgdir, freeList>>
      /\ TrapReturn(c, st)
  BY <1>3 DEF StartChild, SysEnvSetStatus
<1>5. st \in [Slot -> Status] /\ TableType'
  BY <1>1, <1>2, <1>4 DEF IInv, TypeOK, TableType, Status
<1>6. /\ st[e] = "RUNNABLE"
      /\ \A f \in Slot : f # e => st[f] = status[f]
  BY <1>2 DEF IInv, TypeOK
<1>7. FreeSlots(st, freeList', pgdir')
  BY <1>2, <1>4, <1>6 DEF IInv, Table, FreeSlots
<1>8. Embryos(st, gen', parent', recving', forking')
  <2> SUFFICES ASSUME NEW q \in Slot, st[q] # "FREE", forking'[q] # None
               PROVE  /\ st[forking'[q][1]] = "NOT_RUNNABLE"
                      /\ ~ recving'[forking'[q][1]]
                      /\ gen'[forking'[q][1]] = forking'[q][2]
                      /\ parent'[forking'[q][1]] = <<q, gen'[q]>>
    BY DEF Embryos
  <2>1. q # p /\ status[q] # "FREE" /\ forking[q] # None /\ forking'[q] = forking[q]
    BY <1>1, <1>2, <1>4, <1>6 DEF IInv, TypeOK
  <2>2. forking[q][1] \in Slot
    BY <2>1 DEF IInv, TypeOK, EnvId
  <2>3. /\ status[forking[q][1]] = "NOT_RUNNABLE"
        /\ ~ recving[forking[q][1]]
        /\ gen[forking[q][1]] = forking[q][2]
        /\ parent[forking[q][1]] = <<q, gen[q]>>
    BY <2>1 DEF IInv, Table, Embryos
  <2>4. forking[q][1] # e
    BY <2>1, <2>3, <1>2
  <2> QED
    BY <1>4, <1>6, <2>1, <2>2, <2>3, <2>4
<1>9. Tenants(st, gen', recving')
  BY <1>2, <1>4, <1>6 DEF IInv, Table, Tenants
<1>10. Mid(c, st, p)
  <2>1. \A d \in CPU \ {c} : curenv[d] # None =>
          curenv[d] # p /\ st[curenv[d]] \in Owned
    BY <1>1, <1>2, <1>6, HolderFacts DEF Owned
  <2>2. \A f \in Slot : st[f] \in Owned =>
          f = p \/ \E d \in CPU \ {c} : curenv[d] = f
    BY <1>1, <1>6, HolderFacts DEF Owned
  <2>3. Table(st, gen', parent', recving', pgdir', freeList', forking')
    BY <1>7, <1>8, <1>9 DEF Table
  <2> QED
    BY <1>1, <1>2, <1>5, <1>6, <2>1, <2>2, <2>3 DEF Mid
<1> QED
  BY <1>1, <1>4, <1>10, TrapReturnOK

-----------------------------------------------------------------------------
(* The free list *)

\* Pushing a used slot makes it free; nothing else changes.
LEMMA PushFree ==
  ASSUME NEW fl \in Seq(Slot), NEW e \in Slot, NEW st, NEW pg,
         st \in [Slot -> Status], pg \in [Slot -> BOOLEAN],
         FreeSlots(st, fl, pg), st[e] # "FREE"
  PROVE  /\ <<e>> \o fl \in Seq(Slot)
         /\ FreeSlots([st EXCEPT ![e] = "FREE"], <<e>> \o fl, [pg EXCEPT ![e] = FALSE])
<1> DEFINE nl == <<e>> \o fl
           ns == [st EXCEPT ![e] = "FREE"]
           np == [pg EXCEPT ![e] = FALSE]
<1>1. /\ nl \in Seq(Slot) /\ Len(nl) = Len(fl) + 1 /\ Len(fl) \in Nat
      /\ nl[1] = e /\ \A i \in 2 .. Len(nl) : nl[i] = fl[i - 1]
  OBVIOUS
<1>2. DOMAIN nl = 1 .. Len(fl) + 1 /\ DOMAIN fl = 1 .. Len(fl)
  BY <1>1
<1>3. \A i \in DOMAIN fl : fl[i] # e /\ nl[i + 1] = fl[i]
  BY <1>1, <1>2 DEF FreeSlots
<1>4. \A i \in DOMAIN nl : i = 1 \/ (i - 1 \in DOMAIN fl /\ nl[i] = fl[i - 1])
  BY <1>1, <1>2
<1>5. \A i, j \in DOMAIN nl : nl[i] = nl[j] => i = j
  <2> SUFFICES ASSUME NEW i \in DOMAIN nl, NEW j \in DOMAIN nl, nl[i] = nl[j]
               PROVE  i = j
    OBVIOUS
  <2>1. CASE i = 1 \/ j = 1
    BY <2>1, <1>1, <1>3, <1>4
  <2>2. CASE i # 1 /\ j # 1
    <3>1. i - 1 = j - 1
      BY <2>2, <1>4 DEF FreeSlots
    <3> QED
      BY <3>1, <1>2
  <2> QED
    BY <2>1, <2>2
<1>6. \A f \in Slot : ns[f] = "FREE" <=> \E i \in DOMAIN nl : nl[i] = f
  <2> SUFFICES ASSUME NEW f \in Slot
               PROVE  ns[f] = "FREE" <=> \E i \in DOMAIN nl : nl[i] = f
    OBVIOUS
  <2>1. CASE f = e
    BY <2>1, <1>1, <1>2
  <2>2. CASE f # e
    <3>1. ns[f] = st[f]
      BY <2>2
    <3>2. ASSUME NEW i \in DOMAIN nl, nl[i] = f
          PROVE  \E j \in DOMAIN fl : fl[j] = f
      BY <3>2, <2>2, <1>1, <1>4
    <3>3. ASSUME NEW j \in DOMAIN fl, fl[j] = f
          PROVE  j + 1 \in DOMAIN nl /\ nl[j + 1] = f
      BY <3>3, <1>2, <1>3
    <3> QED
      BY <3>1, <3>2, <3>3 DEF FreeSlots
  <2> QED
    BY <2>1, <2>2
<1>7. \A f \in Slot : np[f] <=> ns[f] # "FREE"
  <2> SUFFICES ASSUME NEW f \in Slot PROVE np[f] <=> ns[f] # "FREE"
    OBVIOUS
  <2>1. CASE f = e
    BY <2>1
  <2>2. CASE f # e
    BY <2>2 DEF FreeSlots
  <2> QED
    BY <2>1, <2>2
<1> QED
  BY <1>1, <1>5, <1>6, <1>7 DEF FreeSlots

\* Popping the head makes that slot used; nothing else changes.
LEMMA PopFree ==
  ASSUME NEW fl \in Seq(Slot), fl # <<>>, NEW st, NEW pg,
         NEW s \in Status, s # "FREE",
         st \in [Slot -> Status], pg \in [Slot -> BOOLEAN],
         FreeSlots(st, fl, pg)
  PROVE  /\ Head(fl) \in Slot /\ st[Head(fl)] = "FREE" /\ Tail(fl) \in Seq(Slot)
         /\ FreeSlots([st EXCEPT ![Head(fl)] = s], Tail(fl), [pg EXCEPT ![Head(fl)] = TRUE])
<1> DEFINE e == Head(fl)
           nl == Tail(fl)
           ns == [st EXCEPT ![e] = s]
           np == [pg EXCEPT ![e] = TRUE]
<1>1. /\ nl \in Seq(Slot) /\ Len(fl) \in Nat \ {0} /\ Len(nl) = Len(fl) - 1
      /\ e = fl[1] /\ \A i \in 1 .. Len(nl) : nl[i] = fl[i + 1]
  OBVIOUS
<1>2. DOMAIN nl = 1 .. Len(fl) - 1 /\ DOMAIN fl = 1 .. Len(fl)
  BY <1>1
<1>3. e \in Slot /\ st[e] = "FREE"
  BY <1>1, <1>2 DEF FreeSlots
<1>4. \A i \in DOMAIN nl : i + 1 \in DOMAIN fl /\ nl[i] = fl[i + 1] /\ nl[i] # e
  <2> SUFFICES ASSUME NEW i \in DOMAIN nl
               PROVE  i + 1 \in DOMAIN fl /\ nl[i] = fl[i + 1] /\ nl[i] # e
    OBVIOUS
  <2>1. i + 1 \in DOMAIN fl /\ 1 \in DOMAIN fl /\ i + 1 # 1 /\ nl[i] = fl[i + 1]
    BY <1>1, <1>2
  <2> QED
    BY <2>1, <1>1 DEF FreeSlots
<1>5. \A i, j \in DOMAIN nl : nl[i] = nl[j] => i = j
  <2> SUFFICES ASSUME NEW i \in DOMAIN nl, NEW j \in DOMAIN nl, nl[i] = nl[j]
               PROVE  i = j
    OBVIOUS
  <2>1. i + 1 = j + 1
    BY <1>4 DEF FreeSlots
  <2> QED
    BY <2>1, <1>2
<1>6. \A f \in Slot : ns[f] = "FREE" <=> \E i \in DOMAIN nl : nl[i] = f
  <2> SUFFICES ASSUME NEW f \in Slot
               PROVE  ns[f] = "FREE" <=> \E i \in DOMAIN nl : nl[i] = f
    OBVIOUS
  <2>1. CASE f = e
    BY <2>1, <1>3, <1>4
  <2>2. CASE f # e
    <3>1. ns[f] = st[f]
      BY <2>2
    <3>2. ASSUME NEW i \in DOMAIN fl, fl[i] = f
          PROVE  i - 1 \in DOMAIN nl /\ nl[i - 1] = f
      BY <3>2, <2>2, <1>1, <1>2
    <3> QED
      BY <3>1, <3>2, <1>4 DEF FreeSlots
  <2> QED
    BY <2>1, <2>2
<1>7. \A f \in Slot : np[f] <=> ns[f] # "FREE"
  <2> SUFFICES ASSUME NEW f \in Slot PROVE np[f] <=> ns[f] # "FREE"
    OBVIOUS
  <2>1. CASE f = e
    BY <2>1, <1>3
  <2>2. CASE f # e
    BY <2>2 DEF FreeSlots
  <2> QED
    BY <2>1, <2>2
<1> QED
  BY <1>1, <1>3, <1>5, <1>6, <1>7 DEF FreeSlots

-----------------------------------------------------------------------------
(* Creating and freeing environments *)

\* After the step no program that lives on is building e.
NobodyBuilds(e) ==
  /\ forking' \in [Slot -> EnvId \cup {None}]
  /\ \A q \in Slot : forking'[q] # None => forking'[q] = forking[q]
  /\ \A q \in Slot : status[q] # "FREE" /\ q # e /\ forking'[q] # None
                    => forking[q][1] # e

\* env_free of e, which is the caller's own or on no CPU, and no longer an
\* embryo of any program that lives on.
LEMMA MidFree ==
  ASSUME IInv, NEW c \in CPU, phase[c] = "kernel", curenv[c] # None,
         NEW e \in Slot, status[e] # "FREE",
         e = curenv[c] \/ (status[e] \notin Owned /\ status[curenv[c]] = "RUNNING"),
         EnvFree(e),
         UNCHANGED <<gen, parent, recving>>, NobodyBuilds(e),
         NEW st, st = [status EXCEPT ![e] = "FREE"],
         NEW cur, cur = IF e = curenv[c] THEN None ELSE curenv[c]
  PROVE  Mid(c, st, cur)
<1> DEFINE p == curenv[c]
<1>1. st \in [Slot -> Status] /\ p \in Slot /\ cur \in Slot \cup {None}
  BY DEF IInv, TypeOK, Status
<1>2. /\ st[e] = "FREE"
      /\ \A f \in Slot : f # e => st[f] = status[f]
  BY DEF IInv, TypeOK
<1>3. freeList' \in Seq(Slot) /\ FreeSlots(st, freeList', pgdir')
  BY PushFree DEF IInv, TypeOK, Table, EnvFree
<1>4. TableType'
  BY <1>3 DEF IInv, TypeOK, TableType, EnvFree, NobodyBuilds
<1>5. Embryos(st, gen', parent', recving', forking')
  <2> SUFFICES ASSUME NEW q \in Slot, st[q] # "FREE", forking'[q] # None
               PROVE  /\ st[forking'[q][1]] = "NOT_RUNNABLE"
                      /\ ~ recving'[forking'[q][1]]
                      /\ gen'[forking'[q][1]] = forking'[q][2]
                      /\ parent'[forking'[q][1]] = <<q, gen'[q]>>
    BY DEF Embryos
  <2>1. status[q] # "FREE" /\ q # e /\ forking[q] = forking'[q]
    BY <1>2 DEF NobodyBuilds
  <2>2. forking[q][1] \in Slot /\ forking[q][1] # e
    BY <2>1 DEF IInv, TypeOK, EnvId, NobodyBuilds
  <2>3. /\ status[forking[q][1]] = "NOT_RUNNABLE"
        /\ ~ recving[forking[q][1]]
        /\ gen[forking[q][1]] = forking[q][2]
        /\ parent[forking[q][1]] = <<q, gen[q]>>
    BY <2>1 DEF IInv, Table, Embryos
  <2> QED
    BY <1>2, <2>1, <2>2, <2>3
<1>6. Tenants(st, gen', recving')
  BY <1>2 DEF IInv, Table, Tenants
<1>7. cur # None => st[cur] \in {"RUNNING", "NOT_RUNNABLE"}
  BY <1>1, <1>2
<1>8. \A d \in CPU \ {c} : curenv[d] # None =>
        curenv[d] # cur /\ st[curenv[d]] \in Owned
  BY <1>2, HolderFacts DEF Owned
<1>9. \A f \in Slot : st[f] \in Owned =>
        f = cur \/ \E d \in CPU \ {c} : curenv[d] = f
  BY <1>2, HolderFacts DEF Owned
<1> QED
  BY <1>1, <1>3, <1>4, <1>5, <1>6, <1>7, <1>8, <1>9 DEF Mid, Table

\* sys_env_destroy, by a program that destroys a child at most once.
LEMMA DestroyOnceOK ==
  ASSUME IInv, NEW c \in CPU, NEW id \in EnvId \cup {None}, DestroyOnce(c, id)
  PROVE  IInv'
<1> DEFINE p == curenv[c]
           e == Envid2env(c, id, TRUE)
<1>1. /\ p \in Slot /\ p # None /\ status[p] = "RUNNING" /\ phase[c] = "kernel"
  BY HolderFacts DEF DestroyOnce, Calls, Owned
<1>2. /\ EnvDestroy(c, e) /\ e # None
      /\ forking' = [forking EXCEPT ![p] = IF @ = id THEN None ELSE @]
      /\ UNCHANGED <<gen, parent, recving>>
  BY DEF DestroyOnce, SysEnvDestroy
<1>3. /\ e \in Slot /\ status[e] # "FREE"
      /\ e # p => id = <<e, gen[e]>> /\ parent[e] = <<p, gen[p]>> /\ status[e] # "DYING"
  <2>1. CASE id = None
    BY <2>1, <1>1 DEF Envid2env
  <2>2. CASE id # None
    <3>1. id[1] \in Slot /\ e = id[1]
      BY <2>2, <1>2 DEF Envid2env, EnvId
    <3> QED
      BY <2>2, <3>1, <1>2 DEF Envid2env, EnvId, Id, DestroyOnce
  <2> QED
    BY <2>1, <2>2
<1>4. forking' \in [Slot -> EnvId \cup {None}]
  BY <1>2 DEF IInv, TypeOK
<1>5. pgdir[e]
  BY <1>3 DEF IInv, Table, FreeSlots
<1>6. CASE /\ status[e] = "RUNNING" /\ p # e
           /\ UNCHANGED <<pgdir, freeList>>
           /\ TrapReturn(c, [status EXCEPT ![e] = "DYING"])
  <2> DEFINE st == [status EXCEPT ![e] = "DYING"]
  <2>1. st \in [Slot -> Status] /\ TableType'
    BY <1>2, <1>4, <1>6 DEF IInv, TypeOK, TableType, Status
  <2>2. /\ st[e] = "DYING"
        /\ \A f \in Slot : f # e => st[f] = status[f]
    BY <1>3 DEF IInv, TypeOK
  <2> HIDE DEF st, e
  <2>3. FreeSlots(st, freeList', pgdir')
    <3>1. FreeSlots(status, freeList, pgdir) /\ freeList' = freeList /\ pgdir' = pgdir
      BY <1>6 DEF IInv, Table
    <3>2. \A f \in Slot : st[f] = "FREE" <=> status[f] = "FREE"
      BY <1>3, <2>2
    <3> QED
      BY <3>1, <3>2 DEF FreeSlots
  <2>4. Embryos(st, gen', parent', recving', forking')
    <3> SUFFICES ASSUME NEW q \in Slot, st[q] # "FREE", forking'[q] # None
                 PROVE  /\ st[forking'[q][1]] = "NOT_RUNNABLE"
                        /\ ~ recving'[forking'[q][1]]
                        /\ gen'[forking'[q][1]] = forking'[q][2]
                        /\ parent'[forking'[q][1]] = <<q, gen'[q]>>
      BY DEF Embryos
    <3>1. status[q] # "FREE" /\ forking[q] # None /\ forking'[q] = forking[q]
      BY <1>2, <1>3, <2>2 DEF IInv, TypeOK
    <3>2. forking[q][1] \in Slot
      BY <3>1 DEF IInv, TypeOK, EnvId
    <3>3. /\ status[forking[q][1]] = "NOT_RUNNABLE"
          /\ ~ recving[forking[q][1]]
          /\ gen[forking[q][1]] = forking[q][2]
          /\ parent[forking[q][1]] = <<q, gen[q]>>
      BY <3>1 DEF IInv, Table, Embryos
    <3> QED
      BY <1>2, <1>6, <2>2, <3>1, <3>2, <3>3
  <2>5. Tenants(st, gen', recving')
    BY <1>2, <1>3, <1>6, <2>2 DEF IInv, Table, Tenants
  <2>6. \A d \in CPU \ {c} : curenv[d] # None =>
          curenv[d] # p /\ st[curenv[d]] \in Owned
    <3>1. \A f \in Slot : status[f] \in Owned => st[f] \in Owned
      BY <2>2 DEF Owned
    <3> QED
      BY <1>1, <3>1, HolderFacts
  <2>7. \A f \in Slot : st[f] \in Owned =>
          f = p \/ \E d \in CPU \ {c} : curenv[d] = f
    BY <1>1, <1>6, <2>2, HolderFacts DEF Owned
  <2>8. st[p] = "RUNNING"
    BY <1>1, <1>6, <2>2
  <2>9. Mid(c, st, p)
    BY <1>1, <2>1, <2>3, <2>4, <2>5, <2>6, <2>7, <2>8 DEF Mid, Table
  <2> QED
    BY <1>1, <1>6, <2>9, TrapReturnOK DEF st
<1>7. CASE /\ ~ (status[e] = "RUNNING" /\ p # e)
           /\ EnvFree(e)
           /\ IF p = e THEN SchedYield(c, [status EXCEPT ![e] = "FREE"], None)
              ELSE TrapReturn(c, [status EXCEPT ![e] = "FREE"])
  <2>1. e = p \/ (status[e] \notin Owned /\ status[p] = "RUNNING")
    BY <1>1, <1>3, <1>7 DEF Owned
  <2>2. \A q \in Slot : forking'[q] # None => forking'[q] = forking[q]
    BY <1>2 DEF IInv, TypeOK
  <2>3. ASSUME NEW q \in Slot, status[q] # "FREE", q # e, forking'[q] # None
        PROVE  forking[q][1] # e
    <3>1. forking[q] # None /\ forking[q] \in EnvId
      BY <2>2, <2>3 DEF IInv, TypeOK
    <3>2. /\ status[forking[q][1]] = "NOT_RUNNABLE"
          /\ gen[forking[q][1]] = forking[q][2]
          /\ parent[forking[q][1]] = <<q, gen[q]>>
      BY <2>3, <3>1 DEF IInv, Table, Embryos
    <3>3. ASSUME forking[q][1] = e PROVE FALSE
      <4> HIDE DEF e
      <4>1. e # p /\ parent[e] = <<q, gen[q]>> /\ parent[e] = <<p, gen[p]>>
        BY <3>2, <3>3, <1>1, <1>3
      <4>2. q = p /\ forking[p] = id
        BY <3>1, <3>2, <3>3, <4>1, <1>3 DEF EnvId
      <4> QED
        BY <4>2, <1>1, <1>2, <2>3 DEF IInv, TypeOK
    <3> QED
      BY <3>3
  <2>4. NobodyBuilds(e)
    BY <1>4, <2>2, <2>3 DEF NobodyBuilds
  <2> DEFINE st == [status EXCEPT ![e] = "FREE"]
             cur == IF e = p THEN None ELSE p
  <2>5. EnvFree(e) /\ IF p = e THEN SchedYield(c, st, None) ELSE TrapReturn(c, st)
    BY <1>7
  <2>6. st = [status EXCEPT ![e] = "FREE"] /\ cur = IF e = p THEN None ELSE p
    OBVIOUS
  <2> HIDE DEF e, st, cur
  <2>7. Mid(c, st, cur)
    BY <1>1, <1>2, <1>3, <2>1, <2>4, <2>5, <2>6, MidFree
  <2>8. CASE e = p
    BY <2>5, <2>6, <2>7, <2>8, SchedYieldOK
  <2>9. CASE e # p
    BY <1>1, <2>5, <2>6, <2>7, <2>9, TrapReturnOK
  <2> QED
    BY <2>8, <2>9
<1> QED
  BY <1>2, <1>5, <1>6, <1>7 DEF EnvDestroy

\* trap() frees the zombie this CPU was running.
LEMMA CollectOK ==
  ASSUME IInv, NEW c \in CPU, Collect(c)
  PROVE  IInv'
<1> DEFINE p == curenv[c]
<1>1. p \in Slot /\ p # None /\ status[p] = "DYING" /\ phase[c] = "kernel"
  BY HolderFacts DEF Collect
<1>2. pgdir[p]
  BY <1>1 DEF IInv, Table, FreeSlots
<1>3. /\ EnvFree(p) /\ UNCHANGED <<gen, parent, recving, forking>>
      /\ SchedYield(c, [status EXCEPT ![p] = "FREE"], None)
  BY <1>2 DEF Collect
<1>4. forking' \in [Slot -> EnvId \cup {None}]
  BY <1>3 DEF IInv, TypeOK
<1>5. \A q \in Slot : status[q] # "FREE" /\ q # p /\ forking'[q] # None
                      => forking[q][1] # p
  BY <1>1, <1>3 DEF IInv, Table, Embryos
<1>6. NobodyBuilds(p)
  BY <1>3, <1>4, <1>5 DEF NobodyBuilds
<1> DEFINE st == [status EXCEPT ![p] = "FREE"]
<1>7. EnvFree(p) /\ SchedYield(c, st, None) /\ st = [status EXCEPT ![p] = "FREE"]
  BY <1>3
<1> HIDE DEF st
<1>8. Mid(c, st, None)
  BY <1>1, <1>3, <1>6, <1>7, MidFree
<1> QED
  BY <1>7, <1>8, SchedYieldOK

\* sys_exofork takes the head of the free list; nobody was building that slot.
LEMMA SysExoforkOK ==
  ASSUME IInv, NEW c \in CPU, SysExofork(c)
  PROVE  IInv'
<1> DEFINE p == curenv[c]
           e == Head(freeList)
           g == NextGen(gen[e])
           st == [status EXCEPT ![e] = "NOT_RUNNABLE"]
<1>1. /\ p \in Slot /\ p # None /\ status[p] = "RUNNING" /\ phase[c] = "kernel"
  BY HolderFacts DEF SysExofork, Calls, Owned
<1>2. /\ gen' = [gen EXCEPT ![e] = g]
      /\ parent' = [parent EXCEPT ![e] = <<p, gen[p]>>]
      /\ recving' = [recving EXCEPT ![e] = FALSE]
      /\ pgdir' = [pgdir EXCEPT ![e] = TRUE]
      /\ freeList' = Tail(freeList)
      /\ forking' = [forking EXCEPT ![e] = None, ![p] = <<e, g>>]
      /\ TrapReturn(c, st)
      /\ freeList # <<>>
  BY DEF SysExofork, Id
<1>3. /\ e \in Slot /\ status[e] = "FREE" /\ e # p
      /\ freeList' \in Seq(Slot) /\ FreeSlots(st, freeList', pgdir')
  BY <1>1, <1>2, PopFree DEF IInv, TypeOK, Table, Status
<1>4. g \in Gen
  BY <1>3, KernelAssumption DEF NextGen, Gen, IInv, TypeOK
<1>5. gen[p] \in Gen
  BY <1>1, KernelAssumption DEF IInv, TypeOK, Table, Tenants, Gen
<1>6. st \in [Slot -> Status] /\ TableType'
  <2>1. <<e, g>> \in EnvId /\ <<p, gen[p]>> \in EnvId
    BY <1>1, <1>3, <1>4, <1>5 DEF EnvId
  <2>2. gen' \in [Slot -> 0 .. GenLimit - 1]
    BY <1>2, <1>4, KernelAssumption DEF IInv, TypeOK, Gen
  <2> QED
    BY <1>2, <1>3, <2>1, <2>2 DEF IInv, TypeOK, TableType, Status
<1>7. /\ st[e] = "NOT_RUNNABLE" /\ gen'[e] = g /\ ~ recving'[e]
      /\ parent'[e] = <<p, gen[p]>> /\ forking'[e] = None /\ forking'[p] = <<e, g>>
      /\ \A f \in Slot : f # e => /\ st[f] = status[f] /\ gen'[f] = gen[f]
                                 /\ recving'[f] = recving[f] /\ parent'[f] = parent[f]
      /\ \A f \in Slot : f # e /\ f # p => forking'[f] = forking[f]
  BY <1>1, <1>2, <1>3 DEF IInv, TypeOK
<1>8. Embryos(st, gen', parent', recving', forking')
  <2> SUFFICES ASSUME NEW q \in Slot, st[q] # "FREE", forking'[q] # None
               PROVE  /\ st[forking'[q][1]] = "NOT_RUNNABLE"
                      /\ ~ recving'[forking'[q][1]]
                      /\ gen'[forking'[q][1]] = forking'[q][2]
                      /\ parent'[forking'[q][1]] = <<q, gen'[q]>>
    BY DEF Embryos
  <2> HIDE DEF e, g, st
  <2>1. CASE q = p
    <3>1. forking'[q] = <<e, g>> /\ gen'[q] = gen[p]
      BY <2>1, <1>1, <1>3, <1>7
    <3> QED
      BY <2>1, <3>1, <1>7
  <2>2. CASE q # p
    <3>1. q # e
      BY <1>7
    <3>2. status[q] # "FREE" /\ forking[q] # None /\ forking'[q] = forking[q]
      BY <2>2, <3>1, <1>7
    <3>3. forking[q][1] \in Slot
      BY <3>2 DEF IInv, TypeOK, EnvId
    <3>4. /\ status[forking[q][1]] = "NOT_RUNNABLE"
          /\ ~ recving[forking[q][1]]
          /\ gen[forking[q][1]] = forking[q][2]
          /\ parent[forking[q][1]] = <<q, gen[q]>>
      BY <3>2 DEF IInv, Table, Embryos
    <3> QED
      BY <1>3, <1>7, <3>1, <3>2, <3>3, <3>4
  <2> QED
    BY <2>1, <2>2
<1>9. Tenants(st, gen', recving')
  <2> HIDE DEF e, g, st
  <2>1. g # 0
    BY <1>4 DEF Gen
  <2> QED
    BY <1>7, <2>1 DEF IInv, Table, Tenants
<1>10. Mid(c, st, p)
  <2> HIDE DEF e, g
  <2>1. \A d \in CPU \ {c} : curenv[d] # None =>
          curenv[d] # p /\ st[curenv[d]] \in Owned
    BY <1>1, <1>3, <1>7, HolderFacts DEF Owned
  <2>2. \A f \in Slot : st[f] \in Owned =>
          f = p \/ \E d \in CPU \ {c} : curenv[d] = f
    BY <1>1, <1>7, HolderFacts DEF Owned
  <2> QED
    BY <1>1, <1>3, <1>6, <1>7, <1>8, <1>9, <2>1, <2>2 DEF Mid, Table
<1> QED
  BY <1>1, <1>2, <1>10, TrapReturnOK

-----------------------------------------------------------------------------
(* Entering the kernel, and the start *)

\* A trap only makes a CPU wait for the lock.
LEMMA TrapOK ==
  ASSUME IInv, NEW c \in CPU, Trap(c)
  PROVE  IInv'
<1>1. /\ phase[c] \in {"user", "halted"}
      /\ phase' = [phase EXCEPT ![c] = "spin"]
      /\ UNCHANGED <<status, gen, parent, recving, pgdir, freeList, forking, curenv, lock>>
  BY DEF Trap, IInv, CPUs
<1>2. TypeOK' /\ Table(status, gen, parent, recving, pgdir, freeList, forking)'
  BY <1>1 DEF IInv, TypeOK, Phase
<1>3. LockExcludes' /\ NoUseAfterFree' /\ CPUs'
  BY <1>1 DEF IInv, TypeOK, LockExcludes, NoUseAfterFree, CPUs
<1>4. OneCpuPerEnv'
  <2>1. \A d \in CPU : phase'[d] # "monitor" <=> phase[d] # "monitor"
    BY <1>1 DEF IInv, TypeOK
  <2> QED
    BY <1>1, <2>1 DEF IInv, OneCpuPerEnv
<1>5. MonitorIsLast'
  BY <1>1 DEF IInv, TypeOK, MonitorIsLast
<1> QED
  BY <1>2, <1>3, <1>4, <1>5 DEF IInv

\* lock_kernel lets in one CPU, when the lock is free.
LEMMA LockKernelOK ==
  ASSUME IInv, NEW c \in CPU, LockKernel(c)
  PROVE  IInv'
<1>1. /\ phase[c] = "spin" /\ lock = None /\ lock' = c
      /\ phase' = [phase EXCEPT ![c] = "kernel"]
      /\ UNCHANGED <<status, gen, parent, recving, pgdir, freeList, forking, curenv>>
  BY DEF LockKernel
<1>2. \A d \in CPU : phase[d] \notin {"kernel", "monitor", "panic"}
  BY <1>1, KernelAssumption DEF IInv, LockExcludes
<1>3. TypeOK' /\ Table(status, gen, parent, recving, pgdir, freeList, forking)'
  BY <1>1 DEF IInv, TypeOK, Phase
<1>4. LockExcludes' /\ NoUseAfterFree' /\ CPUs'
  BY <1>1, <1>2 DEF IInv, TypeOK, LockExcludes, NoUseAfterFree, CPUs
<1>5. OneCpuPerEnv'
  <2>1. \A d \in CPU : phase'[d] # "monitor" <=> phase[d] # "monitor"
    BY <1>1 DEF IInv, TypeOK
  <2> QED
    BY <1>1, <2>1 DEF IInv, OneCpuPerEnv
<1>6. MonitorIsLast'
  BY <1>1, <1>2 DEF IInv, TypeOK, MonitorIsLast
<1> QED
  BY <1>3, <1>4, <1>5, <1>6 DEF IInv

\* The machine i386_init hands to the scheduler satisfies the invariant.
LEMMA InitOK == Init => IInv
<1> SUFFICES ASSUME Init PROVE IInv
  OBVIOUS
<1>1. \A e \in Slot : e \in Nat /\ (status[e] = "RUNNABLE" \/ status[e] = "FREE")
  BY DEF Init, Slot
<1>2. /\ freeList \in Seq(Slot)
      /\ DOMAIN freeList = 1 .. NENV - NBoot
      /\ \A i \in 1 .. NENV - NBoot : freeList[i] = NBoot + i - 1 /\ freeList[i] \in Slot
  <2>1. \A i \in 1 .. NENV - NBoot : NBoot + i - 1 \in Slot
    BY KernelAssumption DEF Slot
  <2>2. NENV - NBoot \in Nat
    BY KernelAssumption
  <2> QED
    BY <2>1, <2>2 DEF Init
<1>3. TypeOK
  <2>1. gen \in [Slot -> 0 .. GenLimit - 1]
    BY KernelAssumption DEF Init
  <2>2. status \in [Slot -> Status] /\ pgdir \in [Slot -> BOOLEAN]
    BY DEF Init, Status
  <2>3. parent \in [Slot -> EnvId \cup {None}] /\ forking \in [Slot -> EnvId \cup {None}]
        /\ recving \in [Slot -> BOOLEAN]
    BY DEF Init
  <2>4. curenv \in [CPU -> Slot \cup {None}] /\ phase \in [CPU -> Phase]
        /\ lock \in CPU \cup {None}
    BY KernelAssumption DEF Init, Phase
  <2> QED
    BY <1>2, <2>1, <2>2, <2>3, <2>4 DEF TypeOK
<1>4. LockExcludes /\ NoUseAfterFree /\ MonitorIsLast /\ CPUs
  BY KernelAssumption DEF Init, LockExcludes, NoUseAfterFree, MonitorIsLast, CPUs
<1>5. OneCpuPerEnv
  BY <1>1, KernelAssumption DEF Init, OneCpuPerEnv
<1>6. FreeSlots(status, freeList, pgdir)
  <2>1. \A i, j \in DOMAIN freeList : freeList[i] = freeList[j] => i = j
    BY <1>2, KernelAssumption
  <2>2. ASSUME NEW e \in Slot
        PROVE  status[e] = "FREE" <=> \E i \in DOMAIN freeList : freeList[i] = e
    <3>1. e \in Nat /\ e < NENV /\ NBoot \in Nat /\ NENV \in Nat
      BY KernelAssumption DEF Slot
    <3>2. status[e] = "FREE" <=> ~ (e < NBoot)
      BY DEF Init
    <3>3. CASE e < NBoot
      <4>1. \A i \in DOMAIN freeList : i \in Nat /\ i >= 1 /\ freeList[i] = NBoot + i - 1
        BY <3>1, <1>2
      <4>2. \A i \in DOMAIN freeList : freeList[i] # e
        BY <3>1, <3>3, <4>1
      <4> QED
        BY <3>2, <3>3, <4>2
    <3>4. CASE ~ (e < NBoot)
      <4> DEFINE k == e - NBoot + 1
      <4>1. k \in 1 .. NENV - NBoot /\ NBoot + k - 1 = e
        BY <3>1, <3>4
      <4>2. k \in DOMAIN freeList /\ freeList[k] = e
        BY <4>1, <1>2
      <4> QED
        BY <3>2, <3>4, <4>2
    <3> QED
      BY <3>3, <3>4
  <2>3. \A e \in Slot : pgdir[e] <=> status[e] # "FREE"
    BY DEF Init
  <2> QED
    BY <2>1, <2>2, <2>3 DEF FreeSlots
<1>7. Embryos(status, gen, parent, recving, forking) /\ Tenants(status, gen, recving)
  BY DEF Init, Embryos, Tenants
<1> QED
  BY <1>3, <1>4, <1>5, <1>6, <1>7 DEF IInv, Table

-----------------------------------------------------------------------------
(* The theorems *)

\* Every step of the kernel keeps the invariant: one case per handler.
LEMMA NextOK == IInv /\ [Next]_vars => IInv'
<1> SUFFICES ASSUME IInv, [Next]_vars PROVE IInv'
  OBVIOUS
<1>1. CASE UNCHANGED vars
  <2>1. TypeOK' /\ LockExcludes'
    BY <1>1 DEF vars, IInv, TypeOK, LockExcludes
  <2>2. OneCpuPerEnv' /\ NoUseAfterFree'
    BY <1>1 DEF vars, IInv, OneCpuPerEnv, NoUseAfterFree
  <2>3. MonitorIsLast' /\ CPUs'
    BY <1>1 DEF vars, IInv, MonitorIsLast, CPUs
  <2>4. Table(status, gen, parent, recving, pgdir, freeList, forking)'
    BY <1>1 DEF vars, IInv
  <2> QED
    BY <2>1, <2>2, <2>3, <2>4 DEF IInv
<1>2. ASSUME NEW c \in CPU, Trap(c) PROVE IInv'
  BY <1>2, TrapOK
<1>3. ASSUME NEW c \in CPU, LockKernel(c) PROVE IInv'
  BY <1>3, LockKernelOK
<1>4. ASSUME NEW c \in CPU, KernelStep(c) PROVE IInv'
  <2>1. CASE Schedule(c)
    BY <2>1, ScheduleOK
  <2>2. CASE Collect(c)
    BY <2>2, CollectOK
  <2>3. CASE SysReturn(c)
    BY <2>3, SysReturnOK
  <2>4. CASE SysYield(c)
    BY <2>4, SysYieldOK
  <2>5. CASE SysExofork(c)
    BY <2>5, SysExoforkOK
  <2>6. CASE StartChild(c)
    BY <2>6, StartChildOK
  <2>7. CASE \E id \in EnvId \cup {None} : DestroyOnce(c, id)
    BY <2>7, DestroyOnceOK
  <2>8. CASE \E id \in EnvId : SysIpcTrySend(c, id)
    BY <2>8, SysIpcTrySendOK
  <2>9. CASE SysIpcRecv(c)
    BY <2>9, SysIpcRecvOK
  <2> QED
    BY <1>4, <2>1, <2>2, <2>3, <2>4, <2>5, <2>6, <2>7, <2>8, <2>9 DEF KernelStep
<1> QED
  BY <1>1, <1>2, <1>3, <1>4 DEF Next

\* The inductive invariant of the kernel under the library's use of its calls.
THEOREM Invariance == Spec => []IInv
BY InitOK, NextOK, PTL DEF Spec

\* Every variable keeps its type (kern/env.c, kern/sched.c).
THEOREM TypeCorrect == Spec => []TypeOK
<1>1. IInv => TypeOK
  BY DEF IInv
<1> QED
  BY Invariance, <1>1, PTL

\* The big kernel lock is held by exactly one CPU, or by none, and a CPU
\* edits the table only while it holds it (kern/spinlock.c).
THEOREM MutualExclusion == Spec => []LockExcludes
<1>1. IInv => LockExcludes
  BY DEF IInv
<1> QED
  BY Invariance, <1>1, PTL

\* No environment ever runs on two CPUs (kern/sched.c:25-26).
THEOREM NoDoubleRun == Spec => []OneCpuPerEnv
<1>1. IInv => OneCpuPerEnv
  BY DEF IInv
<1> QED
  BY Invariance, <1>1, PTL

\* No CPU stays on an environment that was freed, and the kernel never
\* follows a freed page directory (env_destroy, env_free, env_run).
THEOREM NeverFreedUnderUse == Spec => [](NoUseAfterFree /\ NoPanic)
<1>1. IInv => NoUseAfterFree /\ NoPanic
  BY DEF IInv, CPUs, NoPanic
<1> QED
  BY Invariance, <1>1, PTL

\* The free list is exact: env_alloc never hands out a slot in use, and no
\* slot is lost (env_alloc, env_free).
THEOREM FreeListIsExact == Spec => []FreeListExact
<1>1. IInv => FreeListExact
  BY DEF IInv, Table, FreeSlots, FreeListExact
<1> QED
  BY Invariance, <1>1, PTL

\* Neither a waiting environment nor a half-built child runs before the
\* message or the parent that releases it (sys_ipc_recv, sys_exofork).
THEOREM WaitersStayOff == Spec => []ReceiverBlocked
<1>1. IInv => ReceiverBlocked
  <2> SUFFICES ASSUME IInv, NEW e \in Slot, recving[e], status[e] # "FREE"
               PROVE  status[e] = "NOT_RUNNABLE" /\ ~ Embryo(e)
    BY DEF ReceiverBlocked
  <2>1. status[e] = "NOT_RUNNABLE"
    BY DEF IInv, Table, Tenants
  <2>2. ASSUME NEW p \in Slot, status[p] # "FREE", forking[p] = <<e, gen[e]>>
        PROVE  FALSE
    <3>1. gen[e] \in Gen
      BY KernelAssumption DEF IInv, TypeOK, Table, Tenants, Gen
    <3>2. forking[p] # None /\ forking[p][1] = e
      BY <2>2, <3>1, KernelAssumption DEF EnvId
    <3> QED
      BY <2>2, <3>2 DEF IInv, Table, Embryos
  <2> QED
    BY <2>1, <2>2 DEF Embryo, Id
<1> QED
  BY Invariance, <1>1, PTL

\* The monitor takes over only a machine with nothing left to run
\* (kern/sched.c:62-74).
THEOREM MonitorOnlyAtTheEnd == Spec => []MonitorIsLast
<1>1. IInv => MonitorIsLast
  BY DEF IInv
<1> QED
  BY Invariance, <1>1, PTL

-----------------------------------------------------------------------------
(* Zombies *)

\* No way out of the kernel revives a zombie: env_run is only called on a
\* runnable environment or on the running one.
LEMMA LeaveKeepsZombies ==
  ASSUME NEW c \in CPU, NEW st \in [Slot -> Status],
         NEW cur \in Slot \cup {None}, SchedYield(c, st, cur),
         NEW e \in Slot, st[e] \in {"DYING", "FREE"}
  PROVE  status'[e] = st[e]
<1>1. CASE \E f \in Runnable(st) : EnvRun(c, st, cur, f)
  BY <1>1 DEF EnvRun, Runnable
<1>2. CASE cur # None /\ st[cur] = "RUNNING" /\ EnvRun(c, st, cur, cur)
  BY <1>2 DEF EnvRun
<1>3. CASE SchedHalt(c, st, cur)
  BY <1>3 DEF SchedHalt
<1> QED
  BY <1>1, <1>2, <1>3 DEF SchedYield

\* The same for the end of trap().
LEMMA ReturnKeepsZombies ==
  ASSUME TypeOK, NEW c \in CPU, curenv[c] # None,
         NEW st \in [Slot -> Status], TrapReturn(c, st),
         NEW e \in Slot, st[e] \in {"DYING", "FREE"}
  PROVE  status'[e] = st[e]
<1>1. curenv[c] \in Slot
  BY DEF TypeOK
<1>2. CASE st[curenv[c]] = "RUNNING"
  <2>1. EnvRun(c, st, curenv[c], curenv[c])
    BY <1>2 DEF TrapReturn
  <2> QED
    BY <1>1, <1>2, <2>1 DEF EnvRun
<1>3. CASE st[curenv[c]] # "RUNNING"
  BY <1>1, <1>3, LeaveKeepsZombies DEF TrapReturn
<1> QED
  BY <1>2, <1>3

\* A step of the kernel leaves a zombie alone or frees it.
LEMMA ZombieStep ==
  ASSUME IInv, Next, NEW e \in Slot, status[e] = "DYING"
  PROVE  status'[e] \in {"DYING", "FREE"}
<1> PICK c \in CPU : Trap(c) \/ LockKernel(c) \/ KernelStep(c)
  BY DEF Next
<1>0. /\ TypeOK
      /\ status \in [Slot -> Status]
      /\ None \notin Slot
  BY KernelAssumption DEF IInv, TypeOK
<1>1. CASE Trap(c) \/ LockKernel(c)
  BY <1>1 DEF Trap, LockKernel
<1>2. CASE Schedule(c)
  BY <1>0, <1>2, LeaveKeepsZombies DEF Schedule
<1>3. CASE Collect(c)
  <2>1. curenv[c] \in Slot
    BY <1>0, <1>3 DEF Collect, TypeOK
  <2>2. CASE KernelPageFault(c)
    BY <2>2 DEF KernelPageFault
  <2>3. CASE SchedYield(c, [status EXCEPT ![curenv[c]] = "FREE"], None)
    <3> DEFINE st == [status EXCEPT ![curenv[c]] = "FREE"]
    <3>1. st \in [Slot -> Status] /\ st[e] \in {"DYING", "FREE"}
      BY <1>0, <2>1 DEF Status
    <3> QED
      BY <2>3, <3>1, LeaveKeepsZombies
  <2> QED
    BY <1>3, <2>2, <2>3 DEF Collect
<1>4. CASE SysReturn(c)
  BY <1>0, <1>4, ReturnKeepsZombies DEF SysReturn, Calls
<1>5. CASE SysYield(c)
  <2>1. curenv[c] \in Slot \cup {None}
    BY <1>0 DEF TypeOK
  <2> QED
    BY <1>0, <1>5, <2>1, LeaveKeepsZombies DEF SysYield
<1>6. CASE SysExofork(c)
  <2> DEFINE st == [status EXCEPT ![Head(freeList)] = "NOT_RUNNABLE"]
  <2>1. /\ Head(freeList) \in Slot
        /\ status[Head(freeList)] = "FREE"
    <3>1. freeList \in Seq(Slot) /\ freeList # <<>>
      BY <1>0, <1>6 DEF TypeOK, SysExofork
    <3>2. 1 \in DOMAIN freeList /\ Head(freeList) = freeList[1]
          /\ Head(freeList) \in Slot
      BY <3>1
    <3> QED
      BY <3>2 DEF IInv, Table, FreeSlots
  <2>2. st \in [Slot -> Status] /\ st[e] = "DYING"
    BY <1>0, <2>1 DEF Status
  <2>3. curenv[c] # None /\ TrapReturn(c, st)
    BY <1>6 DEF SysExofork, Calls
  <2> QED
    BY <1>0, <2>2, <2>3, ReturnKeepsZombies
<1>7. CASE StartChild(c)
  <2> DEFINE f == Envid2env(c, forking[curenv[c]], TRUE)
             st == [status EXCEPT ![f] = "RUNNABLE"]
  <2>1. /\ curenv[c] \in Slot
        /\ status[curenv[c]] # "FREE"
        /\ forking[curenv[c]] \in EnvId
    BY <1>0, <1>7 DEF StartChild, Calls, TypeOK, IInv, NoUseAfterFree
  <2>2. f \in Slot /\ status[f] = "NOT_RUNNABLE"
    <3>1. forking[curenv[c]] # None /\ f # None
      BY <1>7 DEF StartChild, SysEnvSetStatus
    <3>2. f = forking[curenv[c]][1]
      BY <3>1 DEF Envid2env
    <3>3. status[f] = "NOT_RUNNABLE"
      BY <2>1, <3>1, <3>2 DEF IInv, Table, Embryos
    <3> QED
      BY <2>1, <3>2, <3>3 DEF EnvId
  <2>3. st \in [Slot -> Status] /\ st[e] = "DYING"
    BY <1>0, <2>2 DEF Status
  <2>4. curenv[c] # None /\ TrapReturn(c, st)
    BY <1>7 DEF StartChild, SysEnvSetStatus, Calls
  <2> QED
    BY <1>0, <2>3, <2>4, ReturnKeepsZombies
<1>8. CASE \E id \in EnvId \cup {None} : DestroyOnce(c, id)
  <2> PICK id \in EnvId \cup {None} : DestroyOnce(c, id)
    BY <1>8
  <2> DEFINE f == Envid2env(c, id, TRUE)
  <2>1. /\ curenv[c] \in Slot
        /\ f # None
        /\ EnvDestroy(c, f)
    BY <1>0 DEF DestroyOnce, SysEnvDestroy, Calls, TypeOK
  <2>2. f \in Slot
    BY <2>1 DEF Envid2env, EnvId
  <2>3. CASE KernelPageFault(c)
    BY <2>3 DEF KernelPageFault
  <2>4. CASE TrapReturn(c, [status EXCEPT ![f] = "DYING"])
    <3>1. /\ [status EXCEPT ![f] = "DYING"] \in [Slot -> Status]
          /\ [status EXCEPT ![f] = "DYING"][e] \in {"DYING", "FREE"}
      BY <1>0, <2>2 DEF Status
    <3> QED
      BY <1>0, <2>1, <2>4, <3>1, ReturnKeepsZombies
  <2>5. CASE \/ TrapReturn(c, [status EXCEPT ![f] = "FREE"])
             \/ SchedYield(c, [status EXCEPT ![f] = "FREE"], None)
    <3>1. /\ [status EXCEPT ![f] = "FREE"] \in [Slot -> Status]
          /\ [status EXCEPT ![f] = "FREE"][e] \in {"DYING", "FREE"}
      BY <1>0, <2>2 DEF Status
    <3> QED
      BY <1>0, <2>1, <2>5, <3>1, ReturnKeepsZombies, LeaveKeepsZombies
  <2> QED
    BY <2>1, <2>3, <2>4, <2>5 DEF EnvDestroy
<1>9. CASE \E id \in EnvId : SysIpcTrySend(c, id)
  <2> PICK id \in EnvId : SysIpcTrySend(c, id)
    BY <1>9
  <2> DEFINE f == Envid2env(c, id, FALSE)
             st == [status EXCEPT ![f] = "RUNNABLE"]
  <2>1. f # None /\ recving[f] /\ curenv[c] # None /\ TrapReturn(c, st)
    BY DEF SysIpcTrySend, Calls
  <2>2. f = id[1] /\ f \in Slot /\ status[f] # "FREE"
    <3>1. id # None /\ id[1] \in Slot
      BY KernelAssumption DEF EnvId
    <3> QED
      BY <2>1, <3>1 DEF Envid2env
  <2>3. status[f] = "NOT_RUNNABLE"
    BY <2>1, <2>2 DEF IInv, Table, Tenants
  <2>4. st \in [Slot -> Status] /\ st[e] = "DYING"
    BY <1>0, <2>2, <2>3 DEF Status
  <2> QED
    BY <1>0, <2>1, <2>4, ReturnKeepsZombies
<1>10. CASE SysIpcRecv(c)
  <2> DEFINE st == [status EXCEPT ![curenv[c]] = "NOT_RUNNABLE"]
  <2>1. /\ curenv[c] \in Slot
        /\ status[curenv[c]] # "DYING"
        /\ SchedYield(c, st, curenv[c])
    BY <1>0, <1>10 DEF SysIpcRecv, Calls, TypeOK
  <2>2. st \in [Slot -> Status] /\ st[e] = "DYING"
    BY <1>0, <2>1 DEF Status
  <2> QED
    BY <2>1, <2>2, LeaveKeepsZombies
<1> QED
  BY <1>1, <1>2, <1>3, <1>4, <1>5, <1>6, <1>7, <1>8, <1>9, <1>10 DEF KernelStep

\* A zombie stays one until it is freed: only the CPU that was running it,
\* at its next trap, takes it out of ENV_DYING (env_destroy, trap).
THEOREM ZombiesNeverRevive == Spec => ZombiesOnlyDie
<1>1. IInv /\ [Next]_vars
      => [\A e \in Slot : status[e] = "DYING" => status'[e] \in {"DYING", "FREE"}]_vars
  BY ZombieStep
<1> QED
  BY Invariance, <1>1, PTL DEF Spec, ZombiesOnlyDie

-----------------------------------------------------------------------------
(* Kernel implements EnvLife: a handler moves each environment at most once  *)
(* (Moves), and its way out of the kernel leaves every other CPU where it    *)
(* was (Leaves). The rest of what EnvLife asks follows from IInv before and  *)
(* after the step.                                                           *)


\* What happens to an environment in a step of CPU c.
Moves(c) ==
  \A f \in Slot :
    \/ LifeOf(f)' = LifeOf(f)
    \/ <<LifeOf(f), LifeOf(f)'>> \in Life!ByOthers
    \/ f = curenv[c] /\ <<LifeOf(f), LifeOf(f)'>> \in Life!ByItself

\* CPU c goes to user mode in an environment it marks as running, or to none.
Leaves(c) ==
  /\ \A d \in CPU \ {c} : curenv'[d] = curenv[d] /\ phase'[d] = phase[d]
  /\ \/ curenv'[c] \in Slot /\ phase'[c] = "user" /\ status'[curenv'[c]] = "RUNNING"
     \/ curenv'[c] = None /\ phase'[c] = "halted"
     \/ phase'[c] = "monitor"

-----------------------------------------------------------------------------
(* The stages *)

\* The stage of a slot is given by env_status and env_ipc_recving.
LEMMA StageOf ==
  ASSUME TypeOK, NEW e \in Slot
  PROVE  /\ status[e] = "FREE" => LifeOf(e) = "none"
         /\ status[e] = "RUNNABLE" => LifeOf(e) = "ready"
         /\ status[e] = "RUNNING" => LifeOf(e) = "running"
         /\ status[e] = "DYING" => LifeOf(e) = "zombie"
         /\ status[e] = "NOT_RUNNABLE" /\ recving[e] => LifeOf(e) = "waiting"
         /\ status[e] = "NOT_RUNNABLE" /\ ~ recving[e] => LifeOf(e) = "embryo"
         /\ LifeOf(e) \in Life!Stage
BY DEF TypeOK, Status, LifeOf, Life!Stage

\* The same after a step.
LEMMA StageOfNext ==
  ASSUME TypeOK', NEW e \in Slot
  PROVE  /\ status'[e] = "FREE" => LifeOf(e)' = "none"
         /\ status'[e] = "RUNNABLE" => LifeOf(e)' = "ready"
         /\ status'[e] = "RUNNING" => LifeOf(e)' = "running"
         /\ status'[e] = "DYING" => LifeOf(e)' = "zombie"
         /\ status'[e] = "NOT_RUNNABLE" /\ recving'[e] => LifeOf(e)' = "waiting"
         /\ status'[e] = "NOT_RUNNABLE" /\ ~ recving'[e] => LifeOf(e)' = "embryo"
         /\ LifeOf(e)' \in Life!Stage
BY DEF TypeOK, Status, LifeOf, Life!Stage

\* An environment whose fields a step leaves alone stays in its stage.
LEMMA SameStage ==
  ASSUME NEW e \in Slot, status'[e] = status[e], recving'[e] = recving[e]
  PROVE  LifeOf(e)' = LifeOf(e)
BY DEF LifeOf

-----------------------------------------------------------------------------
(* The ways out of the kernel *)

\* A handler that moves each environment once and leaves the kernel is a step
\* of EnvLife: that its CPU alone has what it goes to, and that what it leaves
\* does not run, is in the invariant (env_run, sched_halt).
LEMMA HandlerRefines ==
  ASSUME IInv, IInv', NEW c \in CPU, phase[c] = "kernel", Moves(c), Leaves(c)
  PROVE  Life!Next
<1> DEFINE e == EnvOn(c)'
<1>1. /\ TypeOK /\ TypeOK' /\ OneCpuPerEnv /\ OneCpuPerEnv' /\ None \notin Slot
  BY KernelAssumption DEF IInv
<1>2. /\ \A d \in CPU : phase[d] # "monitor"
      /\ \A d \in CPU \ {c} : phase'[d] # "monitor"
  BY DEF IInv, LockExcludes, Leaves
<1>3. /\ \A d \in CPU : EnvOn(d) = curenv[d] /\ curenv[d] \in Slot \cup {None}
      /\ \A d \in CPU \ {c} : EnvOn(d)' = curenv[d] /\ curenv'[d] = curenv[d]
  BY <1>1, <1>2 DEF EnvOn, Leaves, TypeOK
<1>4. /\ e \in Slot \cup {None}
      /\ e # None => curenv'[c] = e /\ phase'[c] # "monitor" /\ status'[e] = "RUNNING"
  BY <1>1 DEF EnvOn, Leaves
<1>5. [d \in CPU |-> EnvOn(d)]' = [[d \in CPU |-> EnvOn(d)] EXCEPT ![c] = e]
  BY <1>3
<1>6. [f \in Slot |-> LifeOf(f)]' \in [Slot -> Life!Stage]
  BY <1>1, StageOfNext
<1>7. e \in Slot => \A d \in CPU \ {c} : EnvOn(d) # e
  BY <1>1, <1>3, <1>4 DEF OneCpuPerEnv
<1>8. ASSUME NEW f \in Slot, status'[f] \in {"RUNNING", "DYING"}
      PROVE  \E d \in CPU : EnvOn(d)' = f
  BY <1>1, <1>8 DEF OneCpuPerEnv, EnvOn
<1>9. ASSUME NEW f \in Slot, f = EnvOn(c), f # e
      PROVE  LifeOf(f)' \notin {"running", "zombie"}
  <2>1. \A d \in CPU : EnvOn(d)' # f
    BY <1>1, <1>3, <1>9 DEF OneCpuPerEnv
  <2>2. status'[f] \in {"FREE", "RUNNABLE", "NOT_RUNNABLE"}
    BY <1>1, <1>8, <2>1 DEF TypeOK, Status
  <2>3. LifeOf(f)' \in {"none", "ready", "waiting", "embryo"}
    BY <1>1, <2>2, StageOfNext
  <2> QED
    BY <2>3
<1>10. ASSUME NEW f \in Slot, LifeOf(f)' = "running"
       PROVE  \E d \in CPU : EnvOn(d)' = f
  <2>1. status'[f] = "RUNNING"
    BY <1>1, <1>10, StageOfNext DEF TypeOK, Status
  <2> QED
    BY <1>8, <2>1
<1>11. ASSUME NEW f \in Slot, f = e
       PROVE  LifeOf(f)' = "running"
  BY <1>1, <1>4, <1>11, StageOfNext
<1> HIDE DEF e
<1>12. Life!Step(c, e)
  BY <1>3, <1>5, <1>6, <1>7, <1>9, <1>10, <1>11 DEF Life!Step, Moves
<1> QED
  BY <1>4, <1>12 DEF Life!Next

\* env_run leaves the kernel.
LEMMA EnvRunLeaves ==
  ASSUME TypeOK, CPUs', NEW c \in CPU, NEW st, NEW cur, NEW e \in Slot,
         EnvRun(c, st, cur, e)
  PROVE  /\ Leaves(c)
         /\ \A f \in Slot : f # e /\ f # cur => status'[f] = st[f]
         /\ status'[e] = "RUNNING"
         /\ cur \in Slot /\ cur # e =>
              status'[cur] = IF st[cur] = "RUNNING" THEN "RUNNABLE" ELSE st[cur]
<1>1. phase'[c] # "panic"
  BY DEF CPUs
<1>2. /\ phase' = [phase EXCEPT ![c] = "user"]
      /\ curenv' = [curenv EXCEPT ![c] = e]
  BY <1>1 DEF EnvRun, Unlock, Stuck, TypeOK
<1>3. status' = [f \in Slot |->
                  IF f = e THEN "RUNNING"
                  ELSE IF f = cur /\ st[f] = "RUNNING" THEN "RUNNABLE"
                  ELSE st[f]]
  BY DEF EnvRun
<1> QED
  BY <1>2, <1>3 DEF Leaves, TypeOK

\* sched_halt leaves the kernel, for hlt or for the monitor.
LEMMA SchedHaltLeaves ==
  ASSUME TypeOK, NEW c \in CPU, NEW st, NEW cur, SchedHalt(c, st, cur)
  PROVE  Leaves(c) /\ status' = st
BY DEF SchedHalt, Unlock, Stuck, Leaves, TypeOK

\* What a handler that calls sched_yield has done: nothing, sys_ipc_recv, or
\* freeing the environment its CPU was on.
Yields(c, st, cur) ==
  /\ \A f \in Slot : f # curenv[c] => st[f] = status[f] /\ recving'[f] = recving[f]
  /\ LET p == curenv[c] IN
       \/ p = None /\ cur = None
       \/ p \in Slot /\ cur = p /\ status[p] = "RUNNING" /\ st[p] = "RUNNING"
       \/ p \in Slot /\ cur = p /\ status[p] = "RUNNING" /\ st[p] = "NOT_RUNNABLE" /\ recving'[p]
       \/ p \in Slot /\ cur = None /\ status[p] \in Owned /\ st[p] = "FREE"

\* sched_yield takes one environment from ready to running, and the one it
\* leaves from running to ready.
LEMMA YieldRefines ==
  ASSUME IInv, IInv', NEW c \in CPU, phase[c] = "kernel",
         NEW st, NEW cur, Yields(c, st, cur), SchedYield(c, st, cur)
  PROVE  Life!Next
<1> DEFINE p == curenv[c]
<1>1. TypeOK /\ TypeOK' /\ CPUs' /\ None \notin Slot
  BY KernelAssumption DEF IInv
<1>2. CASE \E e \in Slot : /\ EnvRun(c, st, cur, e)
                           /\ st[e] = "RUNNABLE" \/ (e = cur /\ st[e] = "RUNNING")
  <2> PICK e \in Slot : /\ EnvRun(c, st, cur, e)
                        /\ st[e] = "RUNNABLE" \/ (e = cur /\ st[e] = "RUNNING")
    BY <1>2
  <2>1. /\ Leaves(c)
        /\ \A f \in Slot : f # e /\ f # cur => status'[f] = st[f]
        /\ status'[e] = "RUNNING"
        /\ cur \in Slot /\ cur # e =>
              status'[cur] = IF st[cur] = "RUNNING" THEN "RUNNABLE" ELSE st[cur]
    BY <1>1, EnvRunLeaves
  <2>2. Moves(c)
    <3> SUFFICES ASSUME NEW f \in Slot
                 PROVE  \/ LifeOf(f)' = LifeOf(f)
                        \/ <<LifeOf(f), LifeOf(f)'>> \in Life!ByOthers
                        \/ f = p /\ <<LifeOf(f), LifeOf(f)'>> \in Life!ByItself
      BY DEF Moves
    <3>1. CASE f # p /\ f # e
      BY <1>1, <2>1, <3>1, SameStage DEF Yields
    <3>2. CASE f # p /\ f = e
      <4>1. status[e] = "RUNNABLE"
        BY <3>2, <1>1 DEF Yields
      <4>2. LifeOf(f) = "ready" /\ LifeOf(f)' = "running"
        BY <4>1, <3>2, <2>1, <1>1, StageOf, StageOfNext
      <4> QED
        BY <4>2 DEF Life!ByOthers
    <3>3. CASE f = p /\ status[p] = "RUNNING"
      <4>1. LifeOf(f) = "running"
        BY <3>3, <1>1, StageOf
      <4>2. \/ status'[p] \in {"RUNNING", "RUNNABLE", "FREE"}
            \/ status'[p] = "NOT_RUNNABLE" /\ recving'[p]
        BY <3>3, <2>1, <1>1 DEF Yields
      <4>3. LifeOf(f)' \in {"running", "ready", "none", "waiting"}
        BY <4>2, <3>3, <1>1, StageOfNext
      <4> QED
        BY <4>1, <4>3, <3>3 DEF Life!ByItself
    <3>4. CASE f = p /\ status[p] # "RUNNING"
      <4>1. status[p] = "DYING" /\ cur = None /\ st[p] = "FREE"
        BY <3>4, <1>1 DEF Yields, Owned
      <4>2. status'[p] = "FREE"
        BY <3>4, <4>1, <2>1, <1>1
      <4>3. LifeOf(f) = "zombie" /\ LifeOf(f)' = "none"
        BY <4>1, <4>2, <3>4, <1>1, StageOf, StageOfNext
      <4> QED
        BY <4>3, <3>4 DEF Life!ByItself
    <3> QED
      BY <3>1, <3>2, <3>3, <3>4
  <2> QED
    BY <2>1, <2>2, HandlerRefines
<1>3. CASE SchedHalt(c, st, cur) /\ ~ (cur # None /\ st[cur] = "RUNNING")
  <2>1. Leaves(c) /\ status' = st
    BY <1>1, <1>3, SchedHaltLeaves
  <2>2. Moves(c)
    <3> SUFFICES ASSUME NEW f \in Slot
                 PROVE  \/ LifeOf(f)' = LifeOf(f)
                        \/ f = p /\ <<LifeOf(f), LifeOf(f)'>> \in Life!ByItself
      BY DEF Moves
    <3>1. CASE f # p
      BY <2>1, <3>1, SameStage DEF Yields
    <3>2. CASE f = p
      <4>1. \/ status[p] \in Owned /\ status'[p] = "FREE"
            \/ status[p] = "RUNNING" /\ status'[p] = "NOT_RUNNABLE" /\ recving'[p]
        BY <3>2, <2>1, <1>1, <1>3 DEF Yields
      <4>2. \/ LifeOf(f) \in {"running", "zombie"} /\ LifeOf(f)' = "none"
            \/ LifeOf(f) = "running" /\ LifeOf(f)' = "waiting"
        BY <4>1, <3>2, <1>1, StageOf, StageOfNext DEF Owned
      <4> QED
        BY <4>2, <3>2 DEF Life!ByItself
    <3> QED
      BY <3>1, <3>2
  <2> QED
    BY <2>1, <2>2, HandlerRefines
<1> QED
  BY <1>2, <1>3, <1>1 DEF SchedYield, Runnable, Yields

\* trap() returns to the environment that called, which goes on running.
LEMMA ReturnLeaves ==
  ASSUME IInv, IInv', NEW c \in CPU, Calls(c),
         NEW st \in [Slot -> Status], st[curenv[c]] = "RUNNING", TrapReturn(c, st)
  PROVE  Leaves(c) /\ status' = st
<1>1. curenv[c] \in Slot
  BY DEF IInv, TypeOK, Calls
<1>2. EnvRun(c, st, curenv[c], curenv[c])
  BY DEF TrapReturn
<1>3. status' = st
  BY <1>1, <1>2 DEF EnvRun
<1> QED
  BY <1>1, <1>2, <1>3, EnvRunLeaves DEF IInv

-----------------------------------------------------------------------------
(* The handlers *)

\* A call that gives environment e one move, made by somebody else, and returns
\* to the caller.
LEMMA CallRefines ==
  ASSUME IInv, IInv', NEW c \in CPU, Calls(c),
         NEW e \in Slot, e # curenv[c], NEW s \in Status,
         TrapReturn(c, [status EXCEPT ![e] = s]),
         \A f \in Slot : f # e => recving'[f] = recving[f],
         status'[e] = s => \/ LifeOf(e)' = LifeOf(e)
                           \/ <<LifeOf(e), LifeOf(e)'>> \in Life!ByOthers
  PROVE  Life!Next
<1> DEFINE st == [status EXCEPT ![e] = s]
<1>1. curenv[c] \in Slot /\ status[curenv[c]] = "RUNNING" /\ phase[c] = "kernel"
  BY HolderFacts DEF Calls, Owned
<1>2. st \in [Slot -> Status] /\ st[curenv[c]] = "RUNNING" /\ st[e] = s
      /\ \A f \in Slot : f # e => st[f] = status[f]
  BY <1>1 DEF IInv, TypeOK
<1>3. TrapReturn(c, st)
  OBVIOUS
<1> HIDE DEF st
<1>4. Leaves(c) /\ status' = st
  BY <1>2, <1>3, ReturnLeaves
<1>5. Moves(c)
  BY <1>2, <1>4, SameStage DEF Moves
<1> QED
  BY <1>1, <1>4, <1>5, HandlerRefines

\* The scheduler, the timer and the calls that leave the table alone.
LEMMA ScheduleReturnYieldRefine ==
  ASSUME IInv, IInv', NEW c \in CPU, Schedule(c) \/ SysReturn(c) \/ SysYield(c)
  PROVE  Life!Next
<1>1. phase[c] = "kernel" /\ UNCHANGED recving
  BY DEF Schedule, SysReturn, SysYield, Calls
<1>2. CASE Schedule(c)
  <2>1. Yields(c, status, None) /\ SchedYield(c, status, None)
    BY <1>1, <1>2 DEF Schedule, Yields
  <2> QED
    BY <1>1, <2>1, YieldRefines
<1>3. CASE SysYield(c)
  <2>1. curenv[c] \in Slot /\ status[curenv[c]] = "RUNNING"
    BY <1>3, HolderFacts DEF SysYield, Calls, Owned
  <2>2. Yields(c, status, curenv[c]) /\ SchedYield(c, status, curenv[c])
    BY <1>1, <1>3, <2>1 DEF SysYield, Yields
  <2> QED
    BY <1>1, <2>2, YieldRefines
<1>4. CASE SysReturn(c)
  <2>1. Calls(c) /\ status[curenv[c]] = "RUNNING" /\ status \in [Slot -> Status]
    BY <1>4, HolderFacts DEF SysReturn, Calls, Owned, IInv, TypeOK
  <2>2. Leaves(c) /\ status' = status
    BY <1>4, <2>1, ReturnLeaves DEF SysReturn
  <2>3. Moves(c)
    BY <1>1, <2>2, SameStage DEF Moves
  <2> QED
    BY <1>1, <2>2, <2>3, HandlerRefines
<1> QED
  BY <1>2, <1>3, <1>4

\* sys_ipc_recv takes the caller, and a zombie's collection the zombie, off its
\* CPU.
LEMMA RecvCollectRefine ==
  ASSUME IInv, IInv', NEW c \in CPU, SysIpcRecv(c) \/ Collect(c)
  PROVE  Life!Next
<1> DEFINE p == curenv[c]
<1>1. p \in Slot /\ phase[c] = "kernel" /\ TypeOK
  BY HolderFacts DEF SysIpcRecv, Collect, Calls, IInv
<1>2. CASE SysIpcRecv(c)
  <2>1. status[p] = "RUNNING"
    BY <1>2, HolderFacts DEF SysIpcRecv, Calls, Owned
  <2>2. /\ recving' = [recving EXCEPT ![p] = TRUE]
        /\ SchedYield(c, [status EXCEPT ![p] = "NOT_RUNNABLE"], p)
    BY <1>2 DEF SysIpcRecv
  <2>3. Yields(c, [status EXCEPT ![p] = "NOT_RUNNABLE"], p)
    BY <1>1, <2>1, <2>2 DEF Yields, TypeOK
  <2> QED
    BY <1>1, <2>2, <2>3, YieldRefines
<1>3. CASE Collect(c)
  <2>1. pgdir[p] /\ status[p] = "DYING"
    BY <1>1, <1>3 DEF Collect, IInv, Table, FreeSlots
  <2>2. SchedYield(c, [status EXCEPT ![p] = "FREE"], None) /\ UNCHANGED recving
    BY <1>3, <2>1 DEF Collect
  <2>3. Yields(c, [status EXCEPT ![p] = "FREE"], None)
    BY <1>1, <2>1, <2>2 DEF Yields, Owned, TypeOK
  <2> QED
    BY <1>1, <2>2, <2>3, YieldRefines
<1> QED
  BY <1>2, <1>3

\* sys_exofork makes an embryo of a free slot.
LEMMA SysExoforkRefines ==
  ASSUME IInv, IInv', NEW c \in CPU, SysExofork(c)
  PROVE  Life!Next
<1>1. PICK e \in Slot : e = Head(freeList) /\ status[e] = "FREE"
  <2>1. freeList \in Seq(Slot) /\ freeList # <<>>
    BY DEF IInv, TypeOK, SysExofork
  <2>2. /\ 1 \in DOMAIN freeList /\ Head(freeList) = freeList[1]
        /\ Head(freeList) \in Slot
    BY <2>1
  <2> QED
    BY <2>2 DEF IInv, Table, FreeSlots
<1>2. /\ Calls(c) /\ recving' = [recving EXCEPT ![e] = FALSE]
      /\ TrapReturn(c, [status EXCEPT ![e] = "NOT_RUNNABLE"])
  BY <1>1 DEF SysExofork
<1>3. e # curenv[c] /\ "NOT_RUNNABLE" \in Status
  BY <1>1, <1>2, HolderFacts DEF Calls, Owned, Status
<1>4. /\ \A f \in Slot : f # e => recving'[f] = recving[f]
      /\ ~ recving'[e]
  BY <1>1, <1>2 DEF IInv, TypeOK
<1>5. ASSUME status'[e] = "NOT_RUNNABLE"
      PROVE  <<LifeOf(e), LifeOf(e)'>> \in Life!ByOthers
  <2>1. LifeOf(e) = "none" /\ LifeOf(e)' = "embryo"
    BY <1>1, <1>4, <1>5, StageOf, StageOfNext DEF IInv
  <2> QED
    BY <2>1 DEF Life!ByOthers
<1> QED
  BY <1>1, <1>2, <1>3, <1>4, <1>5, CallRefines

\* The parent starts its child: what it names is the embryo it made.
LEMMA StartChildRefines ==
  ASSUME IInv, IInv', NEW c \in CPU, StartChild(c)
  PROVE  Life!Next
<1> DEFINE p == curenv[c]
<1>1. /\ Calls(c) /\ p \in Slot /\ status[p] = "RUNNING"
      /\ forking[p] # None /\ forking[p] \in EnvId
  BY HolderFacts DEF StartChild, Calls, Owned, IInv, TypeOK
<1>2. PICK e \in Slot : e = forking[p][1]
  BY <1>1 DEF EnvId
<1>3. /\ UNCHANGED recving
      /\ TrapReturn(c, [status EXCEPT ![e] = "RUNNABLE"])
  BY <1>1, <1>2 DEF StartChild, SysEnvSetStatus, Envid2env
<1>4. status[e] = "NOT_RUNNABLE" /\ ~ recving[e]
  BY <1>1, <1>2 DEF IInv, Table, Embryos
<1>5. ASSUME status'[e] = "RUNNABLE"
      PROVE  <<LifeOf(e), LifeOf(e)'>> \in Life!ByOthers
  <2>1. LifeOf(e) = "embryo" /\ LifeOf(e)' = "ready"
    BY <1>4, <1>3, <1>5, StageOf, StageOfNext DEF IInv
  <2> QED
    BY <2>1 DEF Life!ByOthers
<1>6. e # p /\ "RUNNABLE" \in Status
  BY <1>1, <1>4 DEF Status
<1> QED
  BY <1>1, <1>3, <1>5, <1>6, CallRefines

\* A message wakes an environment that waits for one.
LEMMA SysIpcTrySendRefines ==
  ASSUME IInv, IInv', NEW c \in CPU, NEW id \in EnvId, SysIpcTrySend(c, id)
  PROVE  Life!Next
<1>1. PICK e \in Slot : e = id[1]
  BY DEF EnvId
<1>2. /\ Calls(c) /\ recving[e] /\ status[e] # "FREE"
      /\ recving' = [recving EXCEPT ![e] = FALSE]
      /\ TrapReturn(c, [status EXCEPT ![e] = "RUNNABLE"])
  BY <1>1, KernelAssumption DEF SysIpcTrySend, Envid2env
<1>3. status[e] = "NOT_RUNNABLE"
  BY <1>2 DEF IInv, Table, Tenants
<1>4. ASSUME status'[e] = "RUNNABLE"
      PROVE  <<LifeOf(e), LifeOf(e)'>> \in Life!ByOthers
  <2>1. LifeOf(e) = "waiting" /\ LifeOf(e)' = "ready"
    BY <1>2, <1>3, <1>4, StageOf, StageOfNext DEF IInv
  <2> QED
    BY <2>1 DEF Life!ByOthers
<1>5. e # curenv[c] /\ "RUNNABLE" \in Status
      /\ \A f \in Slot : f # e => recving'[f] = recving[f]
  BY <1>2, <1>3, HolderFacts DEF Calls, Owned, Status, IInv, TypeOK
<1> QED
  BY <1>2, <1>4, <1>5, CallRefines

\* env_destroy makes a zombie of what runs on another CPU, and frees anything
\* else, the caller among it.
LEMMA DestroyOnceRefines ==
  ASSUME IInv, IInv', NEW c \in CPU, NEW id \in EnvId \cup {None}, DestroyOnce(c, id)
  PROVE  Life!Next
<1> DEFINE p == curenv[c]
<1>1. /\ Calls(c) /\ p \in Slot /\ status[p] = "RUNNING" /\ phase[c] = "kernel"
      /\ TypeOK /\ TypeOK'
  BY HolderFacts DEF DestroyOnce, Calls, Owned, IInv
<1>2. Envid2env(c, id, TRUE) \in Slot
  BY <1>1 DEF DestroyOnce, SysEnvDestroy, Envid2env, EnvId
<1>3. PICK e \in Slot : e = Envid2env(c, id, TRUE)
  BY <1>2
<1>4. /\ EnvDestroy(c, e) /\ UNCHANGED recving
      /\ status[e] # "FREE" /\ status[e] # "DYING"
  BY <1>1, <1>3 DEF DestroyOnce, SysEnvDestroy, Envid2env
<1>5. pgdir[e]
  BY <1>4 DEF IInv, Table, FreeSlots
<1>6. CASE /\ status[e] = "RUNNING" /\ p # e
           /\ TrapReturn(c, [status EXCEPT ![e] = "DYING"])
  <2>1. ASSUME status'[e] = "DYING"
        PROVE  <<LifeOf(e), LifeOf(e)'>> \in Life!ByOthers
    <3>1. LifeOf(e) = "running" /\ LifeOf(e)' = "zombie"
      BY <1>1, <1>4, <1>6, <2>1, StageOf, StageOfNext
    <3> QED
      BY <3>1 DEF Life!ByOthers
  <2>2. "DYING" \in Status
    BY DEF Status
  <2> QED
    BY <1>1, <1>4, <1>6, <2>1, <2>2, CallRefines
<1>7. CASE p = e /\ SchedYield(c, [status EXCEPT ![e] = "FREE"], None)
  <2>1. Yields(c, [status EXCEPT ![e] = "FREE"], None)
    BY <1>1, <1>4, <1>7 DEF Yields, Owned, TypeOK
  <2> QED
    BY <1>1, <1>7, <2>1, YieldRefines
<1>8. CASE /\ status[e] # "RUNNING" /\ p # e
           /\ TrapReturn(c, [status EXCEPT ![e] = "FREE"])
  <2>1. ASSUME status'[e] = "FREE"
        PROVE  <<LifeOf(e), LifeOf(e)'>> \in Life!ByOthers
    <3>1. LifeOf(e) \in {"ready", "waiting", "embryo"} /\ LifeOf(e)' = "none"
      BY <1>1, <1>4, <1>8, <2>1, StageOf, StageOfNext DEF TypeOK, Status
    <3> QED
      BY <3>1 DEF Life!ByOthers
  <2>2. "FREE" \in Status
    BY DEF Status
  <2> QED
    BY <1>1, <1>4, <1>8, <2>1, <2>2, CallRefines
<1> QED
  BY <1>4, <1>6, <1>7, <1>8, <1>5 DEF EnvDestroy

-----------------------------------------------------------------------------
(* The theorem *)

\* i386_init: every environment is ready or does not exist, and no CPU is on one.
LEMMA InitRefines == Init => Life!Init
<1> SUFFICES ASSUME Init PROVE Life!Init
  OBVIOUS
<1>1. \A e \in Slot : LifeOf(e) \in {"none", "ready"}
  BY DEF Init, LifeOf
<1>2. \A c \in CPU : EnvOn(c) = None
  BY DEF Init, EnvOn
<1> QED
  BY <1>1, <1>2 DEF Life!Init

\* Entering the kernel changes nothing, a handler is one step of EnvLife.
LEMMA StepRefines == IInv /\ IInv' /\ [Next]_vars => [Life!Next]_(Life!vars)
<1> SUFFICES ASSUME IInv, IInv', [Next]_vars
             PROVE  Life!Next \/ UNCHANGED Life!vars
  OBVIOUS
<1>1. ASSUME UNCHANGED <<status, recving, curenv>>,
             \A c \in CPU : phase'[c] = "monitor" <=> phase[c] = "monitor"
      PROVE  UNCHANGED Life!vars
  BY <1>1 DEF Life!vars, LifeOf, EnvOn
<1>2. CASE UNCHANGED vars
  BY <1>1, <1>2 DEF vars
<1>3. CASE \E c \in CPU : Trap(c) \/ LockKernel(c)
  <2>1. /\ UNCHANGED <<status, recving, curenv>>
        /\ \A c \in CPU : phase'[c] = "monitor" <=> phase[c] = "monitor"
    BY <1>3 DEF Trap, LockKernel, IInv, TypeOK
  <2> QED
    BY <1>1, <2>1
<1>4. CASE \E c \in CPU : KernelStep(c)
  BY <1>4, ScheduleReturnYieldRefine, RecvCollectRefine, SysExoforkRefines,
     StartChildRefines, SysIpcTrySendRefines, DestroyOnceRefines DEF KernelStep
<1> QED
  BY <1>2, <1>3, <1>4 DEF Next

\* The kernel implements the life of an environment, whatever the CPUs do: on
\* one CPU at most, off it only by a step of that CPU, and one change of stage
\* per step (env_run, env_destroy, sys_ipc_recv, sys_exofork together).
THEOREM Implementation == Spec => ImplementsEnvLife
<1>1. IInv /\ IInv' /\ [Next]_vars => [Life!Next]_(Life!vars)
  BY StepRefines
<1> QED
  BY Invariance, InitRefines, <1>1, PTL DEF Spec, ImplementsEnvLife, Life!Spec

-----------------------------------------------------------------------------
(* Who controls whom. Before the generations of a slot repeat, an envid     *)
(* names one environment only, the one that was there when it was given out *)
(* (KernelHistory).                                                         *)

\* The generations of a slot cannot have repeated.
Early == births < NBoot + GenLimit - 1

Counted == births \in Nat /\ births >= NBoot

\* No slot has had more tenants than there were births.
Young == Early => \A e \in Slot : gen[e] <= births - NBoot + 1

\* env_parent_id names the environment that called sys_exofork, or one that is
\* no longer there; never the slot's next tenant.
ParentIsCreator ==
  Early => \A e \in Slot : parent[e] # None =>
    /\ parent[e][2] <= gen[parent[e][1]]
    /\ parent[e][2] = gen[parent[e][1]] => birth[parent[e][1]] = creator[e]

HInv == IInv /\ Counted /\ Young /\ ParentIsCreator

-----------------------------------------------------------------------------
(* What a call does to an environment other than the caller                 *)

\* e is ended, or started by somebody who does not send it a message.
Controlled(e) ==
  \/ status[e] \notin {"FREE", "DYING"} /\ status'[e] \in {"FREE", "DYING"}
  \/ status[e] = "NOT_RUNNABLE" /\ ~ recving[e] /\ status'[e] # status[e]

\* To be put on a CPU is no such thing.
OnlyRuns(e, st) ==
  status'[e] = st[e] \/ (st[e] = "RUNNABLE" /\ status'[e] = "RUNNING")

\* sched_yield puts an environment on the CPU.
LEMMA YieldOnlyRuns ==
  ASSUME NEW c \in CPU, NEW st \in [Slot -> Status], NEW cur \in Slot \cup {None},
         SchedYield(c, st, cur), NEW e \in Slot, e # cur
  PROVE  OnlyRuns(e, st)
<1>1. CASE \E f \in Runnable(st) : EnvRun(c, st, cur, f)
  BY <1>1 DEF EnvRun, Runnable, OnlyRuns
<1>2. CASE cur # None /\ st[cur] = "RUNNING" /\ EnvRun(c, st, cur, cur)
  BY <1>2 DEF EnvRun, OnlyRuns
<1>3. CASE SchedHalt(c, st, cur)
  BY <1>3 DEF SchedHalt, OnlyRuns
<1> QED
  BY <1>1, <1>2, <1>3 DEF SchedYield

\* So does the end of trap().
LEMMA ReturnOnlyRuns ==
  ASSUME TypeOK, NEW c \in CPU, curenv[c] # None,
         NEW st \in [Slot -> Status], TrapReturn(c, st),
         NEW e \in Slot, e # curenv[c]
  PROVE  OnlyRuns(e, st)
<1>1. curenv[c] \in Slot
  BY DEF TypeOK
<1>2. CASE st[curenv[c]] = "RUNNING"
  <2>1. EnvRun(c, st, curenv[c], curenv[c])
    BY <1>2 DEF TrapReturn
  <2> QED
    BY <1>1, <1>2, <2>1 DEF EnvRun, OnlyRuns
<1>3. CASE st[curenv[c]] # "RUNNING"
  BY <1>1, <1>3, YieldOnlyRuns DEF TrapReturn
<1> QED
  BY <1>2, <1>3

\* A handler that edits the status of f alone leaves the others uncontrolled.
LEMMA EditsOne ==
  ASSUME TypeOK, NEW c \in CPU, NEW f \in Slot, NEW s \in Status,
         \/ curenv[c] # None /\ TrapReturn(c, [status EXCEPT ![f] = s])
         \/ \E cur \in {curenv[c], None} : SchedYield(c, [status EXCEPT ![f] = s], cur),
         NEW e \in Slot, e # curenv[c]
  PROVE  /\ e # f => ~ Controlled(e)
         /\ e = f => status'[e] = s \/ (s = "RUNNABLE" /\ status'[e] = "RUNNING")
<1>1. PICK st : st = [status EXCEPT ![f] = s]
  OBVIOUS
<1>2. st \in [Slot -> Status] /\ st[f] = s /\ (e # f => st[e] = status[e])
  BY <1>1 DEF TypeOK
<1>3. curenv[c] \in Slot \cup {None} /\ None \notin Slot
  BY KernelAssumption DEF TypeOK
<1>4. OnlyRuns(e, st)
  <2>1. CASE curenv[c] # None /\ TrapReturn(c, st)
    BY <1>2, <2>1, ReturnOnlyRuns
  <2>2. ASSUME NEW cur \in {curenv[c], None}, SchedYield(c, st, cur)
        PROVE  OnlyRuns(e, st)
    <3>1. cur \in Slot \cup {None} /\ e # cur
      BY <1>3
    <3> QED
      BY <1>2, <2>2, <3>1, YieldOnlyRuns
  <2> QED
    BY <1>1, <2>1, <2>2
<1> QED
  BY <1>2, <1>4 DEF OnlyRuns, Controlled

\* A handler that edits no status controls nobody.
LEMMA EditsNone ==
  ASSUME TypeOK, NEW c \in CPU,
         \/ curenv[c] # None /\ TrapReturn(c, status)
         \/ \E cur \in {curenv[c], None} : SchedYield(c, status, cur),
         NEW e \in Slot, e # curenv[c]
  PROVE  ~ Controlled(e)
<1>1. status \in [Slot -> Status] /\ curenv[c] \in Slot \cup {None} /\ None \notin Slot
  BY KernelAssumption DEF TypeOK
<1>2. OnlyRuns(e, status)
  BY <1>1, YieldOnlyRuns, ReturnOnlyRuns
<1> QED
  BY <1>2 DEF OnlyRuns, Controlled

\* envid2env with checkperm lets a call at its caller and its caller's children.
LEMMA PermittedIsChild ==
  ASSUME NEW c \in CPU, NEW id \in EnvId \cup {None},
         NEW f, f = Envid2env(c, id, TRUE), f # None, f # curenv[c]
  PROVE  f \in Slot /\ parent[f] = Id(curenv[c])
<1>1. id # None /\ id \in EnvId
  BY DEF Envid2env
<1>2. f = id[1]
  BY <1>1 DEF Envid2env
<1>3. id[1] \in Slot
  BY <1>1 DEF EnvId
<1> QED
  BY <1>1, <1>2, <1>3 DEF Envid2env

\* Whoever is controlled by another is the child of the one that calls.
LEMMA ControlledByParent ==
  ASSUME IInv, NEW c \in CPU, KernelStep(c),
         NEW e \in Slot, e # curenv[c], Controlled(e)
  PROVE  curenv[c] \in Slot /\ parent[e] = Id(curenv[c])
<1>0. /\ TypeOK /\ None \notin Slot /\ curenv[c] \in Slot \cup {None}
      /\ {"FREE", "DYING", "RUNNABLE", "NOT_RUNNABLE"} \subseteq Status
  BY KernelAssumption DEF IInv, TypeOK, Status
<1>1. ~ KernelPageFault(c)
  BY DEF KernelPageFault, Controlled
<1>2. CASE Schedule(c)
  BY <1>0, <1>2, EditsNone DEF Schedule
<1>3. CASE SysReturn(c) \/ SysYield(c)
  BY <1>0, <1>3, EditsNone DEF SysReturn, SysYield, Calls
<1>4. CASE Collect(c)
  <2>1. curenv[c] \in Slot /\ SchedYield(c, [status EXCEPT ![curenv[c]] = "FREE"], None)
    BY <1>0, <1>1, <1>4 DEF Collect
  <2> QED
    BY <1>0, <2>1, EditsOne
<1>5. CASE SysIpcRecv(c)
  <2>1. /\ curenv[c] \in Slot
        /\ SchedYield(c, [status EXCEPT ![curenv[c]] = "NOT_RUNNABLE"], curenv[c])
    BY <1>0, <1>5 DEF SysIpcRecv, Calls
  <2> QED
    BY <1>0, <2>1, EditsOne
<1>6. CASE SysExofork(c)
  <2>1. freeList \in Seq(Slot) /\ freeList # <<>> /\ curenv[c] # None
    BY <1>0, <1>6 DEF TypeOK, SysExofork, Calls
  <2>2. PICK h \in Slot : h = Head(freeList) /\ status[h] = "FREE"
    <3>1. 1 \in DOMAIN freeList /\ Head(freeList) = freeList[1] /\ Head(freeList) \in Slot
      BY <2>1
    <3> QED
      BY <3>1 DEF IInv, Table, FreeSlots
  <2>3. TrapReturn(c, [status EXCEPT ![h] = "NOT_RUNNABLE"])
    BY <1>6, <2>2 DEF SysExofork
  <2>4. e = h
    BY <1>0, <2>1, <2>3, EditsOne
  <2> QED
    BY <2>2, <2>4 DEF Controlled
<1>7. CASE StartChild(c)
  <2>1. PICK f : f = Envid2env(c, forking[curenv[c]], TRUE)
    OBVIOUS
  <2>2. /\ curenv[c] \in Slot /\ forking[curenv[c]] \in EnvId \cup {None} /\ f # None
        /\ TrapReturn(c, [status EXCEPT ![f] = "RUNNABLE"])
    BY <1>0, <1>7, <2>1 DEF StartChild, SysEnvSetStatus, Calls, TypeOK
  <2>3. f \in Slot
    BY <2>1, <2>2, PermittedIsChild
  <2>4. e = f
    BY <1>0, <2>2, <2>3, EditsOne
  <2> QED
    BY <2>1, <2>2, <2>4, PermittedIsChild
<1>8. ASSUME NEW id \in EnvId \cup {None}, DestroyOnce(c, id)
      PROVE  curenv[c] \in Slot /\ parent[e] = Id(curenv[c])
  <2>1. PICK f : f = Envid2env(c, id, TRUE)
    OBVIOUS
  <2>2. curenv[c] \in Slot /\ f # None /\ EnvDestroy(c, f)
    BY <1>0, <1>8, <2>1 DEF DestroyOnce, SysEnvDestroy, Calls
  <2>3. f \in Slot
    BY <2>1, <2>2, PermittedIsChild
  <2>4. PICK s \in {"FREE", "DYING"} :
           \/ TrapReturn(c, [status EXCEPT ![f] = s])
           \/ SchedYield(c, [status EXCEPT ![f] = s], None)
    BY <1>1, <2>2 DEF EnvDestroy
  <2>5. e = f
    BY <1>0, <2>2, <2>3, <2>4, EditsOne
  <2> QED
    BY <2>1, <2>2, <2>5, PermittedIsChild
<1>9. ASSUME NEW id \in EnvId, SysIpcTrySend(c, id) PROVE FALSE
  <2>1. PICK f : f = Envid2env(c, id, FALSE)
    OBVIOUS
  <2>2. f # None /\ recving[f] /\ curenv[c] # None
        /\ TrapReturn(c, [status EXCEPT ![f] = "RUNNABLE"])
    BY <1>9, <2>1 DEF SysIpcTrySend, Calls
  <2>3. f \in Slot
    BY <2>1, <2>2, KernelAssumption DEF Envid2env, EnvId
  <2>4. e = f /\ status'[e] \in {"RUNNABLE", "RUNNING"}
    BY <1>0, <2>2, <2>3, EditsOne
  <2> QED
    BY <2>2, <2>4 DEF Controlled
<1> QED
  BY <1>2, <1>3, <1>4, <1>5, <1>6, <1>7, <1>8, <1>9 DEF KernelStep

-----------------------------------------------------------------------------
(* Births *)

\* Nobody is born: the ids of the environments are what they were.
NoBirth == Born = {} /\ UNCHANGED <<gen, parent>>

\* sys_exofork gives slot e to a child of p.
Birth(c, e, p) ==
  /\ Born = {e} /\ p = curenv[c] /\ p # e
  /\ gen' = [gen EXCEPT ![e] = NextGen(gen[e])]
  /\ parent' = [parent EXCEPT ![e] = Id(p)]

\* Only sys_exofork gives birth, to one environment.
LEMMA OneBirth ==
  ASSUME IInv, NEW c \in CPU, Trap(c) \/ LockKernel(c) \/ KernelStep(c)
  PROVE  NoBirth \/ \E e, p \in Slot : Birth(c, e, p)
<1>0. TypeOK /\ None \notin Slot
  BY KernelAssumption DEF IInv
<1>1. ASSUME UNCHANGED pgdir PROVE Born = {}
  BY <1>1 DEF Born
<1>2. ASSUME NEW e, EnvFree(e) PROVE Born = {}
  BY <1>0, <1>2 DEF Born, EnvFree, TypeOK
<1>3. CASE Trap(c) \/ LockKernel(c) \/ Schedule(c) \/ SysReturn(c) \/ SysYield(c) \/ SysIpcRecv(c)
           \/ StartChild(c) \/ \E id \in EnvId : SysIpcTrySend(c, id)
  BY <1>1, <1>3 DEF NoBirth, Trap, LockKernel, Schedule, SysReturn, SysYield, SysIpcRecv,
     StartChild, SysEnvSetStatus, SysIpcTrySend
<1>4. CASE Collect(c)
  BY <1>1, <1>2, <1>4 DEF NoBirth, Collect, KernelPageFault
<1>5. ASSUME NEW id, DestroyOnce(c, id) PROVE NoBirth
  BY <1>1, <1>2, <1>5 DEF NoBirth, DestroyOnce, SysEnvDestroy, EnvDestroy, KernelPageFault
<1>6. CASE SysExofork(c)
  <2>1. freeList \in Seq(Slot) /\ freeList # <<>> /\ curenv[c] \in Slot
    BY <1>0, <1>6 DEF TypeOK, SysExofork, Calls
  <2>2. PICK e \in Slot : e = Head(freeList) /\ status[e] = "FREE"
    <3>1. 1 \in DOMAIN freeList /\ Head(freeList) = freeList[1] /\ Head(freeList) \in Slot
      BY <2>1
    <3> QED
      BY <3>1 DEF IInv, Table, FreeSlots
  <2>3. ~ pgdir[e] /\ status[curenv[c]] # "FREE"
    BY <2>1, <2>2, <1>0 DEF IInv, Table, FreeSlots, NoUseAfterFree
  <2>4. /\ gen' = [gen EXCEPT ![e] = NextGen(gen[e])]
        /\ parent' = [parent EXCEPT ![e] = Id(curenv[c])]
        /\ pgdir' = [pgdir EXCEPT ![e] = TRUE]
    BY <1>6, <2>2 DEF SysExofork
  <2>5. Born = {e}
    BY <1>0, <2>3, <2>4 DEF Born, TypeOK
  <2> QED
    BY <2>1, <2>2, <2>3, <2>4, <2>5 DEF Birth
<1> QED
  BY <1>3, <1>4, <1>5, <1>6 DEF KernelStep

\* The ids of a slot's tenants grow while births are few, so that the next
\* tenant is not taken for the one env_parent_id names.
LEMMA RecordKeeps ==
  ASSUME HInv, NEW c \in CPU, Trap(c) \/ LockKernel(c) \/ KernelStep(c), Record(c)
  PROVE  Counted' /\ Young' /\ ParentIsCreator' /\ births <= births'
<1>1. /\ gen \in [Slot -> 0 .. GenLimit - 1] /\ parent \in [Slot -> EnvId \cup {None}]
      /\ GenLimit \in Nat /\ NBoot \in Nat /\ births \in Nat /\ births >= NBoot
  BY KernelAssumption DEF HInv, IInv, TypeOK, Counted
<1>2. \A e \in Slot : parent[e] # None => parent[e][1] \in Slot /\ parent[e][2] \in Nat
  BY <1>1 DEF EnvId, Gen
<1>3. CASE NoBirth
  <2>1. births' = births
    <3>1. Cardinality(Born) = 0
      BY <1>3, FS_EmptySet DEF NoBirth
    <3> QED
      BY <1>1, <3>1 DEF Record
  <2>2. \A e \in Slot : birth'[e] = birth[e] /\ creator'[e] = creator[e]
    BY <1>3 DEF NoBirth, Record
  <2>3. Counted' /\ Young'
    BY <1>3, <2>1 DEF NoBirth, HInv, Counted, Young, Early
  <2>4. ParentIsCreator'
    BY <1>2, <1>3, <2>1, <2>2 DEF NoBirth, HInv, ParentIsCreator, Early
  <2> QED
    BY <1>1, <2>1, <2>3, <2>4
<1>4. ASSUME NEW e \in Slot, NEW p \in Slot, Birth(c, e, p)
      PROVE  Counted' /\ Young' /\ ParentIsCreator' /\ births <= births'
  <2>1. births' = births + 1
    <3>1. Cardinality(Born) = 1
      BY <1>4, FS_Singleton DEF Birth
    <3> QED
      BY <1>1, <3>1 DEF Record
  <2>2. \A f \in Slot \ {e} : birth'[f] = birth[f] /\ creator'[f] = creator[f]
    BY <1>4 DEF Birth, Record
  <2>3. creator'[e] = birth[p]
    BY <1>4 DEF Birth, Record
  <2>4. Counted'
    BY <1>1, <2>1 DEF Counted
  <2>5. \A f \in Slot \ {e} : gen'[f] = gen[f] /\ parent'[f] = parent[f]
    BY <1>1, <1>4 DEF Birth
  <2>6. gen'[e] = NextGen(gen[e]) /\ parent'[e] = <<p, gen[p]>> /\ p # e
    BY <1>1, <1>4 DEF Birth, Id
  <2>7. ASSUME Early' PROVE Early /\ gen'[e] = gen[e] + 1
    <3>1. Early
      BY <1>1, <2>1, <2>7 DEF Early
    <3>2. gen[e] <= births - NBoot + 1
      BY <3>1 DEF HInv, Young
    <3>3. gen[e] + 1 < GenLimit
      BY <1>1, <2>1, <2>7, <3>2 DEF Early
    <3> QED
      BY <2>6, <3>1, <3>3 DEF NextGen
  <2>8. Young'
    <3> SUFFICES ASSUME Early', NEW f \in Slot PROVE gen'[f] <= births' - NBoot + 1
      BY DEF Young
    <3>1. gen[f] \in Nat /\ gen[f] <= births - NBoot + 1
      BY <1>1, <2>7 DEF HInv, Young
    <3>2. gen'[f] \in {gen[f], gen[f] + 1}
      BY <2>5, <2>7
    <3> QED
      BY <1>1, <2>1, <3>1, <3>2
  <2>9. ParentIsCreator'
    <3> SUFFICES ASSUME Early', NEW f \in Slot, parent'[f] # None
                 PROVE  /\ parent'[f][2] <= gen'[parent'[f][1]]
                        /\ parent'[f][2] = gen'[parent'[f][1]] => birth'[parent'[f][1]] = creator'[f]
      BY DEF ParentIsCreator
    <3>1. CASE f = e
      <4>1. gen'[p] = gen[p] /\ birth'[p] = birth[p] /\ gen[p] \in Nat
        BY <1>1, <2>2, <2>5, <2>6
      <4> QED
        BY <2>3, <2>6, <3>1, <4>1
    <3>2. CASE f # e
      <4>1. PICK s \in Slot, g \in Nat :
               /\ s = parent[f][1] /\ g = parent[f][2] /\ parent'[f] = parent[f]
               /\ g <= gen[s] /\ (g = gen[s] => birth[s] = creator[f])
        BY <1>2, <2>5, <2>7, <3>2 DEF HInv, ParentIsCreator
      <4>2. creator'[f] = creator[f] /\ gen[s] \in Nat
        BY <1>1, <2>2, <3>2
      <4>3. CASE s = e
        <5>1. gen'[s] = gen[s] + 1
          BY <2>7, <4>3
        <5> QED
          BY <4>1, <4>2, <5>1
      <4>4. CASE s # e
        <5>1. gen'[s] = gen[s] /\ birth'[s] = birth[s]
          BY <2>2, <2>5, <4>4
        <5> QED
          BY <4>1, <4>2, <5>1
      <4> QED
        BY <4>3, <4>4
    <3> QED
      BY <3>1, <3>2
  <2> QED
    BY <1>1, <2>1, <2>4, <2>8, <2>9
<1> QED
  BY <1>3, <1>4, OneBirth DEF HInv

-----------------------------------------------------------------------------
(* The theorems *)

\* The environments of i386_init are the first.
LEMMA HInitOK == HInit => HInv
<1> SUFFICES ASSUME HInit PROVE HInv
  OBVIOUS
<1>1. Init /\ IInv
  BY InitOK DEF HInit
<1>2. births = NBoot /\ NBoot \in Nat
  BY KernelAssumption DEF HInit
<1>3. \A e \in Slot : gen[e] \in {0, 1} /\ parent[e] = None
  BY <1>1 DEF Init
<1> QED
  BY <1>1, <1>2, <1>3 DEF HInv, Counted, Young, ParentIsCreator

\* Every step keeps the history true.
LEMMA HNextOK == HInv /\ [HNext]_hvars => HInv'
<1> SUFFICES ASSUME HInv, [HNext]_hvars PROVE HInv'
  OBVIOUS
<1>1. CASE UNCHANGED hvars
  <2>1. UNCHANGED vars /\ births' = births /\ birth' = birth /\ creator' = creator
    BY <1>1 DEF hvars
  <2>2. IInv'
    BY <2>1, NextOK DEF HInv
  <2>3. gen' = gen /\ parent' = parent
    BY <2>1 DEF vars
  <2> QED
    BY <2>1, <2>2, <2>3 DEF HInv, Counted, Young, ParentIsCreator, Early
<1>2. ASSUME NEW c \in CPU, Trap(c) \/ LockKernel(c) \/ KernelStep(c), Record(c)
      PROVE  HInv'
  <2>1. IInv'
    BY <1>2, NextOK DEF HInv, Next
  <2>2. Counted' /\ Young' /\ ParentIsCreator'
    BY <1>2, RecordKeeps
  <2> QED
    BY <2>1, <2>2 DEF HInv
<1> QED
  BY <1>1, <1>2 DEF HNext

\* What is known of the history holds throughout.
THEOREM HistoryInvariance == HSpec => []HInv
BY HInitOK, HNextOK, PTL DEF HSpec

\* Only the CPU with the lock leaves the kernel, in a handler.
LEMMA HandlerLeaves ==
  ASSUME IInv, NEW d \in CPU, Trap(d) \/ LockKernel(d) \/ KernelStep(d),
         NEW c \in CPU, phase[c] = "kernel", phase'[c] # "kernel"
  PROVE  d = c /\ KernelStep(c)
<1>1. lock = c /\ None \notin CPU /\ phase \in [CPU -> Phase]
  BY KernelAssumption DEF IInv, LockExcludes, TypeOK
<1>2. ~ LockKernel(d)
  BY <1>1 DEF LockKernel
<1>3. ~ Trap(d)
  BY <1>1 DEF Trap
<1>4. KernelStep(d) => phase[d] = "kernel"
  BY DEF KernelStep, Schedule, Collect, SysReturn, SysYield, SysExofork, StartChild, DestroyOnce,
     SysIpcTrySend, SysIpcRecv, Calls
<1> QED
  BY <1>1, <1>2, <1>3, <1>4 DEF IInv, LockExcludes

\* An environment is ended or started only by the one that created it: no
\* stale envid and no new tenant of a slot stands for another (envid2env,
\* kern/env.c:83-102).
THEOREM OnlyCreatorsControl == HSpec => OnlyParentControls
<1>1. ASSUME HInv, HNext, NEW c \in CPU, NEW e \in Slot,
             births' < NBoot + GenLimit - 1,
             phase[c] = "kernel" /\ phase'[c] # "kernel", e # curenv[c], Controlled(e)
      PROVE  curenv[c] # None /\ creator[e] = birth[curenv[c]]
  <2>1. PICK d \in CPU : (Trap(d) \/ LockKernel(d) \/ KernelStep(d)) /\ Record(d)
    BY <1>1 DEF HNext
  <2>2. d = c /\ KernelStep(c)
    BY <1>1, <2>1, HandlerLeaves DEF HInv
  <2>3. curenv[c] \in Slot /\ parent[e] = <<curenv[c], gen[curenv[c]]>>
    BY <1>1, <2>2, ControlledByParent DEF HInv, Id
  <2>4. births <= births' /\ births \in Nat /\ births' \in Nat
    BY <1>1, <2>1, RecordKeeps DEF HInv, Counted
  <2>5. Early
    BY <1>1, <2>4, KernelAssumption DEF Early
  <2>6. None \notin Slot /\ parent[e] # None
    <3>1. gen[curenv[c]] # 0
      BY <1>1, <2>3, KernelAssumption DEF HInv, IInv, NoUseAfterFree, Table, Tenants
    <3>2. parent[e] \in EnvId
      BY <1>1, <2>3, <3>1 DEF HInv, IInv, TypeOK, EnvId, Gen
    <3> QED
      BY <3>2, KernelAssumption
  <2> QED
    BY <1>1, <2>3, <2>5, <2>6 DEF HInv, ParentIsCreator
<1>2. HInv /\ [HNext]_hvars =>
        [\A c \in CPU, e \in Slot :
           /\ births' < NBoot + GenLimit - 1
           /\ phase[c] = "kernel" /\ phase'[c] # "kernel"
           /\ e # curenv[c]
           /\ \/ status[e] \notin {"FREE", "DYING"} /\ status'[e] \in {"FREE", "DYING"}
              \/ status[e] = "NOT_RUNNABLE" /\ ~ recving[e] /\ status'[e] # status[e]
           => curenv[c] # None /\ creator[e] = birth[curenv[c]]]_hvars
  BY <1>1 DEF Controlled
<1> QED
  BY HistoryInvariance, <1>2, PTL DEF HSpec, OnlyParentControls
=============================================================================
