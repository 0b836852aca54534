-------------------------------- MODULE Ipc ---------------------------------
(***************************************************************************)
(* Message passing: sys_ipc_try_send and sys_ipc_recv of kern/syscall.c,   *)
(* and ipc_send and ipc_recv of lib/ipc.c that programs build on them. The *)
(* environments run concurrently; each system call is one step.            *)
(***************************************************************************)
EXTENDS Naturals

CONSTANTS
  Slot,    \* envs[]
  MaxGen,  \* bounds how often a slot is used
  Val,     \* what a message carries
  VA,      \* page addresses below UTOP
  Zero,    \* address 0, in an Env structure nobody wrote to
  Home,    \* where every program has a page of its own
  None     \* UTOP as an address, an unmapped page, no message

EnvId == Slot \X (1 .. MaxGen)

ASSUME IpcAssumption ==
  /\ MaxGen \in Nat \ {0}
  /\ Zero \in VA /\ Home \in VA
  /\ None \notin VA /\ None \notin Slot /\ None \notin EnvId /\ None \notin Val

\* A page is named after the slot of the environment that allocated it.
Page == Slot

\* The argument pg of ipc_recv and ipc_send: a null pointer means no page.
Pg == (VA \ {Zero}) \cup {None}

Job == [to : EnvId, val : Val, pg : Pg]

VARIABLES
  gen,      \* the generation in env_id; 0: the slot was never used
  live,     \* env_status # ENV_FREE
  recving,  \* env_ipc_recving
  dstva,    \* env_ipc_dstva
  from,     \* env_ipc_from
  value,    \* env_ipc_value
  perm,     \* env_ipc_perm # 0
  mem,      \* the pages each environment has mapped
  pc,       \* which library call each program is in
  job,      \* the arguments of its ipc_send
  asked     \* the argument pg of its ipc_recv

kernel == <<gen, live, recving, dstva, from, value, perm, mem>>
vars == <<gen, live, recving, dstva, from, value, perm, mem, pc, job, asked>>

Id(e) == <<e, gen[e]>>

NoPages == [va \in VA |-> None]

OwnPage(e) == [NoPages EXCEPT ![Home] = e]

Init ==
  /\ live \in [Slot -> BOOLEAN]
  /\ gen = [e \in Slot |-> IF live[e] THEN 1 ELSE 0]
  /\ recving = [e \in Slot |-> FALSE]
  /\ dstva = [e \in Slot |-> Zero]
  /\ from = [e \in Slot |-> None]
  /\ value = [e \in Slot |-> None]
  /\ perm = [e \in Slot |-> FALSE]
  /\ mem = [e \in Slot |-> IF live[e] THEN OwnPage(e) ELSE NoPages]
  /\ pc = [e \in Slot |-> "run"]
  /\ job = [e \in Slot |-> None]
  /\ asked = [e \in Slot |-> None]

Goto(e, where) == pc' = [pc EXCEPT ![e] = where]

-----------------------------------------------------------------------------
(* Life and death *)

\* env_alloc clears env_ipc_recving and no other ipc field.
Birth(e) ==
  /\ ~ live[e] /\ gen[e] < MaxGen
  /\ live' = [live EXCEPT ![e] = TRUE]
  /\ gen' = [gen EXCEPT ![e] = @ + 1]
  /\ recving' = [recving EXCEPT ![e] = FALSE]
  /\ mem' = [mem EXCEPT ![e] = OwnPage(e)]
  /\ Goto(e, "run")
  /\ UNCHANGED <<dstva, from, value, perm, job, asked>>

\* exit(), or destroyed by its parent, wherever it is.
Death(e) ==
  /\ live[e]
  /\ live' = [live EXCEPT ![e] = FALSE]
  /\ mem' = [mem EXCEPT ![e] = NoPages]
  /\ job' = [job EXCEPT ![e] = None]
  /\ asked' = [asked EXCEPT ![e] = None]
  /\ UNCHANGED <<gen, recving, dstva, from, value, perm, pc>>

-----------------------------------------------------------------------------
(* ipc_recv *)

\* slip: sys_ipc_recv checks the address and does not store it
RecordNothing(e, pg) == UNCHANGED dstva

\* An address of UTOP, for no page, is not stored: the last one stays.
Record(e, pg) == dstva' = [dstva EXCEPT ![e] = IF pg = None THEN @ ELSE pg]

IpcRecv(e, pg) ==
  /\ live[e] /\ pc[e] = "run"
  /\ asked' = [asked EXCEPT ![e] = pg]
  /\ Record(e, pg)
  /\ recving' = [recving EXCEPT ![e] = TRUE]
  /\ Goto(e, "recv")
  /\ UNCHANGED <<gen, live, from, value, perm, mem, job>>

\* The receiver was woken and reads its Env structure.
RecvReturn(e) ==
  /\ live[e] /\ pc[e] = "recv" /\ ~ recving[e]
  /\ Goto(e, "run")
  /\ asked' = [asked EXCEPT ![e] = None]
  /\ UNCHANGED <<kernel, job>>

-----------------------------------------------------------------------------
(* ipc_send *)

\* Programs know the ids of environments that exist or did exist.
IpcSend(e, j) ==
  /\ live[e] /\ pc[e] = "run"
  /\ j.to[2] <= gen[j.to[1]]
  /\ job' = [job EXCEPT ![e] = j]
  /\ Goto(e, "send")
  /\ UNCHANGED <<kernel, asked>>

Sending(e) == live[e] /\ pc[e] = "send"

\* slip: envid2env does not compare the whole id
ExistsAnyGeneration(id) == live[id[1]]

Exists(id) == live[id[1]] /\ gen[id[1]] = id[2]

\* slip: sys_ipc_try_send does not look at env_ipc_recving
AcceptsAnytime(id) == Exists(id)

Accepts(id) == Exists(id) /\ recving[id[1]]

BadPage(e) == job[e].pg # None /\ mem[e][job[e].pg] = None

\* sys_ipc_try_send fails with another error than -E_IPC_NOT_RECV: ipc_send
\* panics. By then the kernel has cleared env_ipc_perm.
SendPanics(e) ==
  /\ Sending(e)
  /\ LET to == job[e].to IN
     \/ /\ ~ Exists(to)
        /\ UNCHANGED perm
     \/ /\ Accepts(to) /\ BadPage(e)
        /\ perm' = [perm EXCEPT ![to[1]] = FALSE]
  /\ Goto(e, "panic")
  /\ job' = [job EXCEPT ![e] = None]
  /\ UNCHANGED <<gen, live, recving, dstva, from, value, mem, asked>>

\* slip: env_ipc_from gets the index in envs[]
SenderIdIndex(e) == e

SenderId(e) == Id(e)

Close(r) == recving' = [recving EXCEPT ![r] = FALSE]

\* sys_ipc_try_send succeeds. While the receiver is not receiving, ipc_send
\* yields and tries again, which changes nothing. sys_ipc_recv never stores
\* an address of UTOP or more: env_ipc_dstva < UTOP always holds.
TrySend(e) ==
  LET r == job[e].to[1] IN
  /\ Sending(e) /\ Accepts(job[e].to) /\ ~ BadPage(e)
  /\ IF job[e].pg = None
     THEN perm' = [perm EXCEPT ![r] = FALSE] /\ UNCHANGED mem
     ELSE /\ perm' = [perm EXCEPT ![r] = TRUE]
          /\ mem' = [mem EXCEPT ![r][dstva[r]] = mem[e][job[e].pg]]
  /\ Close(r)
  /\ from' = [from EXCEPT ![r] = SenderId(e)]
  /\ value' = [value EXCEPT ![r] = job[e].val]
  /\ Goto(e, "run")
  /\ job' = [job EXCEPT ![e] = None]
  /\ UNCHANGED <<gen, live, dstva, asked>>

\* A program that panics drops into the kernel's monitor, which keeps the lock:
\* no other goes on.
Stopped == \E e \in Slot : live[e] /\ pc[e] = "panic"

Next ==
  ~ Stopped /\ \E e \in Slot :
    \/ Birth(e) \/ Death(e) \/ RecvReturn(e) \/ TrySend(e) \/ SendPanics(e)
    \/ \E pg \in Pg : IpcRecv(e, pg)
    \/ \E j \in Job : IpcSend(e, j)

Spec == Init /\ [][Next]_vars

-----------------------------------------------------------------------------
(* Safety *)

TypeOK ==
  /\ gen \in [Slot -> 0 .. MaxGen]
  /\ live \in [Slot -> BOOLEAN]
  /\ recving \in [Slot -> BOOLEAN]
  /\ dstva \in [Slot -> VA]
  /\ from \in [Slot -> EnvId \cup {None}]
  /\ value \in [Slot -> Val \cup {None}]
  /\ perm \in [Slot -> BOOLEAN]
  /\ mem \in [Slot -> [VA -> Page \cup {None}]]
  /\ pc \in [Slot -> {"run", "send", "recv", "panic"}]
  /\ job \in [Slot -> Job \cup {None}]
  /\ asked \in [Slot -> Pg]

Woken(e) == live[e] /\ pc[e] = "recv" /\ ~ recving[e]

\* A receiver reads, in its Env structure and at the address it asked for, if
\* it asked for a page, one whole message of one sender: sys_ipc_try_send, the
\* wait and the reads of ipc_recv make a rendezvous.
DoingOf(id) ==
  LET e == id[1] IN
  IF ~ Exists(id) THEN "absent"
  ELSE CASE pc[e] = "run"   -> "idle"
         [] pc[e] = "send"  -> "sending"
         [] pc[e] = "panic" -> "failed"
         [] pc[e] = "recv"  -> IF recving[e] THEN "receiving" ELSE "received"

OfferOf(id) ==
  LET e == id[1] IN
  IF ~ (Exists(id) /\ pc[e] = "send") THEN None
  ELSE [to  |-> job[e].to,
        msg |-> [val  |-> job[e].val,
                 page |-> IF job[e].pg = None THEN None ELSE mem[e][job[e].pg]]]

WantsOf(id) == Exists(id) /\ asked[id[1]] # None

InboxOf(id) ==
  LET e == id[1] IN
  IF ~ (Exists(id) /\ Woken(e)) THEN None
  ELSE [from |-> from[e],
        msg  |-> [val  |-> value[e],
                  page |-> IF asked[e] # None /\ perm[e] THEN mem[e][asked[e]]
                           ELSE None]]

Meeting == INSTANCE Rendezvous WITH
             Env   <- EnvId,
             doing <- [id \in EnvId |-> DoingOf(id)],
             offer <- [id \in EnvId |-> OfferOf(id)],
             wants <- [id \in EnvId |-> WantsOf(id)],
             inbox <- [id \in EnvId |-> InboxOf(id)]

\* Every behaviour of the calls is one of Rendezvous: no message is lost,
\* overwritten before it is read, mixed with another, or given to a later
\* tenant of the receiver's slot.
ImplementsRendezvous == Meeting!Spec

\* A program's memory changes under it only while it waits in ipc_recv, at one
\* address, and at the one it asked for if it asked for a page. When it asked
\* for none, kern/syscall.c:368 and 406 map a page that is sent at the address
\* of the slot's last receive that did.
PagesLandWhereAsked ==
  [][ \A e \in Slot :
        live[e] /\ live'[e] /\ mem'[e] # mem[e] =>
          /\ pc[e] = "recv" /\ recving[e]
          /\ \E va \in VA : /\ mem'[e] = [mem[e] EXCEPT ![va] = mem'[e][va]]
                            /\ asked[e] \in {va, None} ]_vars

-----------------------------------------------------------------------------
(* Liveness. Every program gets the CPU again and again (RunnableRuns of     *)
(* Kernel), so a call it is in goes on.                                     *)

FairSpec ==
  /\ Spec
  /\ \A e \in Slot : /\ WF_vars(~ Stopped /\ TrySend(e))
                     /\ WF_vars(~ Stopped /\ SendPanics(e))

\* ipc_send does not try for ever to reach an environment that is gone, even
\* when another has taken its slot (envid2env, lib/ipc.c:64-72): it panics,
\* unless another program has panicked first.
SendEndsWithReceiver ==
  \A e \in Slot :
    Sending(e) /\ ~ (live[job[e].to[1]] /\ gen[job[e].to[1]] = job[e].to[2])
      ~> ~ Sending(e) \/ Stopped

=============================================================================
