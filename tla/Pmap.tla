-------------------------------- MODULE Pmap --------------------------------
(***************************************************************************)
(* Physical pages, their reference counts and the two-level page tables of *)
(* the environments: kern/pmap.c, the parts of kern/env.c that build and   *)
(* free an address space, and the system calls of kern/syscall.c that map  *)
(* pages. Every call is one step, under the big kernel lock; between calls *)
(* the CPUs run user code through their TLBs.                              *)
(*                                                                         *)
(* Only the user half of an address space (below UTOP) is here: the half   *)
(* above is copied from kern_pgdir once and never counted.                 *)
(***************************************************************************)
EXTENDS Integers, FiniteSets

CONSTANTS
  CPU,
  Page,  \* the pages page_init puts on page_free_list
  Env,   \* the slots of envs[]
  Dir,   \* the indices of a page directory below UTOP
  Tab,   \* the indices of a page table
  None   \* NULL, and an entry without PTE_P

VA == Dir \X Tab

Mapping == [page : Page, w : BOOLEAN]

ASSUME PmapAssumption ==
  /\ IsFiniteSet(Page) /\ IsFiniteSet(Env) /\ IsFiniteSet(Dir) /\ IsFiniteSet(Tab)
  /\ None \notin Page /\ None \notin Env /\ None \notin Mapping

VARIABLES
  free,     \* page_free_list; its order is left out, page_alloc takes any
  ref,      \* pp_ref
  pgdir,    \* env_pgdir of each environment
  table,    \* the page table each page directory entry points to
  pte,      \* the page table entries, by environment and address
  parent,   \* env_parent_id, None once that environment is gone
  cur,      \* thiscpu->cpu_env
  tlb,      \* what each CPU has cached of the address space it uses
  panicked  \* panicstr # NULL

vars == <<free, ref, pgdir, table, pte, parent, cur, tlb, panicked>>

PageOf(m) == IF m = None THEN None ELSE m.page

One(b) == IF b THEN 1 ELSE 0

EmptyTlb == [va \in VA |-> None]

\* env_create has loaded one program, of one page, at va.
Init ==
  \E e \in Env, va \in VA, d, t, p \in Page :
    /\ d # t /\ d # p /\ t # p
    /\ free = Page \ {d, t, p}
    /\ ref = [q \in Page |-> One(q \in {d, t, p})]
    /\ pgdir = [f \in Env |-> IF f = e THEN d ELSE None]
    /\ table = [f \in Env |-> [i \in Dir |-> IF f = e /\ i = va[1] THEN t ELSE None]]
    /\ pte = [f \in Env |-> [v \in VA |-> IF f = e /\ v = va
                                          THEN [page |-> p, w |-> TRUE] ELSE None]]
    /\ parent = [f \in Env |-> None]
    /\ cur = [c \in CPU |-> None]
    /\ tlb = [c \in CPU |-> EmptyTlb]
    /\ panicked = FALSE

Alive(e) == pgdir[e] # None

Running(e) == \E c \in CPU : cur[c] = e

-----------------------------------------------------------------------------
(* kern/pmap.c *)

PageFree(p) ==
  IF ref[p] = 0 /\ p \notin free
  THEN free' = free \cup {p} /\ UNCHANGED panicked
  ELSE panicked' = TRUE /\ UNCHANGED free

\* pgdir_walk needs a page of fr for a page table that does not exist yet.
WalkSucceeds(e, va, fr) == table[e][va[1]] # None \/ fr # {}

\* slip: pgdir_walk does not count the page table
InsertRefsTableUncounted(p, t, old) ==
  [q \in Page |-> ref[q] + One(q = p) - One(q = old)]

\* The references once p replaces old, in the new page table t, if any.
InsertRefs(p, t, old) ==
  [q \in Page |-> ref[q] + One(q = p) + One(q = t) - One(q = old)]

\* slip: page_remove of the old mapping comes before pp_ref++
InsertFreeRemovesFirst(fr, p, t, old) ==
  (fr \ {t}) \cup {q \in Page : q = old /\ ref[q] = 1}

\* slip: the page table stays on page_free_list
InsertFreeTableListed(fr, p, t, old) ==
  fr \cup {q \in Page : q = old /\ InsertRefs(p, t, old)[q] = 0}

\* pp_ref++ comes before page_remove: p itself may be old.
InsertFree(fr, p, t, old) ==
  (fr \ {t}) \cup {q \in Page : q = old /\ InsertRefs(p, t, old)[q] = 0}

PageInsert(e, va, p, w, fr) ==
  \E t \in IF table[e][va[1]] = None THEN fr ELSE {None} :
    /\ ref' = InsertRefs(p, t, PageOf(pte[e][va]))
    /\ free' = InsertFree(fr, p, t, PageOf(pte[e][va]))
    /\ table' = IF t = None THEN table ELSE [table EXCEPT ![e][va[1]] = t]
    /\ pte' = [pte EXCEPT ![e][va] = [page |-> p, w |-> w]]

PageRemove(e, va) ==
  LET old == PageOf(pte[e][va])
      r   == [q \in Page |-> ref[q] - One(q = old)]
  IN /\ ref' = r
     /\ free' = free \cup {q \in Page : q = old /\ r[q] = 0}
     /\ pte' = [pte EXCEPT ![e][va] = None]

-----------------------------------------------------------------------------
(* Running user code *)

\* slip: env_run does not load cr3
EnvRunKeepsTlb(c, e) ==
  /\ cur' = [cur EXCEPT ![c] = e]
  /\ UNCHANGED tlb

\* Every handler ends in env_run or sched_halt, and both load cr3: whatever
\* tlb_invalidate left in the TLB of this CPU is flushed before user code
\* runs again.
EnvRun(c, e) ==
  /\ cur' = [cur EXCEPT ![c] = e]
  /\ tlb' = [tlb EXCEPT ![c] = EmptyTlb]

\* sched_yield picks e, or None when the CPU halts.
Switch(c, e) ==
  /\ e # None => Alive(e) /\ \A d \in CPU \ {c} : cur[d] # e
  /\ EnvRun(c, e)
  /\ UNCHANGED <<free, ref, pgdir, table, pte, parent, panicked>>

\* User code on c uses the page at va: the MMU caches the entry.
Access(c, va) ==
  /\ cur[c] # None
  /\ pte[cur[c]][va] # None
  /\ tlb' = [tlb EXCEPT ![c][va] = pte[cur[c]][va]]
  /\ UNCHANGED <<free, ref, pgdir, table, pte, parent, cur, panicked>>

-----------------------------------------------------------------------------
(* System calls of the environment on c, which it then returns to *)

Return(c) == EnvRun(c, cur[c])

\* env_alloc, env_setup_vm: a page directory with nothing below UTOP.
SysExofork(c) ==
  /\ cur[c] # None
  /\ \E e \in Env, p \in free :
       /\ ~ Alive(e)
       /\ pgdir' = [pgdir EXCEPT ![e] = p]
       /\ ref' = [ref EXCEPT ![p] = @ + 1]
       /\ free' = free \ {p}
       /\ parent' = [parent EXCEPT ![e] = cur[c]]
  /\ Return(c)
  /\ UNCHANGED <<table, pte, panicked>>

\* env_destroy of an environment no other CPU is on, or trap() on a zombie.
EnvFree(c, e) ==
  /\ cur[c] # None
  /\ Alive(e)
  /\ \A d \in CPU \ {c} : cur[d] # e
  /\ LET r == [q \in Page |->
                 ref[q] - Cardinality({va \in VA : PageOf(pte[e][va]) = q})
                        - Cardinality({i \in Dir : table[e][i] = q})
                        - One(pgdir[e] = q)]
     IN /\ ref' = r
        /\ free' = free \cup {q \in Page : ref[q] > 0 /\ r[q] = 0}
  /\ pgdir' = [pgdir EXCEPT ![e] = None]
  /\ table' = [table EXCEPT ![e] = [i \in Dir |-> None]]
  /\ pte' = [pte EXCEPT ![e] = [va \in VA |-> None]]
  /\ parent' = [f \in Env |-> IF f = e \/ parent[f] = e THEN None ELSE parent[f]]
  /\ EnvRun(c, IF cur[c] = e THEN None ELSE cur[c])
  /\ UNCHANGED panicked

SysPageAlloc(c, e, va, w) ==
  /\ cur[c] # None
  /\ Alive(e)
  /\ \E p \in free :
       \/ /\ WalkSucceeds(e, va, free \ {p})
          /\ PageInsert(e, va, p, w, free \ {p})
       \/ \* page_insert fails, page_free(page)
          /\ ~ WalkSucceeds(e, va, free \ {p})
          /\ UNCHANGED <<free, ref, table, pte>>
  /\ Return(c)
  /\ UNCHANGED <<pgdir, parent, panicked>>

\* slip: a read-only page may be mapped with PTE_W
SysPageMapAnyPerm(c, src, srcva, dst, dstva, w) ==
  /\ cur[c] # None
  /\ Alive(src) /\ Alive(dst)
  /\ pte[src][srcva] # None
  /\ LET p == pte[src][srcva].page IN
     \/ /\ WalkSucceeds(dst, dstva, free)
        /\ PageInsert(dst, dstva, p, w, free)
        /\ UNCHANGED panicked
     \/ /\ ~ WalkSucceeds(dst, dstva, free)
        /\ PageFree(p)
        /\ UNCHANGED <<ref, table, pte>>
  /\ Return(c)
  /\ UNCHANGED <<pgdir, parent>>

\* Also the page of sys_ipc_try_send.
SysPageMap(c, src, srcva, dst, dstva, w) ==
  /\ cur[c] # None
  /\ Alive(src) /\ Alive(dst)
  /\ pte[src][srcva] # None
  /\ w => pte[src][srcva].w
  /\ LET p == pte[src][srcva].page IN
     \/ /\ WalkSucceeds(dst, dstva, free)
        /\ PageInsert(dst, dstva, p, w, free)
        /\ UNCHANGED panicked
     \/ /\ ~ WalkSucceeds(dst, dstva, free)
        /\ PageFree(p)
        /\ UNCHANGED <<ref, table, pte>>
  /\ Return(c)
  /\ UNCHANGED <<pgdir, parent>>

SysPageUnmap(c, e, va) ==
  /\ cur[c] # None
  /\ Alive(e)
  /\ PageRemove(e, va)
  /\ Return(c)
  /\ UNCHANGED <<pgdir, table, parent, panicked>>

-----------------------------------------------------------------------------
(* The kernel lets an environment change any other. The programs change     *)
(* their own memory, the memory of a child they are building (lib/fork.c,   *)
(* lib/spawn.c) and, with ipc_send, that of a blocked receiver: no target    *)
(* runs on another CPU.                                                      *)

Calls(c, Target) ==
  \/ SysExofork(c)
  \/ \E e \in Env : EnvFree(c, e)
  \/ \E e \in Target, va \in VA, w \in BOOLEAN : SysPageAlloc(c, e, va, w)
  \/ \E src \in Env, dst \in Target, srcva, dstva \in VA, w \in BOOLEAN :
       SysPageMap(c, src, srcva, dst, dstva, w)
  \/ \E e \in Target, va \in VA : SysPageUnmap(c, e, va)

User(c) ==
  \/ \E e \in Env \cup {None} : Switch(c, e)
  \/ \E va \in VA : Access(c, va)

NotElsewhere(c) == {e \in Env : \A d \in CPU \ {c} : cur[d] # e}

Next == ~ panicked /\ \E c \in CPU : User(c) \/ Calls(c, NotElsewhere(c))

Spec == Init /\ [][Next]_vars

-----------------------------------------------------------------------------
(* Safety *)

TypeOK ==
  /\ free \subseteq Page
  /\ ref \in [Page -> Nat]
  /\ pgdir \in [Env -> Page \cup {None}]
  /\ table \in [Env -> [Dir -> Page \cup {None}]]
  /\ pte \in [Env -> [VA -> Mapping \cup {None}]]
  /\ parent \in [Env -> Env \cup {None}]
  /\ cur \in [CPU -> Env \cup {None}]
  /\ tlb \in [CPU -> [VA -> Mapping \cup {None}]]
  /\ panicked \in BOOLEAN

\* pp_ref counts the page directories, page tables and entries that hold a
\* page, whatever sequence of calls built them (kern/pmap.c:414-555).
References(p) ==
  Cardinality({e \in Env : pgdir[e] = p})
  + Cardinality({x \in Env \X Dir : table[x[1]][x[2]] = p})
  + Cardinality({x \in Env \X VA : PageOf(pte[x[1]][x[2]]) = p})

RefCounts ==
  /\ TypeOK
  /\ \A p \in Page : ref[p] = References(p)

\* A page is on page_free_list exactly when nothing refers to it: no page is
\* handed out twice and none is lost, not even by a call that fails half way
\* (page_alloc, page_free, page_insert, env_free).
FreeExact == \A p \in Page : p \in free <=> References(p) = 0

\* A page directory or page table belongs to one environment and is mapped
\* nowhere: no program can write its own page tables (kern/pmap.c:443-465).
TablesArePrivate ==
  \A e \in Env :
    /\ pgdir[e] # None => References(pgdir[e]) = 1
    /\ \A i \in Dir : table[e][i] # None => References(table[e][i]) = 1

\* What a TLB holds is what the page tables say: user code never reaches a
\* page that was unmapped or freed (kern/pmap.c:590-620, env_run's lcr3).
TlbCoherent ==
  \A c \in CPU, va \in VA :
    tlb[c][va] # None => cur[c] # None /\ tlb[c][va] = pte[cur[c]][va]

\* No environment comes to write a page that was not free and that nobody
\* could write before (the PTE_W test of sys_page_map, kern/syscall.c:275).
WriteComesFromAWriter ==
  [][\A e \in Env, va \in VA :
       LET m == pte'[e][va] IN
       m # None /\ m.w /\ m.page \notin free
       => \E f \in Env, v \in VA : pte[f][v] # None /\ pte[f][v].w
                                   /\ pte[f][v].page = m.page]_vars

\* No call runs into page_free's panic (kern/pmap.c:395-402): running out of
\* memory in sys_page_map is an error, -E_NO_MEM (kern/syscall.c:243).
NoPanic == ~ panicked

=============================================================================
