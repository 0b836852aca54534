----------------------------- MODULE PmapProofs -----------------------------
(***************************************************************************)
(* Proofs about Pmap, for any number of CPUs, pages, environments and      *)
(* addresses: pp_ref counts what refers to a page, page_free_list holds    *)
(* the pages nothing refers to, page tables are private and TLBs current.  *)
(***************************************************************************)
EXTENDS Pmap, FiniteSetTheorems, TLAPS

-----------------------------------------------------------------------------
(* Counting *)

\* Two sets that differ in one element at most.
LEMMA CountChange ==
  ASSUME NEW U, IsFiniteSet(U), NEW A \in SUBSET U, NEW B \in SUBSET U,
         NEW a \in U, \A x \in U \ {a} : x \in A <=> x \in B
  PROVE  /\ Cardinality(A) \in Nat /\ Cardinality(B) \in Nat
         /\ Cardinality(B) = Cardinality(A) + One(a \in B) - One(a \in A)
<1>1. IsFiniteSet(A) /\ IsFiniteSet(B)
  BY FS_Subset
<1>2. Cardinality(A) \in Nat /\ Cardinality(B) \in Nat
  BY <1>1, FS_CardinalityType
<1>3. CASE a \in A /\ a \in B
  <2>1. A = B
    BY <1>3
  <2> QED
    BY <1>2, <1>3, <2>1 DEF One
<1>4. CASE a \notin A /\ a \notin B
  <2>1. A = B
    BY <1>4
  <2> QED
    BY <1>2, <1>4, <2>1 DEF One
<1>5. CASE a \notin A /\ a \in B
  <2>1. B = A \cup {a}
    BY <1>5
  <2>2. Cardinality(B) = Cardinality(A) + 1
    BY <1>1, <1>5, <2>1, FS_AddElement
  <2> QED
    BY <1>2, <1>5, <2>2 DEF One
<1>6. CASE a \in A /\ a \notin B
  <2>1. B = A \ {a}
    BY <1>6
  <2>2. Cardinality(B) = Cardinality(A) - 1
    BY <1>1, <1>6, <2>1, FS_RemoveElement
  <2> QED
    BY <1>2, <1>6, <2>2 DEF One
<1> QED
  BY <1>2, <1>3, <1>4, <1>5, <1>6

\* The entries of one environment, counted apart from those of the others.
LEMMA CountSlice ==
  ASSUME NEW I, IsFiniteSet(I), NEW e \in Env, NEW A \in SUBSET (Env \X I)
  PROVE  /\ Cardinality(A) \in Nat
         /\ Cardinality({x \in A : x[1] # e}) \in Nat
         /\ Cardinality({i \in I : <<e, i>> \in A}) \in Nat
         /\ Cardinality({x \in A : x[1] # e})
              = Cardinality(A) - Cardinality({i \in I : <<e, i>> \in A})
<1> DEFINE S == {i \in I : <<e, i>> \in A}
           T == {x \in A : x[1] = e}
           R == {x \in A : x[1] # e}
<1>1. IsFiniteSet(A)
  BY FS_Product, FS_Subset, PmapAssumption
<1>2. IsFiniteSet(S) /\ IsFiniteSet(T) /\ IsFiniteSet(R)
  BY <1>1, FS_Subset
<1>3. Cardinality(T) = Cardinality(S)
  <2> DEFINE f == [i \in S |-> <<e, i>>]
  <2>1. f \in [S -> T] /\ \A i, j \in S : f[i] = f[j] => i = j
    OBVIOUS
  <2>2. \A x \in T : \E i \in S : f[i] = x
    <3> SUFFICES ASSUME NEW x \in T PROVE \E i \in S : f[i] = x
      OBVIOUS
    <3>1. PICK g \in Env, i \in I : x = <<g, i>>
      OBVIOUS
    <3>2. i \in S /\ f[i] = x
      BY <3>1
    <3> QED
      BY <3>2
  <2>3. f \in Bijection(S, T)
    BY <2>1, <2>2 DEF Bijection, Injection, Surjection, IsInjective
  <2> QED
    BY <1>2, <2>3, FS_Bijection DEF ExistsBijection
<1>4. A = T \cup R /\ T \cap R = {}
  OBVIOUS
<1>5. Cardinality(A) = Cardinality(T) + Cardinality(R) - Cardinality(T \cap R)
  BY <1>2, <1>4, FS_Union
<1>6. Cardinality(T \cap R) = 0
  BY <1>4, FS_EmptySet
<1>7. /\ Cardinality(A) \in Nat /\ Cardinality(R) \in Nat
      /\ Cardinality(S) \in Nat /\ Cardinality(T) \in Nat
  BY <1>1, <1>2, FS_CardinalityType
<1> QED
  BY <1>3, <1>5, <1>6, <1>7

-----------------------------------------------------------------------------
(* What refers to a page, for page directories d, page tables t, entries m *)

Dirs(d, q) == {e \in Env : d[e] = q}
Tables(t, q) == {x \in Env \X Dir : t[x[1]][x[2]] = q}
Maps(m, q) == {x \in Env \X VA : PageOf(m[x[1]][x[2]]) = q}

Refs(d, t, m, q) ==
  Cardinality(Dirs(d, q)) + Cardinality(Tables(t, q)) + Cardinality(Maps(m, q))

Unreferenced(d, t, m, q) ==
  /\ \A e \in Env : d[e] # q
  /\ \A e \in Env, i \in Dir : t[e][i] # q
  /\ \A e \in Env, va \in VA : PageOf(m[e][va]) # q

\* A page directory or page table has one use.
Private(d, t, m) ==
  /\ \A e, f \in Env : d[e] # None /\ d[e] = d[f] => e = f
  /\ \A e, f \in Env, i, j \in Dir : t[e][i] # None /\ t[e][i] = t[f][j] => e = f /\ i = j
  /\ \A e, f \in Env, i \in Dir : d[e] # None => d[e] # t[f][i]
  /\ \A e, f \in Env, va \in VA : d[e] # None => d[e] # PageOf(m[f][va])
  /\ \A e, f \in Env, i \in Dir, va \in VA : t[e][i] # None => t[e][i] # PageOf(m[f][va])

\* There are finitely many environments and addresses (NENV, UTOP).
LEMMA Finite ==
  /\ IsFiniteSet(Env) /\ IsFiniteSet(Dir) /\ IsFiniteSet(VA)
  /\ IsFiniteSet(Env \X Dir) /\ IsFiniteSet(Env \X VA)
BY PmapAssumption, FS_Product DEF VA

\* What pp_ref should be is a number, and zero for a page nothing refers to.
LEMMA CountZero ==
  ASSUME NEW d, NEW t, NEW m, NEW q
  PROVE  /\ Cardinality(Dirs(d, q)) \in Nat /\ Cardinality(Tables(t, q)) \in Nat
         /\ Cardinality(Maps(m, q)) \in Nat /\ Refs(d, t, m, q) \in Nat
         /\ (Refs(d, t, m, q) = 0) <=> Unreferenced(d, t, m, q)
<1>1. /\ IsFiniteSet(Dirs(d, q)) /\ IsFiniteSet(Tables(t, q)) /\ IsFiniteSet(Maps(m, q))
  BY Finite, FS_Subset DEF Dirs, Tables, Maps
<1>2. /\ Cardinality(Dirs(d, q)) \in Nat /\ Cardinality(Tables(t, q)) \in Nat
      /\ Cardinality(Maps(m, q)) \in Nat
  BY <1>1, FS_CardinalityType
<1>3. (Refs(d, t, m, q) = 0)
        <=> (Dirs(d, q) = {} /\ Tables(t, q) = {} /\ Maps(m, q) = {})
  <2>1. (Refs(d, t, m, q) = 0) <=> /\ Cardinality(Dirs(d, q)) = 0
                                   /\ Cardinality(Tables(t, q)) = 0
                                   /\ Cardinality(Maps(m, q)) = 0
    <3>1. PICK a \in Nat, b \in Nat, c \in Nat :
            /\ Cardinality(Dirs(d, q)) = a /\ Cardinality(Tables(t, q)) = b
            /\ Cardinality(Maps(m, q)) = c
      BY <1>2
    <3>2. Refs(d, t, m, q) = a + b + c
      BY <3>1 DEF Refs
    <3> QED
      BY <3>1, <3>2
  <2>2. \A S : IsFiniteSet(S) => (Cardinality(S) = 0 <=> S = {})
    BY FS_EmptySet
  <2> QED
    BY <1>1, <2>1, <2>2
<1>4. (Dirs(d, q) = {}) <=> \A e \in Env : d[e] # q
  BY DEF Dirs
<1>5. (Tables(t, q) = {}) <=> \A e \in Env, i \in Dir : t[e][i] # q
  <2>1. ASSUME Tables(t, q) = {}, NEW e \in Env, NEW i \in Dir PROVE t[e][i] # q
    <3>1. <<e, i>> \notin Tables(t, q)
      BY <2>1
    <3> QED
      BY <3>1 DEF Tables
  <2>2. ASSUME \A e \in Env, i \in Dir : t[e][i] # q PROVE Tables(t, q) = {}
    BY <2>2 DEF Tables
  <2> QED
    BY <2>1, <2>2
<1>6. (Maps(m, q) = {}) <=> \A e \in Env, va \in VA : PageOf(m[e][va]) # q
  <2>1. \A e \in Env, va \in VA : <<e, va>> \in Maps(m, q) <=> PageOf(m[e][va]) = q
    BY DEF Maps
  <2>2. \A x \in Maps(m, q) : \E e \in Env, va \in VA : x = <<e, va>>
    BY DEF Maps
  <2> QED
    BY <2>1, <2>2
<1> QED
  BY <1>2, <1>3, <1>4, <1>5, <1>6 DEF Refs, Unreferenced

\* One(a = b): what one entry adds to the count of a page.
Same(a, b) == IF a = b THEN 1 ELSE 0

\* m and n differ at index i of environment e, if anywhere.
AgreeBut(m, n, I, e, i) ==
  \A f \in Env, j \in I : <<f, j>> # <<e, i>> => n[f][j] = m[f][j]

\* One entry of a page table changes.
LEMMA MapsChange ==
  ASSUME NEW m, NEW n, NEW e \in Env, NEW va \in VA, NEW q,
         AgreeBut(m, n, VA, e, va)
  PROVE  Cardinality(Maps(n, q)) = Cardinality(Maps(m, q))
           + Same(q, PageOf(n[e][va])) - Same(q, PageOf(m[e][va]))
<1>1. \A y \in (Env \X VA) \ {<<e, va>>} : y \in Maps(m, q) <=> y \in Maps(n, q)
  <2> SUFFICES ASSUME NEW f \in Env, NEW v \in VA, <<f, v>> # <<e, va>>
               PROVE  <<f, v>> \in Maps(m, q) <=> <<f, v>> \in Maps(n, q)
    OBVIOUS
  <2> QED
    BY DEF Maps, AgreeBut
<1>2. /\ <<e, va>> \in Maps(n, q) <=> q = PageOf(n[e][va])
      /\ <<e, va>> \in Maps(m, q) <=> q = PageOf(m[e][va])
  BY DEF Maps
<1>3. Maps(m, q) \in SUBSET (Env \X VA) /\ Maps(n, q) \in SUBSET (Env \X VA)
  BY DEF Maps
<1>4. Cardinality(Maps(n, q)) = Cardinality(Maps(m, q)) + One(<<e, va>> \in Maps(n, q))
                                  - One(<<e, va>> \in Maps(m, q))
  BY <1>1, <1>3, Finite, CountChange
<1> QED
  BY <1>2, <1>4 DEF One, Same

\* One entry of a page directory changes.
LEMMA TablesChange ==
  ASSUME NEW t, NEW n, NEW e \in Env, NEW i \in Dir, NEW q,
         AgreeBut(t, n, Dir, e, i)
  PROVE  Cardinality(Tables(n, q))
           = Cardinality(Tables(t, q)) + Same(q, n[e][i]) - Same(q, t[e][i])
<1>1. \A y \in (Env \X Dir) \ {<<e, i>>} : y \in Tables(t, q) <=> y \in Tables(n, q)
  <2> SUFFICES ASSUME NEW f \in Env, NEW j \in Dir, <<f, j>> # <<e, i>>
               PROVE  <<f, j>> \in Tables(t, q) <=> <<f, j>> \in Tables(n, q)
    OBVIOUS
  <2> QED
    BY DEF Tables, AgreeBut
<1>2. /\ <<e, i>> \in Tables(n, q) <=> q = n[e][i]
      /\ <<e, i>> \in Tables(t, q) <=> q = t[e][i]
  BY DEF Tables
<1>3. Tables(t, q) \in SUBSET (Env \X Dir) /\ Tables(n, q) \in SUBSET (Env \X Dir)
  BY DEF Tables
<1>4. Cardinality(Tables(n, q)) = Cardinality(Tables(t, q)) + One(<<e, i>> \in Tables(n, q))
                                    - One(<<e, i>> \in Tables(t, q))
  BY <1>1, <1>3, Finite, CountChange
<1> QED
  BY <1>2, <1>4 DEF One, Same

\* The first page table of an environment, where nobody had one that is page q.
LEMMA FirstTable ==
  ASSUME NEW t, NEW n, NEW e \in Env, NEW i \in Dir, NEW q, NEW r, q # None,
         AgreeBut(t, n, Dir, e, i), t[e][i] = None, n[e][i] = r,
         Cardinality(Tables(t, q)) = 0
  PROVE  Cardinality(Tables(n, q)) = Same(q, r)
<1>1. Cardinality(Tables(n, q)) = Cardinality(Tables(t, q)) + Same(q, n[e][i]) - Same(q, t[e][i])
  BY TablesChange
<1>2. Same(q, None) = 0 /\ Same(q, r) \in {0, 1}
  BY DEF Same
<1> QED
  BY <1>1, <1>2

\* An environment gets a page directory, or loses it.
DirsAgreeBut(d, n, e) == \A f \in Env \ {e} : n[f] = d[f]

LEMMA DirsChange ==
  ASSUME NEW d, NEW n, NEW e \in Env, NEW q, DirsAgreeBut(d, n, e)
  PROVE  Cardinality(Dirs(n, q))
           = Cardinality(Dirs(d, q)) + Same(q, n[e]) - Same(q, d[e])
<1>1. \A f \in Env \ {e} : f \in Dirs(d, q) <=> f \in Dirs(n, q)
  BY DEF Dirs, DirsAgreeBut
<1>2. (e \in Dirs(n, q) <=> q = n[e]) /\ (e \in Dirs(d, q) <=> q = d[e])
  BY DEF Dirs
<1>3. Dirs(d, q) \in SUBSET Env /\ Dirs(n, q) \in SUBSET Env
  BY DEF Dirs
<1>4. Cardinality(Dirs(n, q))
        = Cardinality(Dirs(d, q)) + One(e \in Dirs(n, q)) - One(e \in Dirs(d, q))
  BY <1>1, <1>3, Finite, CountChange
<1> QED
  BY <1>2, <1>4 DEF One, Same

-----------------------------------------------------------------------------
(* The inductive invariant *)

Counts == \A q \in Page : ref[q] = Refs(pgdir, table, pte, q)

Listed == \A q \in Page : q \in free <=> ref[q] = 0

\* What the calls that change memory keep; the rest is about the CPUs.
Memory ==
  /\ free \subseteq Page
  /\ ref \in [Page -> Nat]
  /\ pgdir \in [Env -> Page \cup {None}]
  /\ table \in [Env -> [Dir -> Page \cup {None}]]
  /\ pte \in [Env -> [VA -> Mapping \cup {None}]]
  /\ Counts
  /\ Listed
  /\ Private(pgdir, table, pte)

IInv ==
  /\ TypeOK
  /\ Counts
  /\ Listed
  /\ Private(pgdir, table, pte)
  /\ TlbCoherent

\* The counts of the specification are those of the lemmas above.
LEMMA ReferencesAreRefs == \A q : References(q) = Refs(pgdir, table, pte, q)
BY DEF References, Refs, Dirs, Tables, Maps

\* A page something refers to is counted, and so not on page_free_list.
LEMMA UsedIsNotFree ==
  ASSUME IInv, NEW q \in Page, ~ Unreferenced(pgdir, table, pte, q)
  PROVE  ref[q] \in Nat /\ ref[q] # 0 /\ q \notin free
BY CountZero DEF IInv, Counts, Listed, TypeOK

\* And a page on page_free_list is nowhere.
LEMMA FreeIsUnused ==
  ASSUME IInv, NEW q \in free
  PROVE  q \in Page /\ ref[q] = 0 /\ Unreferenced(pgdir, table, pte, q)
<1>1. q \in Page
  BY DEF IInv, TypeOK
<1> QED
  BY <1>1, CountZero DEF IInv, Counts, Listed

\* An entry names a page, or is NULL.
LEMMA PageOfType ==
  ASSUME NEW m \in [Env -> [VA -> Mapping \cup {None}]], NEW e \in Env, NEW va \in VA
  PROVE  /\ m[e][va] # None => m[e][va] \in Mapping /\ PageOf(m[e][va]) = m[e][va].page
                               /\ PageOf(m[e][va]) \in Page
         /\ m[e][va] = None => PageOf(m[e][va]) = None
         /\ PageOf(m[e][va]) \in Page \cup {None}
BY DEF PageOf, Mapping

\* PDX(va) is an index of the page directory.
LEMMA AddressType == \A va \in VA : va[1] \in Dir
BY DEF VA

-----------------------------------------------------------------------------
(* page_insert *)

\* Tables u and entries m, once p is mapped at va, with a new page table t or None.
Inserted(e, va, p, t, u, m) ==
  /\ t # None => table[e][va[1]] = None
  /\ PageOf(m[e][va]) = p /\ AgreeBut(pte, m, VA, e, va)
  /\ u[e][va[1]] = IF t = None THEN table[e][va[1]] ELSE t
  /\ AgreeBut(table, u, Dir, e, va[1])

\* What page_insert should leave in pp_ref.
LEMMA InsertRefsCount ==
  ASSUME IInv, NEW e \in Env, NEW va \in VA, NEW p, NEW t, NEW u, NEW m,
         Inserted(e, va, p, t, u, m), NEW q \in Page
  PROVE  /\ Refs(pgdir, u, m, q) = ref[q] + Same(q, p) + Same(q, t) - Same(q, PageOf(pte[e][va]))
         /\ Refs(pgdir, u, m, q) \in Nat
<1> DEFINE D == Cardinality(Dirs(pgdir, q))
           T == Cardinality(Tables(table, q))
           M == Cardinality(Maps(pte, q))
           U == Cardinality(Tables(u, q))
           N == Cardinality(Maps(m, q))
           old == PageOf(pte[e][va])
<1>1. va[1] \in Dir /\ q # None
  BY AddressType, PmapAssumption
<1>2. /\ D \in Nat /\ T \in Nat /\ M \in Nat /\ U \in Nat /\ N \in Nat
      /\ Same(q, p) \in Nat /\ Same(q, t) \in Nat /\ Same(q, old) \in Nat
  BY CountZero DEF Same
<1>3. N = M + Same(q, p) - Same(q, old)
  BY MapsChange DEF Inserted
<1>4. U = T + Same(q, u[e][va[1]]) - Same(q, table[e][va[1]])
  BY <1>1, TablesChange DEF Inserted
<1>5. ASSUME t = None PROVE U = T + Same(q, t)
  <2>1. u[e][va[1]] = table[e][va[1]] /\ q # t
    BY <1>1, <1>5 DEF Inserted
  <2> QED
    BY <1>2, <1>4, <2>1 DEF Same
<1>6. ASSUME t # None PROVE U = T + Same(q, t)
  <2>1. u[e][va[1]] = t /\ q # table[e][va[1]]
    BY <1>1, <1>6 DEF Inserted
  <2> QED
    BY <1>2, <1>4, <2>1 DEF Same
<1>7. U = T + Same(q, t)
  BY <1>5, <1>6
<1>8. ref[q] = D + T + M
  BY DEF IInv, Counts, Refs
<1>9. Refs(pgdir, u, m, q) = D + U + N
  BY DEF Refs
<1>10. D + U + N = ref[q] + Same(q, p) + Same(q, t) - Same(q, old)
  BY <1>2, <1>3, <1>7, <1>8
<1> QED
  BY <1>2, <1>9, <1>10

\* page_insert of a page that is no table, found in or taken from page_free_list.
LEMMA InsertOK ==
  ASSUME IInv, NEW e \in Env, NEW va \in VA, NEW p \in Page, NEW w \in BOOLEAN,
         NEW fr \in SUBSET free, p \notin fr, free \subseteq fr \cup {p},
         \A f \in Env : pgdir[f] # p,
         \A f \in Env, i \in Dir : table[f][i] # p,
         PageInsert(e, va, p, w, fr), pgdir' = pgdir
  PROVE  Memory' /\ AgreeBut(pte, pte', VA, e, va) /\ pte'[e][va] = [page |-> p, w |-> w]
<1> DEFINE old == PageOf(pte[e][va])
           x == [page |-> p, w |-> w]
<1>1. PICK t \in IF table[e][va[1]] = None THEN fr ELSE {None} :
        /\ ref' = InsertRefs(p, t, old)
        /\ free' = InsertFree(fr, p, t, old)
        /\ table' = IF t = None THEN table ELSE [table EXCEPT ![e][va[1]] = t]
        /\ pte' = [pte EXCEPT ![e][va] = x]
  BY DEF PageInsert
<1>2. /\ va[1] \in Dir
      /\ free \subseteq Page /\ ref \in [Page -> Nat]
      /\ pgdir \in [Env -> Page \cup {None}]
      /\ table \in [Env -> [Dir -> Page \cup {None}]]
      /\ pte \in [Env -> [VA -> Mapping \cup {None}]]
  BY AddressType DEF IInv, TypeOK
<1>3. x \in Mapping /\ x # None /\ PageOf(x) = p /\ p # None
  <2>1. x \in Mapping
    BY DEF Mapping
  <2>2. x # None /\ p # None
    BY <2>1, PmapAssumption
  <2> QED
    BY <2>1, <2>2 DEF PageOf
<1>4. /\ t \in Page \cup {None}
      /\ t # None => t \in fr /\ table[e][va[1]] = None
      /\ t = None => table[e][va[1]] # None
  BY <1>1, <1>2, PmapAssumption
<1>5. /\ table' \in [Env -> [Dir -> Page \cup {None}]]
      /\ pte' \in [Env -> [VA -> Mapping \cup {None}]]
      /\ pte'[e][va] = x
      /\ table'[e][va[1]] = IF t = None THEN table[e][va[1]] ELSE t
  BY <1>1, <1>2, <1>3, <1>4
<1>6. AgreeBut(pte, pte', VA, e, va) /\ AgreeBut(table, table', Dir, e, va[1])
  BY <1>1, <1>2 DEF AgreeBut
<1>7. \A q \in Page : ref'[q] = ref[q] + Same(q, p) + Same(q, t) - Same(q, old)
  BY <1>1 DEF InsertRefs, One, Same
<1>8. \A q \in Page : /\ Refs(pgdir', table', pte', q)
                           = ref[q] + Same(q, p) + Same(q, t) - Same(q, old)
                      /\ Refs(pgdir', table', pte', q) \in Nat
  <2> SUFFICES ASSUME NEW q \in Page
               PROVE  /\ Refs(pgdir, table', pte', q)
                           = ref[q] + Same(q, p) + Same(q, t) - Same(q, old)
                      /\ Refs(pgdir, table', pte', q) \in Nat
    OBVIOUS
  <2>1. Inserted(e, va, p, t, table', pte')
    BY <1>3, <1>4, <1>5, <1>6 DEF Inserted
  <2> QED
    BY <2>1, InsertRefsCount
<1>9. Counts' /\ ref' \in [Page -> Nat]
  <2>1. \A q \in Page : ref'[q] = Refs(pgdir', table', pte', q) /\ ref'[q] \in Nat
    BY <1>7, <1>8
  <2>2. ref' = [q \in Page |-> ref'[q]]
    BY <1>1 DEF InsertRefs
  <2> QED
    BY <2>1, <2>2 DEF Counts
<1>10. old \in Page => ref[old] \in Nat /\ ref[old] # 0 /\ old \notin free
  BY <1>2, UsedIsNotFree, PmapAssumption DEF Unreferenced
<1>11. t # None => ref[t] = 0 /\ Unreferenced(pgdir, table, pte, t) /\ t # p /\ t # old
  BY <1>4, FreeIsUnused DEF Unreferenced
<1>12. Listed' /\ free' \subseteq Page
  <2>1. free' = (fr \ {t}) \cup {q \in Page : q = old /\ ref'[q] = 0}
    BY <1>1 DEF InsertFree
  <2>2. ASSUME NEW q \in Page PROVE q \in free' <=> ref'[q] = 0
    <3>1. /\ ref'[q] = ref[q] + Same(q, p) + Same(q, t) - Same(q, old)
          /\ ref[q] \in Nat /\ (q \in free <=> ref[q] = 0)
          /\ q # None
      BY <1>2, <1>7, PmapAssumption DEF IInv, Listed
    <3>2. CASE q = p
      BY <1>10, <1>11, <2>1, <3>1, <3>2 DEF Same
    <3>3. CASE q = t
      BY <1>10, <1>11, <2>1, <3>1, <3>3 DEF Same
    <3>4. CASE q # p /\ q # t /\ q = old
      BY <1>10, <2>1, <3>1, <3>4
    <3>5. CASE q # p /\ q # t /\ q # old
      BY <2>1, <3>1, <3>5 DEF Same
    <3> QED
      BY <3>2, <3>3, <3>4, <3>5
  <2> QED
    BY <1>2, <2>1, <2>2 DEF Listed
<1>13. Private(pgdir', table', pte')
  <2>1. /\ \A f \in Env, v \in VA : <<f, v>> # <<e, va>> => pte'[f][v] = pte[f][v]
        /\ \A f \in Env, i \in Dir : <<f, i>> # <<e, va[1]>> => table'[f][i] = table[f][i]
    BY <1>6 DEF AgreeBut
  <2>2. \A f \in Env, v \in VA : PageOf(pte'[f][v]) \in {p, PageOf(pte[f][v])}
    BY <1>3, <1>5, <2>1
  <2>3. Private(pgdir, table, pte)
    BY DEF IInv
  <2>4. CASE t = None
    <3>1. \A f \in Env, i \in Dir : table'[f][i] = table[f][i]
      BY <1>5, <2>1, <2>4
    <3> QED
      BY <2>2, <2>3, <3>1 DEF Private
  <2>5. CASE t # None
    <3>1. \A f \in Env, i \in Dir :
             table'[f][i] = IF f = e /\ i = va[1] THEN t ELSE table[f][i]
      BY <1>5, <2>1, <2>5
    <3>2. Unreferenced(pgdir, table, pte, t) /\ t # p
      BY <1>11, <2>5
    <3> QED
      BY <2>2, <2>3, <3>1, <3>2 DEF Private, Unreferenced
  <2> QED
    BY <2>4, <2>5
<1> QED
  BY <1>2, <1>5, <1>6, <1>9, <1>12, <1>13 DEF Memory

-----------------------------------------------------------------------------
(* page_remove *)

\* page_remove drops one reference, and frees the page with the last.
LEMMA RemoveOK ==
  ASSUME IInv, NEW e \in Env, NEW va \in VA, PageRemove(e, va),
         table' = table, pgdir' = pgdir
  PROVE  Memory' /\ AgreeBut(pte, pte', VA, e, va) /\ pte'[e][va] = None
<1> DEFINE old == PageOf(pte[e][va])
<1>1. /\ ref' = [q \in Page |-> ref[q] - One(q = old)]
      /\ free' = free \cup {q \in Page : q = old /\ ref'[q] = 0}
      /\ pte' = [pte EXCEPT ![e][va] = None]
  BY DEF PageRemove
<1>2. /\ free \subseteq Page /\ ref \in [Page -> Nat]
      /\ pgdir \in [Env -> Page \cup {None}]
      /\ table \in [Env -> [Dir -> Page \cup {None}]]
      /\ pte \in [Env -> [VA -> Mapping \cup {None}]]
      /\ va[1] \in Dir
  BY AddressType DEF IInv, TypeOK
<1>3. /\ pte' \in [Env -> [VA -> Mapping \cup {None}]]
      /\ pte'[e][va] = None
      /\ AgreeBut(pte, pte', VA, e, va)
  BY <1>1, <1>2 DEF AgreeBut
<1>4. \A q \in Page : ref'[q] = ref[q] - Same(q, old)
  BY <1>1 DEF One, Same
<1>5. \A q \in Page : /\ Refs(pgdir', table', pte', q) = ref[q] - Same(q, old)
                      /\ Refs(pgdir', table', pte', q) \in Nat
  <2> SUFFICES ASSUME NEW q \in Page
               PROVE  /\ Refs(pgdir, table, pte', q) = ref[q] - Same(q, old)
                      /\ Refs(pgdir, table, pte', q) \in Nat
    OBVIOUS
  <2>1. Inserted(e, va, None, None, table, pte')
    <3>1. PageOf(pte'[e][va]) = None
      BY <1>3 DEF PageOf
    <3>2. AgreeBut(table, table, Dir, e, va[1])
      BY DEF AgreeBut
    <3> QED
      BY <1>3, <3>1, <3>2 DEF Inserted
  <2>2. /\ Refs(pgdir, table, pte', q)
             = ref[q] + Same(q, None) + Same(q, None) - Same(q, old)
        /\ Refs(pgdir, table, pte', q) \in Nat
    BY <2>1, InsertRefsCount
  <2>3. Same(q, None) = 0 /\ Same(q, old) \in Nat /\ ref[q] \in Nat
    BY <1>2, PmapAssumption DEF Same
  <2> QED
    BY <2>2, <2>3
<1>6. Counts' /\ ref' \in [Page -> Nat]
  <2>1. \A q \in Page : ref'[q] = Refs(pgdir', table', pte', q) /\ ref'[q] \in Nat
    BY <1>4, <1>5
  <2>2. ref' = [q \in Page |-> ref'[q]]
    BY <1>1
  <2> QED
    BY <2>1, <2>2 DEF Counts
<1>7. Listed' /\ free' \subseteq Page
  <2>1. old \in Page => ref[old] \in Nat /\ ref[old] # 0 /\ old \notin free
    BY <1>2, UsedIsNotFree DEF Unreferenced
  <2>2. ASSUME NEW q \in Page PROVE q \in free' <=> ref'[q] = 0
    <3>1. /\ ref'[q] = ref[q] - Same(q, old)
          /\ ref[q] \in Nat /\ (q \in free <=> ref[q] = 0)
      BY <1>2, <1>4 DEF IInv, Listed
    <3>2. CASE q = old
      BY <1>1, <2>1, <3>1, <3>2
    <3>3. CASE q # old
      BY <1>1, <3>1, <3>3 DEF Same
    <3> QED
      BY <3>2, <3>3
  <2> QED
    BY <1>1, <1>2, <2>2 DEF Listed
<1>8. Private(pgdir', table', pte')
  <2>1. \A f \in Env, v \in VA : PageOf(pte'[f][v]) \in {None, PageOf(pte[f][v])}
    BY <1>3 DEF AgreeBut, PageOf
  <2>2. Private(pgdir, table, pte)
    BY DEF IInv
  <2> QED
    BY <2>1, <2>2 DEF Private
<1> QED
  BY <1>2, <1>3, <1>6, <1>7, <1>8 DEF Memory

-----------------------------------------------------------------------------
(* env_setup_vm and env_free *)

\* env_setup_vm takes a page for the page directory.
LEMMA SetupOK ==
  ASSUME IInv, NEW e \in Env, pgdir[e] = None, NEW p \in free,
         pgdir' = [pgdir EXCEPT ![e] = p], ref' = [ref EXCEPT ![p] = @ + 1],
         free' = free \ {p}, table' = table, pte' = pte
  PROVE  Memory'
<1>1. /\ free \subseteq Page /\ ref \in [Page -> Nat]
      /\ pgdir \in [Env -> Page \cup {None}]
      /\ table \in [Env -> [Dir -> Page \cup {None}]]
      /\ pte \in [Env -> [VA -> Mapping \cup {None}]]
      /\ None \notin Page
  BY PmapAssumption DEF IInv, TypeOK
<1>2. p \in Page /\ ref[p] = 0 /\ Unreferenced(pgdir, table, pte, p)
  BY FreeIsUnused
<1>3. /\ pgdir' \in [Env -> Page \cup {None}] /\ ref' \in [Page -> Nat]
      /\ pgdir'[e] = p /\ \A f \in Env \ {e} : pgdir'[f] = pgdir[f]
  BY <1>1, <1>2
<1>4. ASSUME NEW q \in Page PROVE ref'[q] = Refs(pgdir', table', pte', q)
  <2> DEFINE D == Cardinality(Dirs(pgdir, q))
             E == Cardinality(Dirs(pgdir', q))
             T == Cardinality(Tables(table, q))
             M == Cardinality(Maps(pte, q))
  <2>1. D \in Nat /\ E \in Nat /\ T \in Nat /\ M \in Nat
    BY CountZero
  <2>2. E = D + Same(q, p) - Same(q, None)
    <3>1. DirsAgreeBut(pgdir, pgdir', e)
      BY <1>3 DEF DirsAgreeBut
    <3>2. E = D + Same(q, pgdir'[e]) - Same(q, pgdir[e])
      BY <3>1, DirsChange
    <3> QED
      BY <1>3, <3>2
  <2>3. ref'[q] = ref[q] + Same(q, p) /\ Same(q, None) = 0 /\ Same(q, p) \in Nat
    BY <1>1, <1>2 DEF Same
  <2>4. ref[q] = D + T + M
    BY DEF IInv, Counts, Refs
  <2>5. Refs(pgdir', table', pte', q) = E + T + M
    BY DEF Refs
  <2> HIDE DEF D, E, T, M
  <2> QED
    BY <2>1, <2>2, <2>3, <2>4, <2>5
<1>5. Counts'
  BY <1>4 DEF Counts
<1>6. Listed'
  BY <1>1, <1>2 DEF IInv, Listed
<1>7. Private(pgdir', table', pte')
  BY <1>2, <1>3 DEF IInv, Private, Unreferenced
<1> QED
  BY <1>1, <1>3, <1>5, <1>6, <1>7 DEF Memory

\* Directories d, tables u and entries m once e is freed.
Emptied(e, d, u, m) ==
  /\ d[e] = None /\ DirsAgreeBut(pgdir, d, e)
  /\ \A i \in Dir : u[e][i] = None
  /\ \A f \in Env \ {e}, i \in Dir : u[f][i] = table[f][i]
  /\ \A va \in VA : m[e][va] = None
  /\ \A f \in Env \ {e}, va \in VA : m[f][va] = pte[f][va]

\* What env_free should leave in pp_ref.
LEMMA FreeRefsCount ==
  ASSUME IInv, NEW e \in Env, NEW d, NEW u, NEW m, Emptied(e, d, u, m), NEW q \in Page
  PROVE  /\ Refs(d, u, m, q)
              = ref[q] - Cardinality({va \in VA : PageOf(pte[e][va]) = q})
                       - Cardinality({i \in Dir : table[e][i] = q}) - Same(q, pgdir[e])
         /\ Refs(d, u, m, q) \in Nat
<1> DEFINE D == Cardinality(Dirs(pgdir, q))
           T == Cardinality(Tables(table, q))
           M == Cardinality(Maps(pte, q))
           DD == Cardinality(Dirs(d, q))
           TT == Cardinality(Tables(u, q))
           MM == Cardinality(Maps(m, q))
           SM == Cardinality({va \in VA : PageOf(pte[e][va]) = q})
           ST == Cardinality({i \in Dir : table[e][i] = q})
<1>1. q # None /\ PageOf(None) = None
  BY PmapAssumption DEF PageOf
<1>2. /\ D \in Nat /\ T \in Nat /\ M \in Nat
      /\ DD \in Nat /\ TT \in Nat /\ MM \in Nat /\ Same(q, pgdir[e]) \in Nat
  BY CountZero DEF Same
<1>3. DD = D - Same(q, pgdir[e])
  <2>1. DD = D + Same(q, d[e]) - Same(q, pgdir[e])
    BY DirsChange DEF Emptied
  <2>2. d[e] = None /\ Same(q, None) = 0
    BY <1>1 DEF Emptied, Same
  <2> QED
    BY <1>2, <2>1, <2>2
<1>4. TT = T - ST /\ ST \in Nat
  <2> DEFINE A == Tables(table, q)
  <2>1. A \in SUBSET (Env \X Dir)
    BY DEF Tables
  <2>2. {x \in A : x[1] # e} = Tables(u, q)
    BY <1>1 DEF Tables, Emptied
  <2>3. {i \in Dir : <<e, i>> \in A} = {i \in Dir : table[e][i] = q}
    BY DEF Tables
  <2> HIDE DEF A
  <2>4. /\ Cardinality({i \in Dir : <<e, i>> \in A}) \in Nat
        /\ Cardinality({x \in A : x[1] # e})
             = Cardinality(A) - Cardinality({i \in Dir : <<e, i>> \in A})
    BY <2>1, Finite, CountSlice
  <2> QED
    BY <2>2, <2>3, <2>4 DEF A
<1>5. MM = M - SM /\ SM \in Nat
  <2> DEFINE A == Maps(pte, q)
  <2>1. A \in SUBSET (Env \X VA)
    BY DEF Maps
  <2>2. {x \in A : x[1] # e} = Maps(m, q)
    BY <1>1 DEF Maps, Emptied
  <2>3. {va \in VA : <<e, va>> \in A} = {va \in VA : PageOf(pte[e][va]) = q}
    BY DEF Maps
  <2> HIDE DEF A
  <2>4. /\ Cardinality({va \in VA : <<e, va>> \in A}) \in Nat
        /\ Cardinality({x \in A : x[1] # e})
             = Cardinality(A) - Cardinality({va \in VA : <<e, va>> \in A})
    BY <2>1, Finite, CountSlice
  <2> QED
    BY <2>2, <2>3, <2>4 DEF A
<1>6. ref[q] = D + T + M /\ Refs(d, u, m, q) = DD + TT + MM
  BY DEF IInv, Counts, Refs
<1> HIDE DEF D, T, M, DD, TT, MM, SM, ST
<1>7. DD + TT + MM = ref[q] - SM - ST - Same(q, pgdir[e])
  BY <1>2, <1>3, <1>4, <1>5, <1>6
<1>8. DD + TT + MM \in Nat
  BY <1>2
<1> QED
  BY <1>6, <1>7, <1>8 DEF SM, ST

\* env_free gives back every page nothing else refers to.
LEMMA FreeOK ==
  ASSUME IInv, NEW c \in CPU, NEW e \in Env, EnvFree(c, e)
  PROVE  Memory' /\ (\A f \in Env \ {e}, va \in VA : pte'[f][va] = pte[f][va])
<1> DEFINE r == [q \in Page |->
                   ref[q] - Cardinality({va \in VA : PageOf(pte[e][va]) = q})
                          - Cardinality({i \in Dir : table[e][i] = q})
                          - One(pgdir[e] = q)]
<1>1. /\ ref' = r
      /\ free' = free \cup {q \in Page : ref[q] > 0 /\ r[q] = 0}
      /\ pgdir' = [pgdir EXCEPT ![e] = None]
      /\ table' = [table EXCEPT ![e] = [i \in Dir |-> None]]
      /\ pte' = [pte EXCEPT ![e] = [va \in VA |-> None]]
  BY DEF EnvFree
<1>2. /\ free \subseteq Page /\ ref \in [Page -> Nat]
      /\ pgdir \in [Env -> Page \cup {None}]
      /\ table \in [Env -> [Dir -> Page \cup {None}]]
      /\ pte \in [Env -> [VA -> Mapping \cup {None}]]
  BY DEF IInv, TypeOK
<1>3. /\ pgdir' \in [Env -> Page \cup {None}]
      /\ table' \in [Env -> [Dir -> Page \cup {None}]]
      /\ pte' \in [Env -> [VA -> Mapping \cup {None}]]
  BY <1>1, <1>2
<1>4. Emptied(e, pgdir', table', pte')
  BY <1>1, <1>2 DEF Emptied, DirsAgreeBut
<1>5. ASSUME NEW q \in Page
      PROVE  ref'[q] = Refs(pgdir', table', pte', q) /\ ref'[q] \in Nat /\ ref'[q] <= ref[q]
  <2> DEFINE SM == Cardinality({va \in VA : PageOf(pte[e][va]) = q})
             ST == Cardinality({i \in Dir : table[e][i] = q})
  <2>1. ref'[q] = ref[q] - SM - ST - Same(q, pgdir[e])
    BY <1>1 DEF One, Same
  <2>2. /\ Refs(pgdir', table', pte', q) = ref[q] - SM - ST - Same(q, pgdir[e])
        /\ Refs(pgdir', table', pte', q) \in Nat
    BY <1>4, FreeRefsCount
  <2>3. SM \in Nat /\ ST \in Nat
    BY Finite, FS_Subset, FS_CardinalityType
  <2>4. ref[q] \in Nat /\ Same(q, pgdir[e]) \in Nat
    BY <1>2 DEF Same
  <2> HIDE DEF SM, ST
  <2> QED
    BY <2>1, <2>2, <2>3, <2>4
<1>6. Counts' /\ ref' \in [Page -> Nat]
  <2>1. ref' = [q \in Page |-> ref'[q]]
    BY <1>1
  <2> QED
    BY <1>5, <2>1 DEF Counts
<1>7. Listed' /\ free' \subseteq Page
  <2>1. ASSUME NEW q \in Page PROVE q \in free' <=> ref'[q] = 0
    <3>1. q \in free' <=> q \in free \/ (ref[q] > 0 /\ ref'[q] = 0)
      BY <1>1
    <3>2. /\ ref[q] \in Nat /\ ref'[q] \in Nat /\ ref'[q] <= ref[q]
          /\ (q \in free <=> ref[q] = 0)
      BY <1>2, <1>5 DEF IInv, Listed
    <3> QED
      BY <3>1, <3>2
  <2> QED
    BY <1>1, <1>2, <2>1 DEF Listed
<1>8. Private(pgdir', table', pte')
  <2>1. /\ \A f \in Env : pgdir'[f] \in {None, pgdir[f]}
        /\ \A f \in Env, i \in Dir : table'[f][i] \in {None, table[f][i]}
        /\ \A f \in Env, va \in VA : PageOf(pte'[f][va]) \in {None, PageOf(pte[f][va])}
    BY <1>4 DEF Emptied, DirsAgreeBut, PageOf
  <2>2. Private(pgdir, table, pte)
    BY DEF IInv
  <2> QED
    BY <2>1, <2>2 DEF Private
<1> QED
  BY <1>3, <1>4, <1>6, <1>7, <1>8 DEF Memory, Emptied

-----------------------------------------------------------------------------
(* The invariant holds initially *)

\* One program, loaded by env_create.
LEMMA InitOK == Init => IInv
<1> SUFFICES ASSUME Init PROVE IInv
  OBVIOUS
<1>1. PICK e \in Env, a \in VA, d, t, p \in Page :
        /\ d # t /\ d # p /\ t # p
        /\ free = Page \ {d, t, p}
        /\ ref = [q \in Page |-> One(q \in {d, t, p})]
        /\ pgdir = [f \in Env |-> IF f = e THEN d ELSE None]
        /\ table = [f \in Env |-> [i \in Dir |-> IF f = e /\ i = a[1] THEN t ELSE None]]
        /\ pte = [f \in Env |-> [v \in VA |-> IF f = e /\ v = a
                                              THEN [page |-> p, w |-> TRUE] ELSE None]]
        /\ parent = [f \in Env |-> None]
        /\ cur = [c \in CPU |-> None]
        /\ tlb = [c \in CPU |-> EmptyTlb]
        /\ panicked = FALSE
  BY Zenon DEF Init
<1>2. /\ parent = [f \in Env |-> None] /\ cur = [c \in CPU |-> None]
      /\ tlb = [c \in CPU |-> EmptyTlb] /\ panicked = FALSE
  BY <1>1
<1> DEFINE x == [page |-> p, w |-> TRUE]
<1>3. /\ x \in Mapping /\ x # None /\ PageOf(x) = p /\ PageOf(None) = None
      /\ d # None /\ t # None /\ p # None /\ a[1] \in Dir
  <2>1. x \in Mapping
    BY DEF Mapping
  <2>2. x # None /\ d # None /\ t # None /\ p # None /\ a[1] \in Dir
    BY <2>1, AddressType, PmapAssumption
  <2> QED
    BY <2>1, <2>2 DEF PageOf
<1>4. TypeOK
  <2>1. /\ free \subseteq Page /\ ref \in [Page -> Nat]
        /\ pgdir \in [Env -> Page \cup {None}]
    BY <1>1 DEF One
  <2>2. table \in [Env -> [Dir -> Page \cup {None}]]
    BY <1>1
  <2>3. pte \in [Env -> [VA -> Mapping \cup {None}]]
    BY <1>1, <1>3
  <2>4. /\ parent \in [Env -> Env \cup {None}] /\ cur \in [CPU -> Env \cup {None}]
        /\ tlb \in [CPU -> [VA -> Mapping \cup {None}]] /\ panicked \in BOOLEAN
    BY <1>2 DEF EmptyTlb
  <2> QED
    BY <2>1, <2>2, <2>3, <2>4 DEF TypeOK
<1>5. ASSUME NEW q \in Page
      PROVE  Refs(pgdir, table, pte, q) = One(q \in {d, t, p})
  <2> DEFINE d0 == [f \in Env |-> None]
             t0 == [f \in Env |-> [i \in Dir |-> None]]
             m0 == [f \in Env |-> [v \in VA |-> None]]
             D == Cardinality(Dirs(pgdir, q))
             T == Cardinality(Tables(table, q))
             M == Cardinality(Maps(pte, q))
  <2>1. q # None
    BY PmapAssumption
  <2>2. /\ Cardinality(Dirs(d0, q)) = 0 /\ Cardinality(Tables(t0, q)) = 0
        /\ Cardinality(Maps(m0, q)) = 0
    <3>1. Dirs(d0, q) = {} /\ Tables(t0, q) = {} /\ Maps(m0, q) = {}
      BY <1>3, <2>1 DEF Dirs, Tables, Maps
    <3> QED
      BY <3>1, FS_EmptySet
  <2>3. DirsAgreeBut(d0, pgdir, e) /\ d0[e] = None /\ pgdir[e] = d
    BY <1>1 DEF DirsAgreeBut
  <2>4. AgreeBut(t0, table, Dir, e, a[1]) /\ t0[e][a[1]] = None /\ table[e][a[1]] = t
    BY <1>1, <1>3 DEF AgreeBut
  <2>5. AgreeBut(m0, pte, VA, e, a) /\ m0[e][a] = None /\ pte[e][a] = x
    BY <1>1 DEF AgreeBut
  <2> HIDE DEF d0, t0, m0, x
  <2>6. D = Same(q, d)
    <3>1. D = Cardinality(Dirs(d0, q)) + Same(q, pgdir[e]) - Same(q, d0[e])
      BY <2>3, DirsChange
    <3> QED
      BY <2>1, <2>2, <2>3, <3>1 DEF Same
  <2>7. T = Same(q, t)
    BY <1>3, <2>1, <2>2, <2>4, FirstTable
  <2>8. M = Same(q, p)
    <3>1. M = Cardinality(Maps(m0, q)) + Same(q, PageOf(pte[e][a])) - Same(q, PageOf(m0[e][a]))
      BY <2>5, MapsChange
    <3>2. PageOf(pte[e][a]) = p /\ PageOf(m0[e][a]) = None
      BY <1>3, <2>5
    <3> QED
      BY <2>1, <2>2, <3>1, <3>2 DEF Same
  <2>9. Refs(pgdir, table, pte, q) = D + T + M
    BY DEF Refs
  <2> HIDE DEF D, T, M
  <2> QED
    BY <1>1, <2>6, <2>7, <2>8, <2>9 DEF Same, One
<1>6. Counts
  BY <1>1, <1>5 DEF Counts
<1>7. Listed
  BY <1>1 DEF Listed, One
<1>8. Private(pgdir, table, pte)
  <2>1. /\ \A f \in Env : pgdir[f] = IF f = e THEN d ELSE None
        /\ \A f \in Env, i \in Dir : table[f][i] = IF f = e /\ i = a[1] THEN t ELSE None
        /\ \A f \in Env, v \in VA : PageOf(pte[f][v]) \in {p, None}
    BY <1>1, <1>3
  <2> QED
    BY <1>1, <1>3, <2>1 DEF Private
<1>9. TlbCoherent
  BY <1>2 DEF TlbCoherent, EmptyTlb
<1> QED
  BY <1>4, <1>6, <1>7, <1>8, <1>9 DEF IInv

-----------------------------------------------------------------------------
(* Every step keeps it *)

\* A call that keeps the memory right ends in env_run, which flushes the TLB of its CPU.
LEMMA ReturnOK ==
  ASSUME IInv, Memory', NEW c \in CPU, NEW x \in Env \cup {None}, EnvRun(c, x),
         parent' \in [Env -> Env \cup {None}], panicked' \in BOOLEAN,
         \A d \in CPU \ {c}, va \in VA :
           cur[d] # None => pte'[cur[d]][va] = pte[cur[d]][va]
  PROVE  IInv'
<1>1. /\ cur \in [CPU -> Env \cup {None}]
      /\ tlb \in [CPU -> [VA -> Mapping \cup {None}]]
      /\ EmptyTlb \in [VA -> Mapping \cup {None}]
  BY DEF IInv, TypeOK, EmptyTlb
<1>2. /\ cur' = [cur EXCEPT ![c] = x] /\ tlb' = [tlb EXCEPT ![c] = EmptyTlb]
  BY DEF EnvRun
<1>3. /\ cur' \in [CPU -> Env \cup {None}]
      /\ tlb' \in [CPU -> [VA -> Mapping \cup {None}]]
  BY <1>1, <1>2
<1>4. TypeOK'
  BY <1>3 DEF Memory, TypeOK
<1>5. TlbCoherent'
  <2> SUFFICES ASSUME NEW d \in CPU, NEW va \in VA, tlb'[d][va] # None
               PROVE  cur'[d] # None /\ tlb'[d][va] = pte'[cur'[d]][va]
    BY DEF TlbCoherent
  <2>1. d # c
    BY <1>1, <1>2 DEF EmptyTlb
  <2>2. cur'[d] = cur[d] /\ tlb'[d] = tlb[d]
    BY <1>1, <1>2, <2>1
  <2>3. cur[d] # None /\ tlb[d][va] = pte[cur[d]][va]
    BY <2>2 DEF IInv, TlbCoherent
  <2> QED
    BY <2>1, <2>2, <2>3
<1> QED
  BY <1>4, <1>5 DEF IInv, Memory

\* A step that leaves the memory alone.
LEMMA MemoryUnchanged ==
  ASSUME IInv, UNCHANGED <<free, ref, pgdir, table, pte>>
  PROVE  Memory'
<1>1. Counts' /\ Listed' /\ Private(pgdir', table', pte')
  BY DEF IInv, Counts, Listed
<1> QED
  BY <1>1 DEF IInv, TypeOK, Memory

\* The body of WriteComesFromAWriter.
WritersOnly ==
  \A e \in Env, va \in VA :
    LET m == pte'[e][va] IN
    m # None /\ m.w /\ m.page \notin free
    => \E f \in Env, v \in VA : pte[f][v] # None /\ pte[f][v].w /\ pte[f][v].page = m.page

\* A step that adds no entry adds no writer.
LEMMA KeepsWriters ==
  ASSUME \A e \in Env, va \in VA : pte'[e][va] \in {None, pte[e][va]}
  PROVE  WritersOnly
BY DEF WritersOnly

\* sched_yield to another environment, or a halt.
LEMMA SwitchOK ==
  ASSUME IInv, NEW c \in CPU, NEW e \in Env \cup {None}, Switch(c, e)
  PROVE  IInv' /\ WritersOnly
<1>1. Memory'
  BY MemoryUnchanged DEF Switch
<1>2. /\ EnvRun(c, e) /\ pte' = pte
      /\ parent' \in [Env -> Env \cup {None}] /\ panicked' \in BOOLEAN
  BY DEF Switch, IInv, TypeOK
<1> QED
  BY <1>1, <1>2, ReturnOK, KeepsWriters

\* The MMU caches an entry.
LEMMA AccessOK ==
  ASSUME IInv, NEW c \in CPU, NEW va \in VA, Access(c, va)
  PROVE  IInv' /\ WritersOnly
<1>1. Memory'
  BY MemoryUnchanged DEF Access
<1>2. /\ tlb' = [tlb EXCEPT ![c][va] = pte[cur[c]][va]]
      /\ cur' = cur /\ pte' = pte /\ cur[c] # None
      /\ UNCHANGED <<free, ref, pgdir, table, parent, panicked>>
  BY DEF Access
<1>3. /\ cur \in [CPU -> Env \cup {None}]
      /\ tlb \in [CPU -> [VA -> Mapping \cup {None}]]
      /\ pte \in [Env -> [VA -> Mapping \cup {None}]]
  BY DEF IInv, TypeOK
<1>4. TypeOK'
  <2>1. pte[cur[c]][va] \in Mapping \cup {None}
    BY <1>2, <1>3
  <2>2. tlb' \in [CPU -> [VA -> Mapping \cup {None}]]
    BY <1>2, <1>3, <2>1
  <2> QED
    BY <1>2, <2>2 DEF IInv, TypeOK
<1>5. TlbCoherent'
  BY <1>2, <1>3 DEF IInv, TlbCoherent
<1> QED
  BY <1>1, <1>2, <1>4, <1>5, KeepsWriters DEF IInv, Memory

\* sys_exofork.
LEMMA SysExoforkOK ==
  ASSUME IInv, NEW c \in CPU, SysExofork(c)
  PROVE  IInv' /\ WritersOnly
<1>1. PICK e \in Env, p \in free :
        /\ pgdir[e] = None
        /\ pgdir' = [pgdir EXCEPT ![e] = p]
        /\ ref' = [ref EXCEPT ![p] = @ + 1]
        /\ free' = free \ {p}
        /\ parent' = [parent EXCEPT ![e] = cur[c]]
  BY DEF SysExofork, Alive
<1>2. /\ EnvRun(c, cur[c]) /\ table' = table /\ pte' = pte /\ panicked' = panicked
      /\ cur[c] \in Env \cup {None} /\ panicked \in BOOLEAN
      /\ parent \in [Env -> Env \cup {None}]
  BY DEF SysExofork, Return, IInv, TypeOK
<1>3. Memory'
  BY <1>1, <1>2, SetupOK
<1>4. parent' \in [Env -> Env \cup {None}]
  BY <1>1, <1>2
<1> QED
  BY <1>2, <1>3, <1>4, ReturnOK, KeepsWriters

\* env_free, and the CPU that called it.
LEMMA EnvFreeOK ==
  ASSUME IInv, NEW c \in CPU, NEW e \in Env, EnvFree(c, e)
  PROVE  IInv' /\ WritersOnly
<1>1. Memory' /\ (\A f \in Env \ {e}, va \in VA : pte'[f][va] = pte[f][va])
  BY FreeOK
<1>2. /\ EnvRun(c, IF cur[c] = e THEN None ELSE cur[c]) /\ panicked' = panicked
      /\ parent' = [f \in Env |-> IF f = e \/ parent[f] = e THEN None ELSE parent[f]]
      /\ pte' = [pte EXCEPT ![e] = [va \in VA |-> None]]
      /\ \A d \in CPU \ {c} : cur[d] # e
  BY DEF EnvFree
<1>3. /\ cur \in [CPU -> Env \cup {None}] /\ panicked \in BOOLEAN
      /\ parent \in [Env -> Env \cup {None}]
      /\ pte \in [Env -> [VA -> Mapping \cup {None}]]
  BY DEF IInv, TypeOK
<1>4. parent' \in [Env -> Env \cup {None}]
  BY <1>2, <1>3
<1>5. \A d \in CPU \ {c}, va \in VA :
        cur[d] # None => pte'[cur[d]][va] = pte[cur[d]][va]
  BY <1>1, <1>2, <1>3
<1>6. WritersOnly
  BY <1>2, <1>3, KeepsWriters
<1>7. (IF cur[c] = e THEN None ELSE cur[c]) \in Env \cup {None}
  BY <1>3
<1> QED
  BY <1>1, <1>2, <1>3, <1>4, <1>5, <1>6, <1>7, ReturnOK

\* What a call does to one entry of e is nobody else's, for e is on no other CPU.
LEMMA EntryOfTarget ==
  ASSUME IInv, NEW c \in CPU, NEW e \in NotElsewhere(c), NEW va \in VA,
         AgreeBut(pte, pte', VA, e, va)
  PROVE  \A d \in CPU \ {c}, v \in VA : cur[d] # None => pte'[cur[d]][v] = pte[cur[d]][v]
BY DEF IInv, TypeOK, NotElsewhere, AgreeBut

\* sys_page_alloc, with memory and without.
LEMMA SysPageAllocOK ==
  ASSUME IInv, NEW c \in CPU, NEW e \in NotElsewhere(c), NEW va \in VA, NEW w \in BOOLEAN,
         SysPageAlloc(c, e, va, w)
  PROVE  IInv' /\ WritersOnly
<1>1. PICK p \in free :
        \/ PageInsert(e, va, p, w, free \ {p})
        \/ UNCHANGED <<free, ref, table, pte>>
  BY DEF SysPageAlloc
<1>2. /\ EnvRun(c, cur[c]) /\ pgdir' = pgdir /\ parent' = parent /\ panicked' = panicked
      /\ cur[c] \in Env \cup {None} /\ panicked \in BOOLEAN
      /\ parent \in [Env -> Env \cup {None}] /\ e \in Env
  BY DEF SysPageAlloc, Return, IInv, TypeOK, NotElsewhere
<1>3. CASE PageInsert(e, va, p, w, free \ {p})
  <2>1. p \in Page /\ Unreferenced(pgdir, table, pte, p)
    BY FreeIsUnused
  <2>2. /\ \A f \in Env : pgdir[f] # p
        /\ \A f \in Env, i \in Dir : table[f][i] # p
    BY <2>1 DEF Unreferenced
  <2> DEFINE fr == free \ {p}
  <2>3. fr \in SUBSET free /\ p \notin fr /\ free \subseteq fr \cup {p}
    OBVIOUS
  <2>4. PageInsert(e, va, p, w, fr)
    BY <1>3
  <2> HIDE DEF fr
  <2>5. Memory' /\ AgreeBut(pte, pte', VA, e, va) /\ pte'[e][va] = [page |-> p, w |-> w]
    BY <1>2, <2>1, <2>2, <2>3, <2>4, InsertOK
  <2>6. IInv'
    BY <1>2, <2>5, EntryOfTarget, ReturnOK
  <2>7. WritersOnly
    BY <2>5 DEF AgreeBut, WritersOnly
  <2> QED
    BY <2>6, <2>7
<1>4. CASE UNCHANGED <<free, ref, table, pte>>
  <2>1. Memory'
    BY <1>2, <1>4, MemoryUnchanged
  <2> QED
    BY <1>2, <1>4, <2>1, ReturnOK, KeepsWriters
<1> QED
  BY <1>1, <1>3, <1>4

\* sys_page_map, with memory and without: then page_free panics.
LEMMA SysPageMapOK ==
  ASSUME IInv, NEW c \in CPU, NEW src \in Env, NEW dst \in NotElsewhere(c),
         NEW srcva \in VA, NEW dstva \in VA, NEW w \in BOOLEAN,
         SysPageMap(c, src, srcva, dst, dstva, w)
  PROVE  IInv' /\ WritersOnly
<1> DEFINE p == pte[src][srcva].page
<1>1. /\ pte[src][srcva] # None /\ (w => pte[src][srcva].w)
      /\ \/ PageInsert(dst, dstva, p, w, free) /\ UNCHANGED panicked
         \/ PageFree(p) /\ UNCHANGED <<ref, table, pte>>
  BY DEF SysPageMap
<1>2. /\ EnvRun(c, cur[c]) /\ pgdir' = pgdir /\ parent' = parent
      /\ cur[c] \in Env \cup {None} /\ panicked \in BOOLEAN
      /\ parent \in [Env -> Env \cup {None}] /\ dst \in Env
      /\ pte \in [Env -> [VA -> Mapping \cup {None}]]
  BY DEF SysPageMap, Return, IInv, TypeOK, NotElsewhere
<1>3. p \in Page /\ p = PageOf(pte[src][srcva])
  BY <1>1, <1>2, PageOfType
<1>4. ref[p] \in Nat /\ ref[p] # 0 /\ p \notin free
  BY <1>3, UsedIsNotFree DEF Unreferenced
<1>5. CASE PageInsert(dst, dstva, p, w, free) /\ UNCHANGED panicked
  <2>1. /\ \A f \in Env : pgdir[f] # p
        /\ \A f \in Env, i \in Dir : table[f][i] # p
    BY <1>3, PmapAssumption DEF IInv, Private
  <2> HIDE DEF p
  <2>2. /\ Memory' /\ AgreeBut(pte, pte', VA, dst, dstva)
        /\ pte'[dst][dstva] = [page |-> p, w |-> w]
    BY <1>2, <1>3, <1>4, <1>5, <2>1, InsertOK
  <2>3. IInv'
    BY <1>2, <1>5, <2>2, EntryOfTarget, ReturnOK
  <2>4. WritersOnly
    <3> SUFFICES ASSUME NEW e \in Env, NEW va \in VA,
                        pte'[e][va] # None, pte'[e][va].w
                 PROVE  \E f \in Env, v \in VA :
                          pte[f][v] # None /\ pte[f][v].w /\ pte[f][v].page = pte'[e][va].page
      BY DEF WritersOnly
    <3>1. CASE e = dst /\ va = dstva
      <4>1. w /\ pte'[e][va].page = p
        BY <2>2, <3>1
      <4> QED
        BY <1>1, <4>1 DEF p
    <3>2. CASE ~ (e = dst /\ va = dstva)
      <4>1. pte'[e][va] = pte[e][va]
        BY <2>2, <3>2 DEF AgreeBut
      <4> QED
        BY <4>1
    <3> QED
      BY <3>1, <3>2
  <2> QED
    BY <2>3, <2>4
<1>6. CASE PageFree(p) /\ UNCHANGED <<ref, table, pte>>
  <2>1. panicked' = TRUE /\ free' = free
    BY <1>4, <1>6 DEF PageFree
  <2>2. Memory'
    BY <1>2, <1>6, <2>1, MemoryUnchanged
  <2> QED
    BY <1>2, <1>6, <2>1, <2>2, ReturnOK, KeepsWriters
<1> QED
  BY <1>1, <1>5, <1>6

\* sys_page_unmap.
LEMMA SysPageUnmapOK ==
  ASSUME IInv, NEW c \in CPU, NEW e \in NotElsewhere(c), NEW va \in VA,
         SysPageUnmap(c, e, va)
  PROVE  IInv' /\ WritersOnly
<1>1. /\ EnvRun(c, cur[c]) /\ PageRemove(e, va)
      /\ pgdir' = pgdir /\ table' = table /\ parent' = parent /\ panicked' = panicked
      /\ cur[c] \in Env \cup {None} /\ panicked \in BOOLEAN
      /\ parent \in [Env -> Env \cup {None}] /\ e \in Env
  BY DEF SysPageUnmap, Return, IInv, TypeOK, NotElsewhere
<1>2. Memory' /\ AgreeBut(pte, pte', VA, e, va) /\ pte'[e][va] = None
  BY <1>1, RemoveOK
<1>3. IInv'
  BY <1>1, <1>2, EntryOfTarget, ReturnOK
<1>4. WritersOnly
  BY <1>2, KeepsWriters DEF AgreeBut
<1> QED
  BY <1>3, <1>4

\* Every step keeps the invariant and adds no writer of its own.
LEMMA NextOK == IInv /\ Next => IInv' /\ WritersOnly
<1> SUFFICES ASSUME IInv, Next PROVE IInv' /\ WritersOnly
  OBVIOUS
<1>1. PICK c \in CPU : User(c) \/ Calls(c, NotElsewhere(c))
  BY DEF Next
<1>2. CASE User(c)
  BY <1>2, SwitchOK, AccessOK DEF User
<1>3. CASE Calls(c, NotElsewhere(c))
  <2>1. CASE SysExofork(c)
    BY <2>1, SysExoforkOK
  <2>2. CASE \E e \in Env : EnvFree(c, e)
    BY <2>2, EnvFreeOK
  <2>3. CASE \E e \in NotElsewhere(c), va \in VA, w \in BOOLEAN : SysPageAlloc(c, e, va, w)
    BY <2>3, SysPageAllocOK
  <2>4. CASE \E src \in Env, dst \in NotElsewhere(c), srcva, dstva \in VA, w \in BOOLEAN :
               SysPageMap(c, src, srcva, dst, dstva, w)
    BY <2>4, SysPageMapOK
  <2>5. CASE \E e \in NotElsewhere(c), va \in VA : SysPageUnmap(c, e, va)
    BY <2>5, SysPageUnmapOK
  <2> QED
    BY <1>3, <2>1, <2>2, <2>3, <2>4, <2>5 DEF Calls
<1> QED
  BY <1>1, <1>2, <1>3

-----------------------------------------------------------------------------
(* The theorems *)

\* The inductive invariant holds whatever the calls, on any number of CPUs.
THEOREM Invariance == Spec => []IInv
<1>1. IInv /\ UNCHANGED vars => IInv'
  <2> SUFFICES ASSUME IInv, UNCHANGED vars PROVE IInv'
    OBVIOUS
  <2>1. Memory' /\ TypeOK' /\ TlbCoherent'
    BY MemoryUnchanged DEF vars, IInv, TypeOK, TlbCoherent
  <2> QED
    BY <2>1 DEF IInv, Memory
<1>2. IInv /\ [Next]_vars => IInv'
  BY <1>1, NextOK
<1> QED
  BY <1>2, InitOK, PTL DEF Spec

\* Types, and pp_ref exact after every call, those that fail half way among
\* them (page_insert, page_remove, pgdir_walk, env_free).
THEOREM CountsAreExact == Spec => [](TypeOK /\ RefCounts)
<1>1. IInv => TypeOK /\ RefCounts
  BY ReferencesAreRefs DEF IInv, Counts, RefCounts
<1> QED
  BY <1>1, Invariance, PTL

\* page_free_list holds the pages nothing refers to: no page is lost or handed
\* out twice (page_alloc, page_free, page_decref).
THEOREM FreeListIsExact == Spec => []FreeExact
<1>1. IInv => FreeExact
  BY ReferencesAreRefs DEF IInv, Counts, Listed, FreeExact
<1> QED
  BY <1>1, Invariance, PTL

\* A page directory or page table has one use, so no program can map one
\* (env_setup_vm, pgdir_walk).
THEOREM TablesStayPrivate == Spec => []TablesArePrivate
<1>1. ASSUME IInv, NEW e \in Env, pgdir[e] # None PROVE References(pgdir[e]) = 1
  <2> DEFINE q == pgdir[e]
  <2>1. Dirs(pgdir, q) = {e}
    BY <1>1 DEF Dirs, IInv, Private
  <2>2. /\ \A f \in Env, i \in Dir : table[f][i] # q
        /\ \A f \in Env, va \in VA : PageOf(pte[f][va]) # q
    BY <1>1 DEF IInv, Private
  <2> HIDE DEF q
  <2>3. Tables(table, q) = {} /\ Maps(pte, q) = {}
    BY <2>2 DEF Tables, Maps
  <2>4. Refs(pgdir, table, pte, q) = 1
    <3>1. Cardinality({e}) = 1
      BY FS_Singleton
    <3>2. Cardinality({}) = 0
      BY FS_EmptySet
    <3> QED
      BY <2>1, <2>3, <3>1, <3>2 DEF Refs
  <2> QED
    BY <2>4, ReferencesAreRefs DEF q
<1>2. ASSUME IInv, NEW e \in Env, NEW i \in Dir, table[e][i] # None
      PROVE  References(table[e][i]) = 1
  <2> DEFINE q == table[e][i]
  <2>1. /\ \A f \in Env, j \in Dir : table[f][j] = q <=> f = e /\ j = i
        /\ \A f \in Env : pgdir[f] # q
        /\ \A f \in Env, va \in VA : PageOf(pte[f][va]) # q
    BY <1>2 DEF IInv, Private
  <2> HIDE DEF q
  <2>2. Tables(table, q) = {<<e, i>>}
    BY <2>1 DEF Tables
  <2>3. Dirs(pgdir, q) = {} /\ Maps(pte, q) = {}
    BY <2>1 DEF Dirs, Maps
  <2>4. Refs(pgdir, table, pte, q) = 1
    <3>1. Cardinality({<<e, i>>}) = 1
      BY FS_Singleton
    <3>2. Cardinality({}) = 0
      BY FS_EmptySet
    <3> QED
      BY <2>2, <2>3, <3>1, <3>2 DEF Refs
  <2> QED
    BY <2>4, ReferencesAreRefs DEF q
<1>3. IInv => TablesArePrivate
  BY <1>1, <1>2 DEF TablesArePrivate
<1> QED
  BY <1>3, Invariance, PTL

\* User code never reaches a page through a stale TLB entry (tlb_invalidate
\* and the lcr3 of env_run and sched_halt, on every CPU).
THEOREM TlbsAreCoherent == Spec => []TlbCoherent
<1>1. IInv => TlbCoherent
  BY DEF IInv
<1> QED
  BY <1>1, Invariance, PTL

\* Write permission comes from a writer (the PTE_W test of sys_page_map).
THEOREM WritersComeFromWriters == Spec => WriteComesFromAWriter
<1>1. IInv /\ [Next]_vars
      => [\A e \in Env, va \in VA :
            LET m == pte'[e][va] IN
            m # None /\ m.w /\ m.page \notin free
            => \E f \in Env, v \in VA : pte[f][v] # None /\ pte[f][v].w
                                        /\ pte[f][v].page = m.page]_vars
  BY NextOK DEF WritersOnly
<1> QED
  BY <1>1, Invariance, PTL DEF Spec, WriteComesFromAWriter

=============================================================================
