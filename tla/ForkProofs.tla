------------------------------ MODULE ForkProofs ------------------------------
(***************************************************************************)
(* Proofs about Fork, for any number of programs, pages, physical pages    *)
(* and values: its safety, and that it implements AddressSpaces.           *)
(***************************************************************************)
EXTENDS Fork, TLAPS

-----------------------------------------------------------------------------
(* The inductive invariant *)

\* WriterIsAlone without its type.
Alone ==
  \A p, q \in Proc, g, h \in Page :
    /\ pte[p][g] # None /\ pte[q][h] # None /\ <<p, g>> # <<q, h>>
    /\ pte[p][g].w /\ ~ pte[p][g].share /\ pte[p][g].frame = pte[q][h].frame
    => /\ at[p].pc = "own" /\ at[p].pn = g /\ h = g
       /\ at[p].child = q /\ status[q] = "embryo"

\* The copy a program is making at PFTEMP is mapped nowhere.
CopyIsNew ==
  /\ \A p \in Proc : fault[p].copy = None => fault[p] = NoFault
  /\ \A p \in Proc : fault[p] # NoFault => fault[p].page # None /\ status[p] = "live"
  /\ \A p, q \in Proc : fault[p].copy # None /\ fault[p].copy = fault[q].copy => p = q
  /\ \A p, q \in Proc, g \in Page :
       fault[p].copy # None /\ pte[q][g] # None => pte[q][g].frame # fault[p].copy

Forking(p) == at[p].pc # "run"

\* A program in fork() has a child of its own, which does not run.
ChildrenWait ==
  \A p \in Proc : Forking(p) =>
    /\ status[p] = "live" /\ p \in upcall
    /\ at[p].child \in Proc /\ status[at[p].child] = "embryo"
    /\ \A q \in Proc : Forking(q) /\ at[q].child = at[p].child => q = p

\* The loop of fork() has mapped page g in the child.
Done(p, g) ==
  \/ at[p].pc \in {"uxstack", "upcall", "status"}
  \/ g < at[p].pn \/ (g = at[p].pn /\ at[p].pc = "own")

ChildIsMapped ==
  \A p \in Proc : Forking(p) =>
    /\ \A g \in Page : Done(p, g) => pte[at[p].child][g] # None
    /\ at[p].pc = "status" => at[p].child \in upcall

\* What duppage gives both: no private page stays writable.
PermsAreSafe ==
  \A p \in Proc : at[p].pc \in {"child", "own"} =>
    /\ at[p].perms # None
    /\ at[p].perms.w => at[p].perms.share /\ ~ at[p].perms.cow
    /\ at[p].perms.w \/ at[p].perms.cow

\* Every page of a program that runs can be written, or copied first.
AllMapped ==
  \A p \in Proc : status[p] = "live" =>
    \A g \in Page : pte[p][g] # None /\ (pte[p][g].cow => p \in upcall)

EntriesAreUsable ==
  \A p \in Proc, g \in Page : pte[p][g] # None => pte[p][g].w \/ pte[p][g].cow

IInv ==
  /\ TypeOK /\ Alone /\ CopyIsNew /\ ChildrenWait
  /\ ChildIsMapped /\ PermsAreSafe /\ AllMapped /\ EntriesAreUsable


-----------------------------------------------------------------------------
(* It holds at the start, and every step keeps it *)

\* Going on in fork() keeps the type of a program's step.
LEMMA StepGoto ==
  ASSUME NEW s \in Step,
         NEW where \in {"perms", "child", "own", "uxstack", "upcall", "status"}
  PROVE  [s EXCEPT !.pc = where] \in Step
BY DEF Step

\* At the start there is one program, and no physical page is mapped twice.
LEMMA InitIInv == Init => IInv
<1> SUFFICES ASSUME Init PROVE IInv
  OBVIOUS
<1> USE ForkAssumption DEF Init, Idle, NoFault, Page, Stack
<1>1. TypeOK
  BY DEF TypeOK, Pte, Unset, Rights, Entry, Step, Copying
<1>2. Alone
  BY DEF Alone, Pte
<1>3. CopyIsNew
  BY DEF CopyIsNew, Pte
<1>4. ChildrenWait
  BY DEF ChildrenWait, Forking, Done
<1>5. ChildIsMapped
  BY DEF ChildIsMapped, Forking, Done
<1>6. PermsAreSafe
  BY DEF PermsAreSafe
<1>7. AllMapped
  <2>1. \A g \in Page : pte[First][g] \in Pte /\ ~ pte[First][g].cow
    BY DEF Pte
  <2> QED
    BY <2>1 DEF AllMapped
<1>8. EntriesAreUsable
  BY DEF EntriesAreUsable, Pte
<1> QED
  BY <1>1, <1>2, <1>3, <1>4, <1>5, <1>6, <1>7, <1>8 DEF IInv

\* Writing changes what a page holds, and no entry.
LEMMA WriteKeeps ==
  ASSUME IInv, NEW p \in Proc, NEW g \in Page, NEW v \in Val, Write(p, g, v)
  PROVE  IInv'
<1>1. /\ TypeOK /\ Alone /\ CopyIsNew /\ ChildrenWait
      /\ ChildIsMapped /\ PermsAreSafe /\ AllMapped /\ EntriesAreUsable
  BY DEF IInv
<1>2. UNCHANGED <<status, pte, upcall, at, fault>>
  BY DEF Write
<1>3. TypeOK'
  <2>1. data' \in [Frame -> Val]
    BY <1>1 DEF Write, TypeOK
  <2> QED
    BY <1>1, <1>2, <2>1 DEF TypeOK
<1>4. Alone' /\ CopyIsNew' /\ EntriesAreUsable'
  BY <1>1, <1>2 DEF Alone, CopyIsNew, EntriesAreUsable
<1>5. ChildrenWait' /\ ChildIsMapped' /\ PermsAreSafe' /\ AllMapped'
  BY <1>1, <1>2 DEF ChildrenWait, ChildIsMapped, PermsAreSafe, AllMapped, Forking, Done
<1> QED
  BY <1>3, <1>4, <1>5 DEF IInv

\* A copy is begun in a page that is mapped nowhere.
LEMMA PgfaultKeeps ==
  ASSUME IInv, NEW p \in Proc, NEW g \in Page, NEW f \in Frame, Pgfault(p, g, f)
  PROVE  IInv'
<1> DEFINE new == [page |-> g, copy |-> f]
<1>1. /\ TypeOK /\ Alone /\ CopyIsNew /\ ChildrenWait
      /\ ChildIsMapped /\ PermsAreSafe /\ AllMapped /\ EntriesAreUsable
  BY DEF IInv
<1>2. /\ status[p] = "live" /\ f \in Free
      /\ fault' = [fault EXCEPT ![p] = new]
      /\ data' = [data EXCEPT ![f] = data[pte[p][g].frame]]
      /\ pte[p][g] # None
      /\ UNCHANGED <<status, pte, upcall, at>>
  BY <1>1 DEF Pgfault, MayWrite, Executes, AllMapped
<1>3. new \in Copying /\ g # None /\ f # None
  BY ForkAssumption DEF Copying, Unset
<1>4. TypeOK'
  <2>1. pte[p][g].frame \in Frame
    BY <1>1, <1>2 DEF TypeOK, Unset, Entry, Pte
  <2>2. data' \in [Frame -> Val]
    BY <1>1, <1>2, <2>1 DEF TypeOK
  <2>3. fault' \in [Proc -> Copying]
    BY <1>1, <1>2, <1>3 DEF TypeOK
  <2> QED
    BY <1>1, <1>2, <2>2, <2>3 DEF TypeOK
<1>5. CopyIsNew'
  <2>1. /\ \A q \in Proc : fault[q].copy # f
        /\ \A q \in Proc, h \in Page : pte[q][h] # None => pte[q][h].frame # f
    BY <1>2 DEF Free, Mapped
  <2>2. fault'[p] = new /\ \A q \in Proc \ {p} : fault'[q] = fault[q]
    BY <1>1, <1>2 DEF TypeOK
  <2>3. new.page = g /\ new.copy = f
    OBVIOUS
  <2> HIDE DEF new
  <2>4. \A q \in Proc : fault'[q].copy = None => fault'[q] = NoFault
    BY <1>1, <1>3, <2>2, <2>3 DEF CopyIsNew
  <2>5. \A q \in Proc : fault'[q] # NoFault => fault'[q].page # None /\ status[q] = "live"
    BY <1>1, <1>2, <1>3, <2>2, <2>3 DEF CopyIsNew
  <2>6. \A q, r \in Proc : fault'[q].copy # None /\ fault'[q].copy = fault'[r].copy => q = r
    BY <1>1, <2>1, <2>2, <2>3 DEF CopyIsNew
  <2>7. \A q, r \in Proc, h \in Page :
          fault'[q].copy # None /\ pte[r][h] # None => pte[r][h].frame # fault'[q].copy
    BY <1>1, <2>1, <2>2, <2>3 DEF CopyIsNew
  <2> QED
    BY <1>2, <2>4, <2>5, <2>6, <2>7 DEF CopyIsNew
<1>6. Alone' /\ EntriesAreUsable'
  BY <1>1, <1>2 DEF Alone, EntriesAreUsable
<1>7. ChildrenWait' /\ ChildIsMapped' /\ PermsAreSafe' /\ AllMapped'
  BY <1>1, <1>2 DEF ChildrenWait, ChildIsMapped, PermsAreSafe, AllMapped, Forking, Done
<1> QED
  BY <1>4, <1>5, <1>6, <1>7 DEF IInv

\* The copy becomes the program's own page, and nobody else's.
LEMMA PgfaultEndKeeps ==
  ASSUME IInv, NEW p \in Proc, PgfaultEnd(p)
  PROVE  IInv'
<1> DEFINE x == fault[p].page
           f == fault[p].copy
           new == [frame |-> f, w |-> TRUE, cow |-> FALSE, share |-> FALSE]
<1>1. /\ TypeOK /\ Alone /\ CopyIsNew /\ ChildrenWait
      /\ ChildIsMapped /\ PermsAreSafe /\ AllMapped /\ EntriesAreUsable
  BY DEF IInv
<1>2. /\ fault[p] # NoFault
      /\ pte' = [pte EXCEPT ![p][x] = new]
      /\ fault' = [fault EXCEPT ![p] = NoFault]
      /\ UNCHANGED <<status, data, upcall, at>>
  BY DEF PgfaultEnd
<1>3. x \in Page /\ f \in Frame /\ f # None /\ status[p] = "live"
  BY <1>1, <1>2 DEF TypeOK, CopyIsNew, Copying, Unset
<1>4. /\ new \in Entry /\ new # None
      /\ new.w /\ ~ new.cow /\ new.frame = f
  <2>1. new \in Pte /\ new.w /\ ~ new.cow /\ new.frame = f
    BY <1>3 DEF Pte
  <2> QED
    BY <2>1, ForkAssumption DEF Entry
<1> HIDE DEF new
<1>5. /\ pte'[p][x] = new
      /\ \A q \in Proc, h \in Page : <<q, h>> # <<p, x>> => pte'[q][h] = pte[q][h]
  BY <1>1, <1>2, <1>3 DEF TypeOK
<1>6. /\ fault'[p] = NoFault /\ \A q \in Proc \ {p} : fault'[q] = fault[q]
  BY <1>1, <1>2 DEF TypeOK
<1>7. TypeOK'
  <2>1. fault' \in [Proc -> Copying]
    BY <1>1, <1>2 DEF TypeOK, NoFault, Copying, Unset
  <2>2. pte' \in [Proc -> [Page -> Entry \cup Unset]]
    BY <1>1, <1>2, <1>3, <1>4 DEF TypeOK
  <2> QED
    BY <1>1, <1>2, <2>1, <2>2 DEF TypeOK
<1>8. \A q \in Proc, h \in Page :
        <<q, h>> # <<p, x>> /\ pte'[q][h] # None => pte'[q][h].frame # f
  BY <1>1, <1>3, <1>5 DEF CopyIsNew
<1>9. Alone'
  <2> SUFFICES ASSUME NEW q \in Proc, NEW r \in Proc, NEW h \in Page, NEW k \in Page,
                      pte'[q][h] # None, pte'[r][k] # None, <<q, h>> # <<r, k>>,
                      pte'[q][h].w, ~ pte'[q][h].share,
                      pte'[q][h].frame = pte'[r][k].frame
               PROVE  /\ at'[q].pc = "own" /\ at'[q].pn = h /\ k = h
                      /\ at'[q].child = r /\ status'[r] = "embryo"
    BY DEF Alone
  <2>1. <<q, h>> # <<p, x>> /\ <<r, k>> # <<p, x>>
    BY <1>4, <1>5, <1>8
  <2> QED
    BY <1>1, <1>2, <1>5, <2>1 DEF Alone
<1>10. CopyIsNew'
  <2>1. NoFault.copy = None
    BY DEF NoFault
  <2>2. \A q \in Proc : fault'[q].copy # None => q # p /\ fault[q].copy # f
    BY <1>1, <1>3, <1>6, <2>1 DEF CopyIsNew
  <2>3. \A q, r \in Proc, h \in Page :
          fault'[q].copy # None /\ pte'[r][h] # None => pte'[r][h].frame # fault'[q].copy
    BY <1>1, <1>4, <1>5, <1>6, <2>2 DEF CopyIsNew
  <2>4. \A q, r \in Proc : fault'[q].copy # None /\ fault'[q].copy = fault'[r].copy => q = r
    BY <1>1, <1>6, <2>1 DEF CopyIsNew
  <2>5. \A q \in Proc :
          /\ fault'[q].copy = None => fault'[q] = NoFault
          /\ fault'[q] # NoFault => fault'[q].page # None /\ status[q] = "live"
    BY <1>1, <1>6 DEF CopyIsNew
  <2> QED
    BY <1>2, <2>3, <2>4, <2>5 DEF CopyIsNew
<1>11. \A q \in Proc, h \in Page : pte[q][h] # None => pte'[q][h] # None
  BY <1>4, <1>5
<1>12. ChildrenWait' /\ PermsAreSafe'
  BY <1>1, <1>2 DEF ChildrenWait, PermsAreSafe, Forking
<1>13. ChildIsMapped'
  BY <1>1, <1>2, <1>11 DEF ChildIsMapped, ChildrenWait, Forking, Done
<1>14. AllMapped' /\ EntriesAreUsable'
  BY <1>1, <1>2, <1>4, <1>5 DEF AllMapped, EntriesAreUsable
<1> QED
  BY <1>7, <1>9, <1>10, <1>12, <1>13, <1>14 DEF IInv

\* sys_exofork makes a child that has nothing yet.
LEMMA ForkKeeps ==
  ASSUME IInv, NEW p \in Proc, NEW c \in Proc, Fork(p, c)
  PROVE  IInv'
<1> DEFINE next == [pc |-> "perms", pn |-> 0, child |-> c, perms |-> None]
<1>1. /\ TypeOK /\ Alone /\ CopyIsNew /\ ChildrenWait
      /\ ChildIsMapped /\ PermsAreSafe /\ AllMapped /\ EntriesAreUsable
  BY DEF IInv
<1>2. /\ status[p] = "live" /\ at[p].pc = "run" /\ status[c] = "none"
      /\ upcall' = upcall \cup {p}
      /\ status' = [status EXCEPT ![c] = "embryo"]
      /\ at' = [at EXCEPT ![p] = next]
      /\ UNCHANGED <<pte, data, fault>>
  BY DEF Fork, Executes
<1>3. /\ next \in Step
      /\ next.pc = "perms" /\ next.pn = 0 /\ next.child = c
  <2>1. 0 \in Page
    BY ForkAssumption DEF Page
  <2> QED
    BY <2>1 DEF Step, Unset
<1> HIDE DEF next
<1>4. /\ at'[p] = next /\ \A q \in Proc \ {p} : at'[q] = at[q]
      /\ status'[c] = "embryo" /\ \A q \in Proc \ {c} : status'[q] = status[q]
  BY <1>1, <1>2 DEF TypeOK
<1>5. TypeOK'
  BY <1>1, <1>2, <1>3 DEF TypeOK
<1>6. Alone'
  <2>1. \A q \in Proc : at[q].pc = "own" => at'[q] = at[q]
    BY <1>2, <1>4
  <2>2. \A q \in Proc : status[q] = "embryo" => status'[q] = "embryo"
    BY <1>4
  <2> QED
    BY <1>1, <1>2, <2>1, <2>2 DEF Alone
<1>7. CopyIsNew'
  BY <1>1, <1>2, <1>4 DEF CopyIsNew
<1>8. ChildrenWait'
  <2>1. \A q \in Proc : Forking(q) => q # p /\ q # c /\ at[q].child # c /\ at'[q] = at[q]
    BY <1>1, <1>2, <1>4 DEF ChildrenWait, Forking
  <2>2. \A q \in Proc : Forking(q)' => q = p \/ Forking(q)
    BY <1>4 DEF Forking
  <2>3. \A q \in Proc : Forking(q)' =>
          /\ status'[q] = "live" /\ q \in upcall'
          /\ at'[q].child \in Proc /\ status'[at'[q].child] = "embryo"
    BY <1>1, <1>2, <1>3, <1>4, <2>1, <2>2 DEF ChildrenWait
  <2>4. \A q, r \in Proc :
          Forking(q)' /\ Forking(r)' /\ at'[r].child = at'[q].child => r = q
    BY <1>1, <1>3, <1>4, <2>1, <2>2 DEF ChildrenWait
  <2> QED
    BY <2>3, <2>4 DEF ChildrenWait
<1>9. ChildIsMapped'
  <2>1. \A g \in Page : ~ Done(p, g)'
    BY <1>3, <1>4, ForkAssumption DEF Done, Page
  <2>2. \A q \in Proc \ {p} : Forking(q)' => Forking(q)
    BY <1>4 DEF Forking
  <2>3. \A q \in Proc \ {p}, g \in Page : Done(q, g)' => Done(q, g)
    BY <1>4 DEF Done
  <2> QED
    BY <1>1, <1>2, <1>3, <1>4, <2>1, <2>2, <2>3 DEF ChildIsMapped
<1>10. PermsAreSafe'
  BY <1>1, <1>3, <1>4 DEF PermsAreSafe
<1>11. AllMapped' /\ EntriesAreUsable'
  BY <1>1, <1>2, <1>4 DEF AllMapped, EntriesAreUsable
<1> QED
  BY <1>5, <1>6, <1>7, <1>8, <1>9, <1>10, <1>11 DEF IInv

\* The perms of duppage are computed.
LEMMA DuppagePermsKeeps ==
  ASSUME IInv, NEW p \in Proc, DuppagePerms(p)
  PROVE  IInv'
<1> DEFINE r == Perms(pte[p][at[p].pn])
<1>1. /\ TypeOK /\ Alone /\ CopyIsNew /\ ChildrenWait
      /\ ChildIsMapped /\ PermsAreSafe /\ AllMapped /\ EntriesAreUsable
  BY DEF IInv
<1>2. /\ status[p] = "live" /\ at[p].pc = "perms"
      /\ at' = [at EXCEPT ![p] = [at[p] EXCEPT !.pc = "child", !.perms = r]]
      /\ UNCHANGED <<status, pte, data, upcall, fault>>
  BY DEF DuppagePerms, At, Executes
<1>3. at[p] \in Step /\ at[p].pn \in Page
  BY <1>1 DEF TypeOK, Step
<1>4. /\ pte[p][at[p].pn] \in Entry
      /\ pte[p][at[p].pn].w \/ pte[p][at[p].pn].cow
  BY <1>1, <1>2, <1>3 DEF TypeOK, Unset, AllMapped, EntriesAreUsable
<1>5. /\ r \in Rights /\ r # None
      /\ r.w => r.share /\ ~ r.cow
      /\ r.w \/ r.cow
  <2>1. PICK e \in Pte : e = pte[p][at[p].pn] /\ (e.w \/ e.cow) /\ ~ (e.w /\ e.cow)
    BY <1>4 DEF Entry
  <2>2. Perms(e) \in Rights
    BY DEF Perms, Rights, Pte
  <2>3. /\ Perms(e).w => Perms(e).share /\ ~ Perms(e).cow
        /\ Perms(e).w \/ Perms(e).cow
    BY <2>1 DEF Perms, Pte
  <2> QED
    BY <2>1, <2>2, <2>3, ForkAssumption
<1> HIDE DEF r
<1>6. [at[p] EXCEPT !.pc = "child", !.perms = r] \in Step
  <2>1. PICK j \in Step : j = at[p]
    BY <1>3
  <2>2. r \in Rights
    BY <1>5
  <2>3. [j EXCEPT !.pc = "child", !.perms = r] \in Step
    BY <2>2 DEF Step
  <2> QED
    BY <2>1, <2>3
<1>7. /\ at'[p].pc = "child" /\ at'[p].perms = r
      /\ at'[p].pn = at[p].pn /\ at'[p].child = at[p].child
      /\ \A q \in Proc \ {p} : at'[q] = at[q]
  BY <1>1, <1>2, <1>3 DEF TypeOK, Step
<1>8. TypeOK'
  BY <1>1, <1>2, <1>6 DEF TypeOK
<1>9. Alone'
  <2>1. \A q \in Proc : at[q].pc = "own" => q # p
    BY <1>2
  <2> QED
    BY <1>1, <1>2, <1>7, <2>1 DEF Alone
<1>10. CopyIsNew'
  BY <1>1, <1>2 DEF CopyIsNew
<1>11. \A q \in Proc : (Forking(q)' <=> Forking(q)) /\ at'[q].child = at[q].child
  BY <1>2, <1>7 DEF Forking
<1>12. ChildrenWait'
  BY <1>1, <1>2, <1>11 DEF ChildrenWait
<1>13. \A q \in Proc, g \in Page : Done(q, g)' => Done(q, g)
  BY <1>2, <1>7 DEF Done
<1>14. \A q \in Proc : at'[q].pc = "status" => at[q].pc = "status"
  BY <1>7
<1>15. ChildIsMapped'
  BY <1>1, <1>2, <1>11, <1>13, <1>14 DEF ChildIsMapped
<1>16. PermsAreSafe'
  BY <1>1, <1>5, <1>7 DEF PermsAreSafe
<1>17. AllMapped' /\ EntriesAreUsable'
  BY <1>1, <1>2 DEF AllMapped, EntriesAreUsable
<1> QED
  BY <1>8, <1>9, <1>10, <1>12, <1>15, <1>16, <1>17 DEF IInv

\* The parent's page is mapped in the child, and not writable unless shared.
LEMMA DuppageChildKeeps ==
  ASSUME IInv, NEW p \in Proc, DuppageChild(p)
  PROVE  IInv'
<1> DEFINE g == at[p].pn
           c == at[p].child
           new == Map(pte[p][g].frame, at[p].perms)
<1>1. /\ TypeOK /\ Alone /\ CopyIsNew /\ ChildrenWait
      /\ ChildIsMapped /\ PermsAreSafe /\ AllMapped /\ EntriesAreUsable
  BY DEF IInv
<1>2. /\ status[p] = "live" /\ at[p].pc = "child" /\ fault[p] = NoFault
      /\ pte' = [pte EXCEPT ![c][g] = new]
      /\ at' = [at EXCEPT ![p] = [at[p] EXCEPT !.pc = "own"]]
      /\ UNCHANGED <<status, data, upcall, fault>>
  BY DEF DuppageChild, At, Executes, Goto
<1>3. at[p] \in Step /\ g \in Page
  BY <1>1 DEF TypeOK, Step
<1>4. Forking(p) /\ c \in Proc /\ status[c] = "embryo" /\ c # p
  BY <1>1, <1>2 DEF ChildrenWait, Forking
<1>5. /\ pte[p][g] \in Entry /\ pte[p][g] # None
      /\ at[p].perms \in Rights
  BY <1>1, <1>2, <1>3 DEF TypeOK, Unset, AllMapped, PermsAreSafe, Step
<1>6. /\ at[p].perms.w => at[p].perms.share /\ ~ at[p].perms.cow
      /\ at[p].perms.w \/ at[p].perms.cow
  BY <1>1, <1>2 DEF PermsAreSafe
<1>7. /\ new \in Entry /\ new # None /\ new.frame = pte[p][g].frame
      /\ new.w => new.share
      /\ new.w \/ new.cow
  BY <1>5, <1>6, ForkAssumption DEF Map, Entry, Pte, Rights
<1>8. /\ pte'[c][g] = new
      /\ \A q \in Proc, h \in Page : <<q, h>> # <<c, g>> => pte'[q][h] = pte[q][h]
  BY <1>1, <1>2, <1>3, <1>4 DEF TypeOK
<1>9. /\ at'[p].pc = "own" /\ at'[p].pn = g /\ at'[p].child = c
      /\ at'[p].perms = at[p].perms
      /\ \A q \in Proc \ {p} : at'[q] = at[q]
  BY <1>1, <1>2, <1>3 DEF TypeOK, Step
<1>10. \A q \in Proc : (Forking(q)' <=> Forking(q)) /\ at'[q].child = at[q].child
  BY <1>2, <1>9 DEF Forking
<1>11. TypeOK'
  <2>1. at' \in [Proc -> Step]
    BY <1>1, <1>2, <1>3, StepGoto DEF TypeOK
  <2>2. pte' \in [Proc -> [Page -> Entry \cup Unset]]
    BY <1>1, <1>2, <1>3, <1>4, <1>7 DEF TypeOK
  <2> QED
    BY <1>1, <1>2, <2>1, <2>2 DEF TypeOK
<1> HIDE DEF new
<1>12. Alone'
  <2> SUFFICES ASSUME NEW q \in Proc, NEW r \in Proc, NEW h \in Page, NEW k \in Page,
                      pte'[q][h] # None, pte'[r][k] # None, <<q, h>> # <<r, k>>,
                      pte'[q][h].w, ~ pte'[q][h].share,
                      pte'[q][h].frame = pte'[r][k].frame
               PROVE  /\ at'[q].pc = "own" /\ at'[q].pn = h /\ k = h
                      /\ at'[q].child = r /\ status'[r] = "embryo"
    BY DEF Alone
  <2>1. <<q, h>> # <<c, g>> /\ pte'[q][h] = pte[q][h]
    BY <1>7, <1>8
  <2>2. CASE <<r, k>> = <<c, g>>
    <3>1. pte[q][h].frame = pte[p][g].frame
      BY <1>7, <1>8, <2>1, <2>2
    <3>2. <<q, h>> = <<p, g>>
      <4> SUFFICES ASSUME <<q, h>> # <<p, g>> PROVE FALSE
        OBVIOUS
      <4>1. /\ at[q].pc = "own" /\ at[q].pn = h /\ g = h /\ at[q].child = p /\ status[p] = "embryo"
        BY <1>1, <1>3, <1>5, <2>1, <3>1 DEF Alone
      <4> QED
        BY <1>2, <4>1
    <3> QED
      BY <1>2, <1>4, <1>9, <2>2, <3>2
  <2>3. CASE <<r, k>> # <<c, g>>
    <3>1. /\ at[q].pc = "own" /\ at[q].pn = h /\ k = h
          /\ at[q].child = r /\ status[r] = "embryo"
      BY <1>1, <1>8, <2>1, <2>3 DEF Alone
    <3> QED
      BY <1>2, <1>9, <3>1
  <2> QED
    BY <2>2, <2>3
<1>13. CopyIsNew'
  <2>1. \A q \in Proc : fault[q].copy # None => new.frame # fault[q].copy
    BY <1>1, <1>3, <1>5, <1>7 DEF CopyIsNew
  <2>2. \A q, r \in Proc, h \in Page :
          fault[q].copy # None /\ pte'[r][h] # None => pte'[r][h].frame # fault[q].copy
    BY <1>1, <1>8, <2>1 DEF CopyIsNew
  <2> QED
    BY <1>1, <1>2, <2>2 DEF CopyIsNew
<1>14. ChildrenWait'
  BY <1>1, <1>2, <1>10 DEF ChildrenWait
<1>15. ChildIsMapped'
  <2>1. \A h \in Page : Done(p, h)' => h = g \/ Done(p, h)
    BY <1>2, <1>9 DEF Done
  <2>2. \A h \in Page : Done(p, h)' => pte'[c][h] # None
    BY <1>1, <1>4, <1>7, <1>8, <2>1 DEF ChildIsMapped
  <2>3. \A q \in Proc \ {p} : Forking(q) => at[q].child # c /\ at[q].child \in Proc
    BY <1>1, <1>4 DEF ChildrenWait
  <2>4. \A q \in Proc \ {p}, h \in Page :
          Forking(q) /\ Done(q, h)' => pte'[at[q].child][h] # None
    BY <1>1, <1>8, <1>9, <2>3 DEF ChildIsMapped, Done
  <2>5. \A q \in Proc \ {p} : Forking(q) /\ at'[q].pc = "status" => at[q].child \in upcall
    BY <1>1, <1>9 DEF ChildIsMapped
  <2> QED
    BY <1>2, <1>9, <1>10, <2>2, <2>4, <2>5 DEF ChildIsMapped
<1>16. PermsAreSafe'
  BY <1>1, <1>2, <1>9 DEF PermsAreSafe
<1>17. AllMapped'
  <2>1. \A q \in Proc : status[q] = "live" => q # c
    BY <1>4
  <2> QED
    BY <1>1, <1>2, <1>8, <2>1 DEF AllMapped
<1>18. EntriesAreUsable'
  BY <1>1, <1>7, <1>8 DEF EntriesAreUsable
<1> QED
  BY <1>11, <1>12, <1>13, <1>14, <1>15, <1>16, <1>17, <1>18 DEF IInv

\* The parent's own page is mapped again, and not writable unless shared.
LEMMA DuppageOwnKeeps ==
  ASSUME IInv, NEW p \in Proc, DuppageOwn(p)
  PROVE  IInv'
<1> DEFINE g == at[p].pn
           new == Own(p, g)
           more == g + 1 < NPages
           next == [at[p] EXCEPT !.pc = IF more THEN "perms" ELSE "uxstack",
                                 !.pn = IF more THEN g + 1 ELSE 0,
                                 !.perms = None]
<1>1. /\ TypeOK /\ Alone /\ CopyIsNew /\ ChildrenWait
      /\ ChildIsMapped /\ PermsAreSafe /\ AllMapped /\ EntriesAreUsable
  BY DEF IInv
<1>2. /\ status[p] = "live" /\ at[p].pc = "own" /\ fault[p] = NoFault
      /\ pte' = [pte EXCEPT ![p][g] = new]
      /\ at' = [at EXCEPT ![p] = next]
      /\ UNCHANGED <<status, data, upcall, fault>>
  BY DEF DuppageOwn, At, Executes
<1>3. at[p] \in Step /\ g \in Page
  BY <1>1 DEF TypeOK, Step
<1>4. Forking(p) /\ at[p].child \in Proc /\ status[at[p].child] = "embryo" /\ p \in upcall
  BY <1>1, <1>2 DEF ChildrenWait, Forking
<1>5. /\ pte[p][g] \in Entry /\ pte[p][g] # None
      /\ at[p].perms \in Rights
  BY <1>1, <1>2, <1>3 DEF TypeOK, Unset, AllMapped, PermsAreSafe, Step
<1>6. /\ at[p].perms.w => at[p].perms.share /\ ~ at[p].perms.cow
      /\ at[p].perms.w \/ at[p].perms.cow
  BY <1>1, <1>2 DEF PermsAreSafe
<1>7. /\ new \in Entry /\ new # None /\ new.frame = pte[p][g].frame
      /\ new.w => new.share
      /\ new.w \/ new.cow
  BY <1>5, <1>6, ForkAssumption DEF Own, Map, Entry, Pte, Rights
<1> HIDE DEF new
<1>8. /\ pte'[p][g] = new
      /\ \A q \in Proc, h \in Page : <<q, h>> # <<p, g>> => pte'[q][h] = pte[q][h]
  BY <1>1, <1>2, <1>3 DEF TypeOK
<1>9. next \in Step
  <2>1. (IF more THEN g + 1 ELSE 0) \in Page
    BY <1>3, ForkAssumption DEF Page
  <2> QED
    BY <1>3, <2>1 DEF Step, Unset
<1>10. /\ at'[p].pc = IF more THEN "perms" ELSE "uxstack"
       /\ at'[p].pn = IF more THEN g + 1 ELSE 0
       /\ at'[p].child = at[p].child
       /\ \A q \in Proc \ {p} : at'[q] = at[q]
  BY <1>1, <1>2, <1>3 DEF TypeOK, Step
<1>11. \A q \in Proc : (Forking(q)' <=> Forking(q)) /\ at'[q].child = at[q].child
  BY <1>2, <1>10 DEF Forking
<1>12. TypeOK'
  <2>1. at' \in [Proc -> Step]
    BY <1>1, <1>2, <1>9 DEF TypeOK
  <2>2. pte' \in [Proc -> [Page -> Entry \cup Unset]]
    BY <1>1, <1>2, <1>3, <1>7 DEF TypeOK
  <2> QED
    BY <1>1, <1>2, <2>1, <2>2 DEF TypeOK
<1>13. Alone'
  <2> SUFFICES ASSUME NEW q \in Proc, NEW r \in Proc, NEW h \in Page, NEW k \in Page,
                      pte'[q][h] # None, pte'[r][k] # None, <<q, h>> # <<r, k>>,
                      pte'[q][h].w, ~ pte'[q][h].share,
                      pte'[q][h].frame = pte'[r][k].frame
               PROVE  /\ at'[q].pc = "own" /\ at'[q].pn = h /\ k = h
                      /\ at'[q].child = r /\ status'[r] = "embryo"
    BY DEF Alone
  <2>1. <<q, h>> # <<p, g>> /\ pte'[q][h] = pte[q][h]
    BY <1>7, <1>8
  <2>2. pte[r][k] # None /\ pte[r][k].frame = pte'[r][k].frame
    BY <1>5, <1>7, <1>8
  <2>3. /\ at[q].pc = "own" /\ at[q].pn = h /\ k = h
        /\ at[q].child = r /\ status[r] = "embryo"
    BY <1>1, <2>1, <2>2 DEF Alone
  <2>4. q # p
    BY <2>1, <2>3
  <2> QED
    BY <1>2, <1>10, <2>3, <2>4
<1>14. CopyIsNew'
  <2>1. \A q \in Proc : fault[q].copy # None => new.frame # fault[q].copy
    BY <1>1, <1>3, <1>5, <1>7 DEF CopyIsNew
  <2>2. \A q, r \in Proc, h \in Page :
          fault[q].copy # None /\ pte'[r][h] # None => pte'[r][h].frame # fault[q].copy
    BY <1>1, <1>8, <2>1 DEF CopyIsNew
  <2> QED
    BY <1>1, <1>2, <2>2 DEF CopyIsNew
<1>15. ChildrenWait'
  BY <1>1, <1>2, <1>11 DEF ChildrenWait
<1>16. ChildIsMapped'
  <2>1. \A h \in Page : Done(p, h)' => Done(p, h)
    <3> SUFFICES ASSUME NEW h \in Page, Done(p, h)'
                 PROVE  Done(p, h)
      OBVIOUS
    <3>1. CASE more
      BY <1>2, <1>3, <1>10, <3>1 DEF Done, Page
    <3>2. CASE ~ more
      BY <1>2, <1>3, <3>2, ForkAssumption DEF Done, Page
    <3> QED
      BY <3>1, <3>2
  <2>2. \A q \in Proc \ {p}, h \in Page : Done(q, h)' => Done(q, h)
    BY <1>10 DEF Done
  <2>3. \A q \in Proc, h \in Page :
          Forking(q) /\ pte[at[q].child][h] # None => pte'[at[q].child][h] # None
    BY <1>1, <1>7, <1>8 DEF ChildrenWait
  <2>4. \A q \in Proc : at'[q].pc = "status" => at[q].pc = "status"
    BY <1>10
  <2> QED
    BY <1>1, <1>2, <1>11, <2>1, <2>2, <2>3, <2>4 DEF ChildIsMapped
<1>17. PermsAreSafe'
  <2>1. at'[p].pc \notin {"child", "own"}
    BY <1>10
  <2> QED
    BY <1>1, <1>10, <2>1 DEF PermsAreSafe
<1>18. AllMapped'
  BY <1>1, <1>2, <1>4, <1>7, <1>8 DEF AllMapped
<1>19. EntriesAreUsable'
  BY <1>1, <1>7, <1>8 DEF EntriesAreUsable
<1> QED
  BY <1>12, <1>13, <1>14, <1>15, <1>16, <1>17, <1>18, <1>19 DEF IInv

\* The child gets its exception stack.
LEMMA ForkUxstackKeeps ==
  ASSUME IInv, NEW p \in Proc, ForkUxstack(p)
  PROVE  IInv'
<1>1. /\ TypeOK /\ Alone /\ CopyIsNew /\ ChildrenWait
      /\ ChildIsMapped /\ PermsAreSafe /\ AllMapped /\ EntriesAreUsable
  BY DEF IInv
<1>2. /\ at[p].pc = "uxstack"
      /\ at' = [at EXCEPT ![p] = [at[p] EXCEPT !.pc = "upcall"]]
      /\ UNCHANGED <<status, pte, data, upcall, fault>>
  BY DEF ForkUxstack, At, Goto
<1>3. at[p] \in Step
  BY <1>1 DEF TypeOK
<1>4. /\ at'[p].pc = "upcall" /\ at'[p].child = at[p].child
      /\ \A q \in Proc \ {p} : at'[q] = at[q]
  BY <1>1, <1>2, <1>3 DEF TypeOK, Step
<1>5. TypeOK'
  BY <1>1, <1>2, <1>3, StepGoto DEF TypeOK
<1>6. Alone'
  <2>1. \A q \in Proc : at[q].pc = "own" => at'[q] = at[q]
    BY <1>2, <1>4
  <2> QED
    BY <1>1, <1>2, <2>1 DEF Alone
<1>7. CopyIsNew' /\ AllMapped' /\ EntriesAreUsable'
  BY <1>1, <1>2 DEF CopyIsNew, AllMapped, EntriesAreUsable
<1>8. \A q \in Proc : (Forking(q)' <=> Forking(q)) /\ at'[q].child = at[q].child
  BY <1>2, <1>4 DEF Forking
<1>9. ChildrenWait'
  BY <1>1, <1>2, <1>8 DEF ChildrenWait
<1>10. ChildIsMapped'
  <2>1. \A q \in Proc, g \in Page : Done(q, g)' => Done(q, g)
    BY <1>2, <1>4 DEF Done
  <2>2. \A q \in Proc : at'[q].pc = "status" => at[q].pc = "status"
    BY <1>4
  <2> QED
    BY <1>1, <1>2, <1>8, <2>1, <2>2 DEF ChildIsMapped
<1>11. PermsAreSafe'
  BY <1>1, <1>4 DEF PermsAreSafe
<1> QED
  BY <1>5, <1>6, <1>7, <1>9, <1>10, <1>11 DEF IInv

\* The child gets its upcall.
LEMMA ForkUpcallKeeps ==
  ASSUME IInv, NEW p \in Proc, ForkUpcall(p)
  PROVE  IInv'
<1>1. /\ TypeOK /\ Alone /\ CopyIsNew /\ ChildrenWait
      /\ ChildIsMapped /\ PermsAreSafe /\ AllMapped /\ EntriesAreUsable
  BY DEF IInv
<1>2. /\ at[p].pc = "upcall"
      /\ upcall' = upcall \cup {at[p].child}
      /\ at' = [at EXCEPT ![p] = [at[p] EXCEPT !.pc = "status"]]
      /\ UNCHANGED <<status, pte, data, fault>>
  BY DEF ForkUpcall, At, Goto
<1>3. at[p] \in Step /\ at[p].child \in Proc
  BY <1>1, <1>2 DEF TypeOK, ChildrenWait, Forking
<1>4. /\ at'[p].pc = "status" /\ at'[p].child = at[p].child
      /\ \A q \in Proc \ {p} : at'[q] = at[q]
  BY <1>1, <1>2, <1>3 DEF TypeOK, Step
<1>5. TypeOK'
  BY <1>1, <1>2, <1>3, StepGoto DEF TypeOK
<1>6. Alone'
  <2>1. \A q \in Proc : at[q].pc = "own" => at'[q] = at[q]
    BY <1>2, <1>4
  <2> QED
    BY <1>1, <1>2, <2>1 DEF Alone
<1>7. CopyIsNew' /\ AllMapped' /\ EntriesAreUsable'
  BY <1>1, <1>2 DEF CopyIsNew, AllMapped, EntriesAreUsable
<1>8. \A q \in Proc : (Forking(q)' <=> Forking(q)) /\ at'[q].child = at[q].child
  BY <1>2, <1>4 DEF Forking
<1>9. ChildrenWait'
  BY <1>1, <1>2, <1>8 DEF ChildrenWait
<1>10. ChildIsMapped'
  <2>1. \A q \in Proc, g \in Page : Done(q, g)' => Done(q, g)
    BY <1>2, <1>4 DEF Done
  <2>2. \A q \in Proc \ {p} : at'[q].pc = "status" => at[q].pc = "status"
    BY <1>4
  <2> QED
    BY <1>1, <1>2, <1>8, <2>1, <2>2 DEF ChildIsMapped
<1>11. PermsAreSafe'
  BY <1>1, <1>4 DEF PermsAreSafe
<1> QED
  BY <1>5, <1>6, <1>7, <1>9, <1>10, <1>11 DEF IInv

\* The child runs, with every page mapped.
LEMMA ForkStatusKeeps ==
  ASSUME IInv, NEW p \in Proc, ForkStatus(p)
  PROVE  IInv'
<1> DEFINE c == at[p].child
<1>1. /\ TypeOK /\ Alone /\ CopyIsNew /\ ChildrenWait
      /\ ChildIsMapped /\ PermsAreSafe /\ AllMapped /\ EntriesAreUsable
  BY DEF IInv
<1>2. /\ at[p].pc = "status"
      /\ status' = [status EXCEPT ![c] = "live"]
      /\ at' = [at EXCEPT ![p] = Idle]
      /\ UNCHANGED <<pte, data, upcall, fault>>
  BY DEF ForkStatus, At
<1>3. /\ c \in Proc /\ status[c] = "embryo" /\ c \in upcall
      /\ \A g \in Page : pte[c][g] # None
      /\ \A q \in Proc \ {p} : Forking(q) => at[q].child # c /\ q # c
  BY <1>1, <1>2 DEF ChildrenWait, ChildIsMapped, Forking, Done
<1>4. Idle \in Step /\ Idle.pc = "run"
  BY ForkAssumption DEF Idle, Step, Page, Unset
<1>5. /\ at'[p] = Idle /\ \A q \in Proc \ {p} : at'[q] = at[q]
      /\ status'[c] = "live" /\ \A q \in Proc \ {c} : status'[q] = status[q]
  BY <1>1, <1>2, <1>3 DEF TypeOK
<1> HIDE DEF c
<1>6. \A q \in Proc : Forking(q)' => q # p /\ Forking(q) /\ at'[q] = at[q]
  BY <1>4, <1>5 DEF Forking
<1>7. TypeOK'
  BY <1>1, <1>2, <1>3, <1>4 DEF TypeOK
<1>8. Alone'
  <2>1. \A q \in Proc : at[q].pc = "own" =>
          at'[q] = at[q] /\ status'[at[q].child] = status[at[q].child]
    BY <1>1, <1>2, <1>3, <1>5 DEF ChildrenWait, Forking
  <2> QED
    BY <1>1, <1>2, <2>1 DEF Alone
<1>9. CopyIsNew'
  BY <1>1, <1>2, <1>3, <1>5 DEF CopyIsNew
<1>10. ChildrenWait'
  <2>1. \A q \in Proc : Forking(q)' =>
          /\ status'[q] = "live" /\ q \in upcall'
          /\ at'[q].child \in Proc /\ status'[at'[q].child] = "embryo"
    BY <1>1, <1>2, <1>3, <1>5, <1>6 DEF ChildrenWait
  <2> QED
    BY <1>1, <1>6, <2>1 DEF ChildrenWait
<1>11. ChildIsMapped'
  <2>1. \A q \in Proc, g \in Page : Forking(q)' /\ Done(q, g)' => Done(q, g)
    BY <1>6 DEF Done
  <2> QED
    BY <1>1, <1>2, <1>6, <2>1 DEF ChildIsMapped
<1>12. PermsAreSafe'
  BY <1>1, <1>4, <1>5 DEF PermsAreSafe
<1>13. AllMapped' /\ EntriesAreUsable'
  BY <1>1, <1>2, <1>3, <1>5 DEF AllMapped, EntriesAreUsable
<1> QED
  BY <1>7, <1>8, <1>9, <1>10, <1>11, <1>12, <1>13 DEF IInv

\* A program that ends leaves nothing mapped.
LEMMA ExitKeeps ==
  ASSUME IInv, NEW p \in Proc, Exit(p)
  PROVE  IInv'
<1>1. /\ TypeOK /\ Alone /\ CopyIsNew /\ ChildrenWait
      /\ ChildIsMapped /\ PermsAreSafe /\ AllMapped /\ EntriesAreUsable
  BY DEF IInv
<1>2. /\ status[p] = "live"
      /\ status' = [status EXCEPT ![p] = "dead"]
      /\ pte' = [pte EXCEPT ![p] = [g \in Page |-> None]]
      /\ fault' = [fault EXCEPT ![p] = NoFault]
      /\ at' = [at EXCEPT ![p] = Idle]
      /\ UNCHANGED <<data, upcall>>
  BY DEF Exit, Gone
<1>3. Idle \in Step /\ Idle.pc = "run"
  BY ForkAssumption DEF Idle, Step, Page, Unset
<1>4. NoFault \in Copying /\ NoFault.copy = None
  BY DEF NoFault, Copying, Unset
<1>5. /\ status'[p] = "dead" /\ \A g \in Page : pte'[p][g] = None
      /\ fault'[p] = NoFault /\ at'[p] = Idle
      /\ \A q \in Proc \ {p} : /\ status'[q] = status[q] /\ pte'[q] = pte[q]
                               /\ fault'[q] = fault[q] /\ at'[q] = at[q]
  BY <1>1, <1>2 DEF TypeOK
<1>6. \A q \in Proc : Forking(q)' => q # p /\ Forking(q) /\ at'[q] = at[q] /\ at[q].child # p
  BY <1>1, <1>2, <1>3, <1>5 DEF Forking, ChildrenWait
<1>7. TypeOK'
  <2>1. pte' \in [Proc -> [Page -> Entry \cup Unset]]
    BY <1>1, <1>2 DEF TypeOK, Unset
  <2> QED
    BY <1>1, <1>2, <1>3, <1>4, <2>1 DEF TypeOK
<1>8. Alone'
  <2>1. \A q \in Proc, g \in Page : pte'[q][g] # None => q # p /\ pte'[q][g] = pte[q][g]
    BY <1>5
  <2> QED
    BY <1>1, <1>5, <2>1 DEF Alone
<1>9. CopyIsNew'
  BY <1>1, <1>4, <1>5 DEF CopyIsNew
<1>10. ChildrenWait'
  BY <1>1, <1>2, <1>5, <1>6 DEF ChildrenWait
<1>11. ChildIsMapped'
  <2>1. \A q \in Proc, g \in Page : Forking(q)' /\ Done(q, g)' => Done(q, g)
    BY <1>6 DEF Done
  <2>2. \A q \in Proc : Forking(q) => at[q].child \in Proc
    BY <1>1 DEF ChildrenWait
  <2> QED
    BY <1>1, <1>2, <1>5, <1>6, <2>1, <2>2 DEF ChildIsMapped
<1>12. PermsAreSafe'
  BY <1>1, <1>3, <1>5 DEF PermsAreSafe
<1>13. AllMapped' /\ EntriesAreUsable'
  BY <1>1, <1>2, <1>5 DEF AllMapped, EntriesAreUsable
<1> QED
  BY <1>7, <1>8, <1>9, <1>10, <1>11, <1>12, <1>13 DEF IInv

-----------------------------------------------------------------------------
(* The theorems *)

\* fork(), duppage() and pgfault() keep the invariant, whatever the programs
\* write in between and however many of them fork at once.
LEMMA StepKeeps == IInv /\ [Next]_vars => IInv'
<1> SUFFICES ASSUME IInv, [Next]_vars PROVE IInv'
  OBVIOUS
<1>1. CASE Next
  <2>1. PICK p \in Proc :
          \/ \E g \in Page, v \in Val : Write(p, g, v)
          \/ \E g \in Page, f \in Frame : Pgfault(p, g, f)
          \/ PgfaultEnd(p)
          \/ \E c \in Proc : Fork(p, c)
          \/ DuppagePerms(p) \/ DuppageChild(p) \/ DuppageOwn(p)
          \/ ForkUxstack(p) \/ ForkUpcall(p) \/ ForkStatus(p)
          \/ Exit(p)
    BY <1>1 DEF Next
  <2>2. ASSUME NEW g \in Page, NEW v \in Val, Write(p, g, v) PROVE IInv'
    BY <2>2, WriteKeeps
  <2>3. ASSUME NEW g \in Page, NEW f \in Frame, Pgfault(p, g, f) PROVE IInv'
    BY <2>3, PgfaultKeeps
  <2>4. CASE PgfaultEnd(p)
    BY <2>4, PgfaultEndKeeps
  <2>5. ASSUME NEW c \in Proc, Fork(p, c) PROVE IInv'
    BY <2>5, ForkKeeps
  <2>6. CASE DuppagePerms(p) \/ DuppageChild(p) \/ DuppageOwn(p)
    BY <2>6, DuppagePermsKeeps, DuppageChildKeeps, DuppageOwnKeeps
  <2>7. CASE ForkUxstack(p) \/ ForkUpcall(p) \/ ForkStatus(p)
    BY <2>7, ForkUxstackKeeps, ForkUpcallKeeps, ForkStatusKeeps
  <2>8. CASE Exit(p)
    BY <2>8, ExitKeeps
  <2> QED
    BY <2>1, <2>2, <2>3, <2>4, <2>5, <2>6, <2>7, <2>8
<1>2. CASE UNCHANGED vars
  <2>1. TypeOK' /\ Alone' /\ CopyIsNew' /\ EntriesAreUsable'
    BY <1>2 DEF IInv, vars, TypeOK, Alone, CopyIsNew, EntriesAreUsable
  <2>2. ChildrenWait' /\ ChildIsMapped' /\ PermsAreSafe' /\ AllMapped'
    BY <1>2 DEF IInv, vars, ChildrenWait, ChildIsMapped, PermsAreSafe, AllMapped, Forking, Done
  <2> QED
    BY <2>1, <2>2 DEF IInv
<1> QED
  BY <1>1, <1>2

\* Copy-on-write as lib/fork.c does it, for any number of programs, pages and
\* physical pages: the inductive invariant holds.
THEOREM Invariance == Spec => []IInv
<1>1. Init => IInv
  BY InitIInv
<1>2. IInv /\ [Next]_vars => IInv'
  BY StepKeeps
<1> QED
  BY <1>1, <1>2, PTL DEF Spec

\* A private page that is writable without a fault is mapped nowhere else
\* (lib/fork.c:71-80), but for the page duppage is at, while the child waits.
THEOREM WritersAreAlone == Spec => []WriterIsAlone
<1>1. IInv => WriterIsAlone
  BY DEF IInv, Alone, WriterIsAlone
<1> QED
  BY <1>1, Invariance, PTL

\* No program is killed by a write to its own memory: the page is writable, or
\* it is copy-on-write and the upcall is set (lib/fork.c:28, 151, 178).
THEOREM WritesNeverKill == Spec => []NoFaultKills
<1>1. IInv => NoFaultKills
  BY DEF IInv, AllMapped, EntriesAreUsable, NoFaultKills, MayWrite, Executes
<1> QED
  BY <1>1, Invariance, PTL

-----------------------------------------------------------------------------
(* Fork implements AddressSpaces. What is needed beside IInv *)

\* The pages with PTE_SHARE are the same physical pages in all programs.
SharedAlike ==
  \A p, q \in Proc, g, h \in Page :
    pte[p][g] # None /\ pte[q][h] # None =>
      /\ pte[p][g].share <=> g \in Shared
      /\ pte[p][g].share => ~ pte[p][g].cow
      /\ g \in Shared => (pte[p][g].frame = pte[q][h].frame <=> g = h)

PermsShare ==
  \A p \in Proc : at[p].pc \in {"child", "own"} =>
    /\ at[p].perms.share <=> at[p].pn \in Shared
    /\ at[p].perms.share => ~ at[p].perms.cow

\* What pgfault() maps is what it copied: the page cannot change meanwhile. In
\* the middle of fork() the page is the stack.
CopyIsCurrent ==
  \A p \in Proc : fault[p] # NoFault =>
    /\ fault[p].page \notin Shared
    /\ Forking(p) => fault[p].page = Stack
    /\ data[fault[p].copy] = data[pte[p][fault[p].page].frame]

\* What fork() has mapped in the child is what the parent has there, but for
\* the stack.
ChildIsCopy ==
  \A p \in Proc : Forking(p) =>
    \A g \in Page \ {Stack} : Done(p, g) => pte[at[p].child][g].frame = pte[p][g].frame

RInv == SharedAlike /\ PermsShare /\ CopyIsCurrent /\ ChildIsCopy

\* A step that changes what no running program sees changes nothing in the
\* abstract specification.
LEMMA SameView ==
  ASSUME \A q \in Proc : status'[q] = "live" <=> status[q] = "live",
         \A q \in Proc, g \in Page :
           status[q] = "live" => data'[pte'[q][g].frame] = data[pte[q][g].frame]
  PROVE  View' = View
BY DEF View

\* What a running program sees of a page is a value.
LEMMA ViewType ==
  ASSUME IInv, NEW p \in Proc, status[p] = "live"
  PROVE  /\ View[p] = [g \in Page |-> data[pte[p][g].frame]]
         /\ View[p] \in [Page -> Val] /\ View[p] # None
<1>1. \A g \in Page : pte[p][g].frame \in Frame
  BY DEF IInv, TypeOK, AllMapped, Unset, Entry, Pte
<1>2. \A g \in Page : data[pte[p][g].frame] \in Val
  BY <1>1 DEF IInv, TypeOK
<1>3. View[p] = [g \in Page |-> data[pte[p][g].frame]]
  BY DEF View
<1> QED
  BY <1>2, <1>3, ForkAssumption

-----------------------------------------------------------------------------
(* The start *)

\* One program runs, and its pages are all different.
LEMMA InitRefines == Init => RInv /\ Spaces!Init
<1> SUFFICES ASSUME Init PROVE RInv /\ Spaces!Init
  OBVIOUS
<1>1. IInv
  BY InitIInv
<1>2. /\ status = [p \in Proc |-> IF p = First THEN "live" ELSE "none"]
      /\ at = [p \in Proc |-> Idle] /\ fault = [p \in Proc |-> NoFault]
      /\ First \in Proc
  BY ForkAssumption DEF Init
<1>3. PICK f \in [Page -> Frame] :
        /\ \A g, h \in Page : f[g] = f[h] => g = h
        /\ pte = [p \in Proc |-> [g \in Page |->
                    IF p = First THEN [frame |-> f[g], w |-> TRUE, cow |-> FALSE,
                                       share |-> g \in Shared]
                    ELSE None]]
  BY DEF Init
<1>4. SharedAlike
  BY <1>3 DEF SharedAlike
<1>5. PermsShare /\ CopyIsCurrent /\ ChildIsCopy
  BY <1>2 DEF PermsShare, CopyIsCurrent, ChildIsCopy, Forking, Idle
<1>6. Spaces!Init
  <2>1. \A p \in Proc \ {First} : View[p] = None
    BY <1>2 DEF View
  <2>2. View[First] \in [Page -> Val] /\ View[First] # None
    BY <1>1, <1>2, ViewType
  <2>3. View \in [Proc -> [Page -> Val] \cup {None}]
    <3>1. View = [p \in Proc |-> View[p]]
      BY DEF View
    <3> QED
      BY <2>1, <2>2, <3>1
  <2> QED
    BY <2>1, <2>2, <2>3 DEF Spaces!Init
<1> QED
  BY <1>4, <1>5, <1>6 DEF RInv

-----------------------------------------------------------------------------
(* Writing, and pgfault() *)

\* A write to a private page is seen by its program only, one to a shared page
\* by all.
LEMMA WriteRefines ==
  ASSUME IInv, RInv, NEW p \in Proc, NEW g \in Page, NEW v \in Val, Write(p, g, v)
  PROVE  RInv' /\ Spaces!Next
<1> DEFINE f == pte[p][g].frame
<1>1. /\ TypeOK /\ Alone /\ CopyIsNew /\ AllMapped
      /\ SharedAlike /\ PermsShare /\ CopyIsCurrent /\ ChildIsCopy
  BY DEF IInv, RInv
<1>2. /\ status[p] = "live" /\ fault[p] = NoFault /\ pte[p][g].w
      /\ data' = [data EXCEPT ![f] = v]
      /\ UNCHANGED <<status, pte, upcall, at, fault>>
  BY DEF Write, MayWrite, Executes
<1>3. pte[p][g] # None /\ f \in Frame
  BY <1>1, <1>2 DEF AllMapped, TypeOK, Unset, Entry, Pte
<1>4. \A e \in Frame : data'[e] = IF e = f THEN v ELSE data[e]
  BY <1>1, <1>2, <1>3 DEF TypeOK
<1>5. \A q \in Proc, h \in Page :
        status[q] = "live" => pte[q][h] # None /\ pte[q][h].frame \in Frame
  BY <1>1 DEF AllMapped, TypeOK, Unset, Entry, Pte
<1> HIDE DEF f
<1>6. \A q \in Proc, h \in Page :
        status[q] = "live" =>
          (pte[q][h].frame = f <=> h = g /\ (q = p \/ g \in Shared))
  <2> SUFFICES ASSUME NEW q \in Proc, NEW h \in Page, status[q] = "live"
               PROVE  pte[q][h].frame = f <=> h = g /\ (q = p \/ g \in Shared)
    OBVIOUS
  <2>1. CASE g \in Shared
    BY <1>1, <1>3, <1>5, <2>1 DEF SharedAlike, f
  <2>2. CASE g \notin Shared
    <3>1. ~ pte[p][g].share
      BY <1>1, <1>3, <2>2 DEF SharedAlike
    <3>2. <<p, g>> # <<q, h>> => pte[q][h].frame # f
      <4>1. ASSUME <<p, g>> # <<q, h>>, pte[q][h].frame = f PROVE status[q] = "embryo"
        BY <1>1, <1>2, <1>3, <1>5, <3>1, <4>1 DEF Alone, f
      <4> QED
        BY <4>1
    <3> QED
      BY <2>2, <3>2 DEF f
  <2> QED
    BY <2>1, <2>2
<1>7. CopyIsCurrent'
  <2> SUFFICES ASSUME NEW q \in Proc, fault[q] # NoFault
               PROVE  data'[fault[q].copy] = data'[pte[q][fault[q].page].frame]
    BY <1>1, <1>2 DEF CopyIsCurrent, Forking
  <2>1. /\ q # p /\ status[q] = "live"
        /\ fault[q].page \in Page /\ fault[q].page \notin Shared
        /\ fault[q].copy \in Frame /\ fault[q].copy # f
    BY <1>1, <1>2, <1>3 DEF CopyIsNew, CopyIsCurrent, TypeOK, Copying, Unset, f
  <2>2. pte[q][fault[q].page].frame # f /\ pte[q][fault[q].page].frame \in Frame
    BY <1>5, <1>6, <2>1
  <2> QED
    BY <1>1, <1>4, <2>1, <2>2 DEF CopyIsCurrent
<1>8. SharedAlike' /\ PermsShare' /\ ChildIsCopy'
  BY <1>1, <1>2 DEF SharedAlike, PermsShare, ChildIsCopy, Forking, Done
<1>9. Spaces!Write(p, g, v)
  <2>1. \A q \in Proc : status[q] # "live" => View[q] = None /\ View'[q] = None
    BY <1>2 DEF View
  <2>2. \A q \in Proc : status[q] = "live" =>
          View'[q] = IF q = p \/ g \in Shared THEN [View[q] EXCEPT ![g] = v] ELSE View[q]
    <3> SUFFICES ASSUME NEW q \in Proc, status[q] = "live"
                 PROVE  View'[q] = IF q = p \/ g \in Shared
                                   THEN [View[q] EXCEPT ![g] = v] ELSE View[q]
      OBVIOUS
    <3>1. View[q] = [h \in Page |-> data[pte[q][h].frame]]
      BY DEF View
    <3>2. View'[q] = [h \in Page |-> data'[pte[q][h].frame]]
      BY <1>2 DEF View
    <3>3. \A h \in Page : data'[pte[q][h].frame] =
            IF h = g /\ (q = p \/ g \in Shared) THEN v ELSE data[pte[q][h].frame]
      BY <1>4, <1>5, <1>6
    <3> QED
      BY <3>1, <3>2, <3>3
  <2>3. \A q \in Proc : View[q] # None <=> status[q] = "live"
    BY <2>1, ViewType
  <2>4. View' = [q \in Proc |-> View'[q]]
    BY DEF View
  <2> QED
    BY <1>2, <2>1, <2>2, <2>3, <2>4 DEF Spaces!Write, Spaces!Runs
<1> QED
  BY <1>7, <1>8, <1>9 DEF RInv, Spaces!Next

\* Copying a page changes what nobody sees.
LEMMA PgfaultRefines ==
  ASSUME IInv, RInv, NEW p \in Proc, NEW g \in Page, NEW f \in Frame, Pgfault(p, g, f)
  PROVE  RInv' /\ View' = View
<1>1. /\ TypeOK /\ CopyIsNew /\ AllMapped
      /\ SharedAlike /\ PermsShare /\ CopyIsCurrent /\ ChildIsCopy
  BY DEF IInv, RInv
<1>2. /\ status[p] = "live" /\ (at[p].pc = "run" \/ g = Stack)
      /\ pte[p][g].cow /\ f \in Free
      /\ fault' = [fault EXCEPT ![p] = [page |-> g, copy |-> f]]
      /\ data' = [data EXCEPT ![f] = data[pte[p][g].frame]]
      /\ UNCHANGED <<status, pte, upcall, at>>
  BY DEF Pgfault, MayWrite, Executes
<1>3. status[p] = "live" /\ pte[p][g] # None
  BY <1>1 DEF Pgfault, MayWrite, Executes, AllMapped
<1>4. g \notin Shared
  BY <1>1, <1>2, <1>3 DEF SharedAlike
<1>5. /\ \A q \in Proc : fault[q].copy # f
      /\ \A q \in Proc, h \in Page : pte[q][h] # None => pte[q][h].frame # f
  BY <1>2 DEF Free, Mapped
<1>6. \A q \in Proc, h \in Page : status[q] = "live" => pte[q][h] # None /\ pte[q][h].frame \in Frame
  BY <1>1 DEF AllMapped, TypeOK, Unset, Entry, Pte
<1>7. data'[f] = data[pte[p][g].frame] /\ \A e \in Frame \ {f} : data'[e] = data[e]
  BY <1>1, <1>2 DEF TypeOK
<1>8. View' = View
  BY <1>2, <1>5, <1>6, <1>7, SameView
<1>9. CopyIsCurrent'
  <2>1. fault'[p] = [page |-> g, copy |-> f] /\ \A q \in Proc \ {p} : fault'[q] = fault[q]
    BY <1>1, <1>2 DEF TypeOK
  <2>2. data'[f] = data'[pte[p][g].frame]
    BY <1>3, <1>5, <1>6, <1>7
  <2>3. \A q \in Proc : fault[q] # NoFault =>
          data'[fault[q].copy] = data'[pte[q][fault[q].page].frame]
    <3> SUFFICES ASSUME NEW q \in Proc, fault[q] # NoFault
                 PROVE  data'[fault[q].copy] = data'[pte[q][fault[q].page].frame]
      OBVIOUS
    <3>1. status[q] = "live" /\ fault[q].page \in Page /\ fault[q].copy \in Frame
      BY <1>1 DEF CopyIsNew, TypeOK, Copying, Unset
    <3> QED
      BY <1>1, <1>5, <1>6, <1>7, <3>1 DEF CopyIsCurrent
  <2> QED
    <3> SUFFICES ASSUME NEW q \in Proc, fault'[q] # NoFault
                 PROVE  /\ fault'[q].page \notin Shared
                        /\ at[q].pc # "run" => fault'[q].page = Stack
                        /\ data'[fault'[q].copy] = data'[pte[q][fault'[q].page].frame]
      BY <1>2 DEF CopyIsCurrent, Forking
    <3>1. CASE q = p
      BY <1>2, <1>4, <2>1, <2>2, <3>1
    <3>2. CASE q # p
      BY <1>1, <2>1, <2>3, <3>2 DEF CopyIsCurrent, Forking
    <3> QED
      BY <3>1, <3>2
<1>10. SharedAlike' /\ PermsShare' /\ ChildIsCopy'
  BY <1>1, <1>2 DEF SharedAlike, PermsShare, ChildIsCopy, Forking, Done
<1> QED
  BY <1>8, <1>9, <1>10 DEF RInv

\* The copy takes the place of the page, and holds the same.
LEMMA PgfaultEndRefines ==
  ASSUME IInv, RInv, NEW p \in Proc, PgfaultEnd(p)
  PROVE  RInv' /\ View' = View
<1> DEFINE x == fault[p].page
           f == fault[p].copy
           new == [frame |-> f, w |-> TRUE, cow |-> FALSE, share |-> FALSE]
<1>1. /\ TypeOK /\ CopyIsNew /\ ChildrenWait /\ AllMapped
      /\ SharedAlike /\ PermsShare /\ CopyIsCurrent /\ ChildIsCopy
  BY DEF IInv, RInv
<1>2. /\ fault[p] # NoFault
      /\ pte' = [pte EXCEPT ![p][x] = new]
      /\ fault' = [fault EXCEPT ![p] = NoFault]
      /\ UNCHANGED <<status, data, upcall, at>>
  BY DEF PgfaultEnd
<1>3. x \in Page /\ f \in Frame /\ f # None /\ status[p] = "live"
  BY <1>1, <1>2 DEF TypeOK, CopyIsNew, Copying, Unset
<1>4. new.frame = f /\ ~ new.share
  OBVIOUS
<1>5. x \notin Shared /\ (Forking(p) => x = Stack) /\ data[f] = data[pte[p][x].frame]
  BY <1>1, <1>2 DEF CopyIsCurrent
<1> HIDE DEF new
<1>6. /\ pte'[p][x] = new
      /\ \A q \in Proc, h \in Page : <<q, h>> # <<p, x>> => pte'[q][h] = pte[q][h]
  BY <1>1, <1>2, <1>3 DEF TypeOK
<1>7. fault'[p] = NoFault /\ \A q \in Proc \ {p} : fault'[q] = fault[q]
  BY <1>1, <1>2 DEF TypeOK
<1>8. \A q \in Proc, h \in Page :
        <<q, h>> # <<p, x>> /\ pte[q][h] # None => pte[q][h].frame # f
  BY <1>1, <1>3 DEF CopyIsNew
<1>9. View' = View
  <2>1. \A q \in Proc, h \in Page :
          status[q] = "live" => data'[pte'[q][h].frame] = data[pte[q][h].frame]
    BY <1>2, <1>4, <1>5, <1>6
  <2> QED
    BY <1>2, <2>1, SameView
<1> HIDE DEF x, f
<1>10. SharedAlike'
  <2> SUFFICES ASSUME NEW q \in Proc, NEW r \in Proc, NEW h \in Page, NEW k \in Page,
                      pte'[q][h] # None, pte'[r][k] # None
               PROVE  /\ pte'[q][h].share <=> h \in Shared
                      /\ pte'[q][h].share => ~ pte'[q][h].cow
                      /\ h \in Shared => (pte'[q][h].frame = pte'[r][k].frame <=> h = k)
    BY DEF SharedAlike
  <2>1. CASE <<q, h>> = <<p, x>>
    BY <1>4, <1>5, <1>6, <2>1
  <2>2. CASE <<q, h>> # <<p, x>> /\ <<r, k>> = <<p, x>>
    BY <1>1, <1>4, <1>5, <1>6, <1>8, <2>2 DEF SharedAlike
  <2>3. CASE <<q, h>> # <<p, x>> /\ <<r, k>> # <<p, x>>
    BY <1>1, <1>6, <2>3 DEF SharedAlike
  <2> QED
    BY <2>1, <2>2, <2>3
<1>11. PermsShare'
  BY <1>1, <1>2 DEF PermsShare
<1>12. CopyIsCurrent'
  BY <1>1, <1>2, <1>6, <1>7 DEF CopyIsCurrent, CopyIsNew, TypeOK, Copying, Unset, Forking
<1>13. ChildIsCopy'
  BY <1>1, <1>2, <1>3, <1>5, <1>6 DEF ChildIsCopy, ChildrenWait, Forking, Done
<1> QED
  BY <1>9, <1>10, <1>11, <1>12, <1>13 DEF RInv

-----------------------------------------------------------------------------
(* fork() *)

\* sys_exofork makes a program that does not run.
LEMMA ForkRefines ==
  ASSUME IInv, RInv, NEW p \in Proc, NEW c \in Proc, Fork(p, c)
  PROVE  RInv' /\ View' = View
<1> DEFINE next == [pc |-> "perms", pn |-> 0, child |-> c, perms |-> None]
<1>1. /\ TypeOK /\ SharedAlike /\ PermsShare /\ CopyIsCurrent /\ ChildIsCopy
  BY DEF IInv, RInv
<1>2. /\ at[p].pc = "run" /\ status[c] = "none" /\ fault[p] = NoFault
      /\ status' = [status EXCEPT ![c] = "embryo"]
      /\ at' = [at EXCEPT ![p] = next]
      /\ UNCHANGED <<pte, data, fault>>
  BY DEF Fork, Executes
<1>3. next.pc = "perms" /\ next.pn = 0
  OBVIOUS
<1> HIDE DEF next
<1>4. /\ at'[p] = next /\ \A q \in Proc \ {p} : at'[q] = at[q]
      /\ status'[c] = "embryo" /\ \A q \in Proc \ {c} : status'[q] = status[q]
  BY <1>1, <1>2 DEF TypeOK
<1>5. View' = View
  <2>1. \A q \in Proc : status'[q] = "live" <=> status[q] = "live"
    BY <1>2, <1>4
  <2> QED
    BY <1>2, <2>1, SameView
<1>6. SharedAlike'
  BY <1>1, <1>2 DEF SharedAlike
<1>7. PermsShare'
  BY <1>1, <1>3, <1>4 DEF PermsShare
<1>8. CopyIsCurrent'
  BY <1>1, <1>2, <1>4 DEF CopyIsCurrent, Forking
<1>9. ChildIsCopy'
  <2>1. \A g \in Page : ~ Done(p, g)'
    BY <1>3, <1>4, ForkAssumption DEF Done, Page
  <2> QED
    BY <1>1, <1>2, <1>4, <2>1 DEF ChildIsCopy, Forking, Done
<1> QED
  BY <1>5, <1>6, <1>7, <1>8, <1>9 DEF RInv

\* The perms of a shared page are those of a shared page.
LEMMA DuppagePermsRefines ==
  ASSUME IInv, RInv, NEW p \in Proc, DuppagePerms(p)
  PROVE  RInv' /\ View' = View
<1> DEFINE r == Perms(pte[p][at[p].pn])
<1>1. /\ TypeOK /\ AllMapped
      /\ SharedAlike /\ PermsShare /\ CopyIsCurrent /\ ChildIsCopy
  BY DEF IInv, RInv
<1>2. /\ status[p] = "live" /\ at[p].pc = "perms" /\ fault[p] = NoFault
      /\ at' = [at EXCEPT ![p] = [at[p] EXCEPT !.pc = "child", !.perms = r]]
      /\ UNCHANGED <<status, pte, data, upcall, fault>>
  BY DEF DuppagePerms, At, Executes
<1>3. at[p] \in Step /\ at[p].pn \in Page
  BY <1>1 DEF TypeOK, Step
<1>4. /\ r.share <=> at[p].pn \in Shared
      /\ r.share => ~ r.cow
  <2> DEFINE e == pte[p][at[p].pn]
  <2>1. e # None /\ e \in Entry
    BY <1>1, <1>2, <1>3 DEF TypeOK, AllMapped, Unset
  <2>2. (e.share <=> at[p].pn \in Shared) /\ (e.share => ~ e.cow)
    BY <1>1, <1>2, <1>3, <2>1 DEF SharedAlike
  <2> QED
    BY <2>1, <2>2 DEF Perms, Entry, Pte
<1> HIDE DEF r
<1>5. /\ at'[p].pc = "child" /\ at'[p].perms = r
      /\ at'[p].pn = at[p].pn /\ at'[p].child = at[p].child
      /\ \A q \in Proc \ {p} : at'[q] = at[q]
  BY <1>1, <1>2, <1>3 DEF TypeOK, Step
<1>6. View' = View
  BY <1>2, SameView
<1>7. SharedAlike' /\ CopyIsCurrent'
  BY <1>1, <1>2, <1>5 DEF SharedAlike, CopyIsCurrent, Forking
<1>8. PermsShare'
  BY <1>1, <1>4, <1>5 DEF PermsShare
<1>9. ChildIsCopy'
  <2>1. \A q \in Proc, g \in Page : Done(q, g)' => Done(q, g)
    BY <1>2, <1>5 DEF Done
  <2>2. \A q \in Proc : (Forking(q)' <=> Forking(q)) /\ at'[q].child = at[q].child
    BY <1>2, <1>5 DEF Forking
  <2> QED
    BY <1>1, <1>2, <2>1, <2>2 DEF ChildIsCopy
<1> QED
  BY <1>6, <1>7, <1>8, <1>9 DEF RInv

\* The child gets the page its parent has, and does not run yet.
LEMMA DuppageChildRefines ==
  ASSUME IInv, RInv, NEW p \in Proc, DuppageChild(p)
  PROVE  RInv' /\ View' = View
<1> DEFINE g == at[p].pn
           c == at[p].child
           new == Map(pte[p][g].frame, at[p].perms)
<1>1. /\ TypeOK /\ CopyIsNew /\ ChildrenWait /\ AllMapped
      /\ SharedAlike /\ PermsShare /\ CopyIsCurrent /\ ChildIsCopy
  BY DEF IInv, RInv
<1>2. /\ status[p] = "live" /\ at[p].pc = "child" /\ fault[p] = NoFault
      /\ pte' = [pte EXCEPT ![c][g] = new]
      /\ at' = [at EXCEPT ![p] = [at[p] EXCEPT !.pc = "own"]]
      /\ UNCHANGED <<status, data, upcall, fault>>
  BY DEF DuppageChild, At, Executes, Goto
<1>3. at[p] \in Step /\ g \in Page
  BY <1>1 DEF TypeOK, Step
<1>4. Forking(p) /\ c \in Proc /\ status[c] = "embryo" /\ c # p /\ pte[p][g] # None
  BY <1>1, <1>2, <1>3 DEF ChildrenWait, Forking, AllMapped
<1>5. /\ new.frame = pte[p][g].frame
      /\ new.share <=> g \in Shared
      /\ new.share => ~ new.cow
  BY <1>1, <1>2 DEF Map, PermsShare
<1> HIDE DEF new
<1>6. /\ pte'[c][g] = new
      /\ \A q \in Proc, h \in Page : <<q, h>> # <<c, g>> => pte'[q][h] = pte[q][h]
  BY <1>1, <1>2, <1>3, <1>4 DEF TypeOK
<1>7. /\ at'[p].pc = "own" /\ at'[p].pn = g /\ at'[p].child = c
      /\ at'[p].perms = at[p].perms
      /\ \A q \in Proc \ {p} : at'[q] = at[q]
  BY <1>1, <1>2, <1>3 DEF TypeOK, Step
<1>8. View' = View
  <2>1. \A q \in Proc, h \in Page : status[q] = "live" => pte'[q][h] = pte[q][h]
    BY <1>4, <1>6
  <2> QED
    BY <1>2, <2>1, SameView
<1> HIDE DEF g, c
<1>9. SharedAlike'
  <2>1. \A h \in Page, q \in Proc : pte[q][h] # None =>
          (g \in Shared \/ h \in Shared => (pte[q][h].frame = new.frame <=> g = h))
    BY <1>1, <1>3, <1>4, <1>5 DEF SharedAlike
  <2> SUFFICES ASSUME NEW q \in Proc, NEW r \in Proc, NEW h \in Page, NEW k \in Page,
                      pte'[q][h] # None, pte'[r][k] # None
               PROVE  /\ pte'[q][h].share <=> h \in Shared
                      /\ pte'[q][h].share => ~ pte'[q][h].cow
                      /\ h \in Shared => (pte'[q][h].frame = pte'[r][k].frame <=> h = k)
    BY DEF SharedAlike
  <2>2. CASE <<q, h>> = <<c, g>>
    BY <1>5, <1>6, <2>1, <2>2
  <2>3. CASE <<q, h>> # <<c, g>> /\ <<r, k>> = <<c, g>>
    BY <1>1, <1>6, <2>1, <2>3 DEF SharedAlike
  <2>4. CASE <<q, h>> # <<c, g>> /\ <<r, k>> # <<c, g>>
    BY <1>1, <1>6, <2>4 DEF SharedAlike
  <2> QED
    BY <2>2, <2>3, <2>4
<1>10. PermsShare'
  BY <1>1, <1>2, <1>7 DEF PermsShare, g
<1>11. CopyIsCurrent'
  <2>1. \A q \in Proc : fault[q] # NoFault => status[q] = "live" /\ fault[q].page \in Page
    BY <1>1 DEF CopyIsNew, TypeOK, Copying, Unset
  <2>2. \A q \in Proc : fault[q] # NoFault =>
          q # p /\ pte'[q][fault[q].page] = pte[q][fault[q].page]
    BY <1>2, <1>4, <1>6, <2>1
  <2> QED
    BY <1>1, <1>2, <1>7, <2>2 DEF CopyIsCurrent, Forking
<1>12. ChildIsCopy'
  <2>1. \A h \in Page : Done(p, h)' => h = g \/ Done(p, h)
    BY <1>2, <1>7 DEF Done, g
  <2>2. \A h \in Page \ {Stack} : Done(p, h)' => pte'[c][h].frame = pte'[p][h].frame
    BY <1>1, <1>4, <1>5, <1>6, <2>1 DEF ChildIsCopy, c
  <2>3. \A q \in Proc \ {p} : Forking(q) => at[q].child # c /\ at[q].child \in Proc /\ q # c
    BY <1>1, <1>4 DEF ChildrenWait, c
  <2>4. \A q \in Proc \ {p}, h \in Page \ {Stack} :
          Forking(q) /\ Done(q, h)' => pte'[at[q].child][h].frame = pte'[q][h].frame
    BY <1>1, <1>6, <1>7, <2>3 DEF ChildIsCopy, Done
  <2> QED
    BY <1>7, <2>2, <2>4 DEF ChildIsCopy, Forking
<1> QED
  BY <1>8, <1>9, <1>10, <1>11, <1>12 DEF RInv

\* The parent keeps its page.
LEMMA DuppageOwnRefines ==
  ASSUME IInv, RInv, NEW p \in Proc, DuppageOwn(p)
  PROVE  RInv' /\ View' = View
<1> DEFINE g == at[p].pn
           new == Own(p, g)
           more == g + 1 < NPages
           next == [at[p] EXCEPT !.pc = IF more THEN "perms" ELSE "uxstack",
                                 !.pn = IF more THEN g + 1 ELSE 0,
                                 !.perms = None]
<1>1. /\ TypeOK /\ ChildrenWait /\ AllMapped
      /\ SharedAlike /\ PermsShare /\ CopyIsCurrent /\ ChildIsCopy
  BY DEF IInv, RInv
<1>2. /\ status[p] = "live" /\ at[p].pc = "own" /\ fault[p] = NoFault
      /\ pte' = [pte EXCEPT ![p][g] = new]
      /\ at' = [at EXCEPT ![p] = next]
      /\ UNCHANGED <<status, data, upcall, fault>>
  BY DEF DuppageOwn, At, Executes
<1>3. at[p] \in Step /\ g \in Page /\ pte[p][g] # None
  BY <1>1, <1>2 DEF TypeOK, Step, AllMapped
<1>4. /\ new.frame = pte[p][g].frame
      /\ new.share <=> g \in Shared
      /\ new.share => ~ new.cow
  BY <1>1, <1>2 DEF Own, Map, PermsShare
<1> HIDE DEF new
<1>5. /\ pte'[p][g] = new
      /\ \A q \in Proc, h \in Page : <<q, h>> # <<p, g>> => pte'[q][h] = pte[q][h]
  BY <1>1, <1>2, <1>3 DEF TypeOK
<1>6. /\ at'[p].pc = IF more THEN "perms" ELSE "uxstack"
      /\ at'[p].pn = IF more THEN g + 1 ELSE 0
      /\ at'[p].child = at[p].child
      /\ \A q \in Proc \ {p} : at'[q] = at[q]
  BY <1>1, <1>2, <1>3 DEF TypeOK, Step
<1>7. \A q \in Proc, h \in Page :
        /\ pte'[q][h] # None => pte[q][h] # None
        /\ pte'[q][h].frame = pte[q][h].frame
  BY <1>3, <1>4, <1>5
<1>8. View' = View
  BY <1>2, <1>7, SameView
<1>9. SharedAlike'
  <2>1. \A q \in Proc, h \in Page : pte'[q][h] # None =>
          /\ pte'[q][h].share <=> h \in Shared
          /\ pte'[q][h].share => ~ pte'[q][h].cow
    BY <1>1, <1>4, <1>5 DEF SharedAlike
  <2> QED
    BY <1>1, <1>7, <2>1 DEF SharedAlike
<1>10. PermsShare'
  <2>1. at'[p].pc \notin {"child", "own"}
    BY <1>6
  <2> QED
    BY <1>1, <1>6, <2>1 DEF PermsShare
<1>11. CopyIsCurrent'
  <2>1. \A q \in Proc : fault[q] # NoFault =>
          q # p /\ pte'[q][fault[q].page] = pte[q][fault[q].page]
    <3>1. \A q \in Proc \ {p} : pte'[q] = pte[q]
      BY <1>1, <1>2 DEF TypeOK
    <3> QED
      BY <1>2, <3>1
  <2> QED
    BY <1>1, <1>2, <1>6, <2>1 DEF CopyIsCurrent, Forking
<1>12. ChildIsCopy'
  <2>1. \A q \in Proc : (Forking(q)' <=> Forking(q)) /\ at'[q].child = at[q].child
    BY <1>2, <1>6 DEF Forking
  <2>2. \A h \in Page : Done(p, h)' => Done(p, h)
    <3> SUFFICES ASSUME NEW h \in Page, Done(p, h)'
                 PROVE  Done(p, h)
      OBVIOUS
    <3>1. CASE more
      BY <1>2, <1>3, <1>6, <3>1 DEF Done, Page
    <3>2. CASE ~ more
      BY <1>2, <1>3, <3>2, ForkAssumption DEF Done, Page
    <3> QED
      BY <3>1, <3>2
  <2>3. \A q \in Proc \ {p}, h \in Page : Done(q, h)' => Done(q, h)
    BY <1>6 DEF Done
  <2>4. \A q \in Proc : Forking(q) => at[q].child \in Proc
    BY <1>1 DEF ChildrenWait
  <2> QED
    BY <1>1, <1>7, <2>1, <2>2, <2>3, <2>4 DEF ChildIsCopy
<1> QED
  BY <1>8, <1>9, <1>10, <1>11, <1>12 DEF RInv

\* The exception stack and the upcall of the child.
LEMMA ForkUxstackUpcallRefines ==
  ASSUME IInv, RInv, NEW p \in Proc, ForkUxstack(p) \/ ForkUpcall(p)
  PROVE  RInv' /\ View' = View
<1>1. /\ TypeOK /\ SharedAlike /\ PermsShare /\ CopyIsCurrent /\ ChildIsCopy
  BY DEF IInv, RInv
<1>2. PICK where \in {"upcall", "status"} :
        /\ at[p].pc \in {"uxstack", "upcall"}
        /\ at' = [at EXCEPT ![p] = [at[p] EXCEPT !.pc = where]]
        /\ UNCHANGED <<status, pte, data, fault>>
  BY DEF ForkUxstack, ForkUpcall, At, Goto
<1>3. at[p] \in Step
  BY <1>1 DEF TypeOK
<1>4. /\ at'[p].pc = where /\ at'[p].child = at[p].child
      /\ \A q \in Proc \ {p} : at'[q] = at[q]
  BY <1>1, <1>2, <1>3 DEF TypeOK, Step
<1>5. View' = View
  BY <1>2, SameView
<1>6. \A q \in Proc : (Forking(q)' <=> Forking(q)) /\ at'[q].child = at[q].child
  BY <1>2, <1>4 DEF Forking
<1>7. SharedAlike' /\ CopyIsCurrent'
  BY <1>1, <1>2, <1>6 DEF SharedAlike, CopyIsCurrent
<1>8. PermsShare'
  BY <1>1, <1>4 DEF PermsShare
<1>9. ChildIsCopy'
  <2>1. \A q \in Proc, g \in Page : Done(q, g)' => Done(q, g)
    BY <1>2, <1>4 DEF Done
  <2> QED
    BY <1>1, <1>2, <1>6, <2>1 DEF ChildIsCopy
<1> QED
  BY <1>5, <1>7, <1>8, <1>9 DEF RInv

\* The child runs: with its parent's memory, but for the stack.
LEMMA ForkStatusRefines ==
  ASSUME IInv, RInv, NEW p \in Proc, ForkStatus(p)
  PROVE  RInv' /\ Spaces!Next
<1> DEFINE c == at[p].child
<1>1. /\ TypeOK /\ CopyIsNew /\ ChildrenWait /\ ChildIsMapped
      /\ SharedAlike /\ PermsShare /\ CopyIsCurrent /\ ChildIsCopy
  BY DEF IInv, RInv
<1>2. /\ at[p].pc = "status" /\ status[p] = "live"
      /\ status' = [status EXCEPT ![c] = "live"]
      /\ at' = [at EXCEPT ![p] = Idle]
      /\ UNCHANGED <<pte, data, upcall, fault>>
  BY DEF ForkStatus, At, Executes
<1>3. /\ c \in Proc /\ c # p /\ status[c] = "embryo"
      /\ \A g \in Page : pte[c][g] # None
      /\ \A g \in Page \ {Stack} : pte[c][g].frame = pte[p][g].frame
  BY <1>1, <1>2 DEF ChildrenWait, ChildIsMapped, ChildIsCopy, Forking, Done
<1>4. Idle.pc = "run"
  BY DEF Idle
<1>5. /\ at'[p] = Idle /\ \A q \in Proc \ {p} : at'[q] = at[q]
      /\ status'[c] = "live" /\ \A q \in Proc \ {c} : status'[q] = status[q]
  BY <1>1, <1>2, <1>3 DEF TypeOK
<1> HIDE DEF c
<1>6. SharedAlike' /\ CopyIsCurrent'
  BY <1>1, <1>2, <1>4, <1>5 DEF SharedAlike, CopyIsCurrent, Forking
<1>7. PermsShare'
  BY <1>1, <1>4, <1>5 DEF PermsShare
<1>8. ChildIsCopy'
  BY <1>1, <1>2, <1>4, <1>5 DEF ChildIsCopy, Forking, Done
<1>9. Spaces!Fork(p, c)
  <2>1. Stack \in Page
    BY ForkAssumption DEF Stack, Page
  <2> DEFINE v == data[pte[c][Stack].frame]
  <2>2. v \in Val
    BY <1>1, <1>3, <2>1 DEF TypeOK, Unset, Entry, Pte
  <2>3. View[p] = [g \in Page |-> data[pte[p][g].frame]] /\ View[p] # None
    BY <1>2, ViewType
  <2>4. View[c] = None
    BY <1>3 DEF View
  <2>5. View'[c] = [g \in Page |-> data[pte[c][g].frame]]
    BY <1>2, <1>3, <1>5 DEF View
  <2>6. \A q \in Proc \ {c} : View'[q] = View[q]
    BY <1>2, <1>5 DEF View
  <2>7. View'[c] = [View[p] EXCEPT ![Stack] = v]
    BY <1>3, <2>1, <2>3, <2>5
  <2>8. View' = [View EXCEPT ![c] = [View[p] EXCEPT ![Stack] = v]]
    <3>1. View = [q \in Proc |-> View[q]] /\ View' = [q \in Proc |-> View'[q]]
      BY DEF View
    <3> QED
      BY <2>6, <2>7, <3>1
  <2> QED
    BY <2>2, <2>3, <2>4, <2>8 DEF Spaces!Fork, Spaces!Runs
<1> QED
  BY <1>3, <1>6, <1>7, <1>8, <1>9 DEF RInv, Spaces!Next

\* The memory of a program that ends is gone.
LEMMA ExitRefines ==
  ASSUME IInv, RInv, NEW p \in Proc, Exit(p)
  PROVE  RInv' /\ Spaces!Next
<1>1. /\ TypeOK /\ CopyIsNew /\ ChildrenWait
      /\ SharedAlike /\ PermsShare /\ CopyIsCurrent /\ ChildIsCopy
  BY DEF IInv, RInv
<1>2. /\ status[p] = "live"
      /\ status' = [status EXCEPT ![p] = "dead"]
      /\ pte' = [pte EXCEPT ![p] = [g \in Page |-> None]]
      /\ fault' = [fault EXCEPT ![p] = NoFault]
      /\ at' = [at EXCEPT ![p] = Idle]
      /\ UNCHANGED <<data, upcall>>
  BY DEF Exit, Gone
<1>3. Idle.pc = "run"
  BY DEF Idle
<1>4. /\ status'[p] = "dead" /\ \A g \in Page : pte'[p][g] = None
      /\ fault'[p] = NoFault /\ at'[p] = Idle
      /\ \A q \in Proc \ {p} : /\ status'[q] = status[q] /\ pte'[q] = pte[q]
                               /\ fault'[q] = fault[q] /\ at'[q] = at[q]
  BY <1>1, <1>2 DEF TypeOK
<1>5. SharedAlike'
  BY <1>1, <1>4 DEF SharedAlike
<1>6. PermsShare'
  BY <1>1, <1>3, <1>4 DEF PermsShare
<1>7. CopyIsCurrent'
  BY <1>1, <1>2, <1>4 DEF CopyIsCurrent, Forking
<1>8. ChildIsCopy'
  <2>1. \A q \in Proc : Forking(q)' => q # p /\ Forking(q) /\ at'[q] = at[q]
    BY <1>3, <1>4 DEF Forking
  <2>2. \A q \in Proc : Forking(q) => at[q].child # p /\ at[q].child \in Proc
    BY <1>1, <1>2 DEF ChildrenWait
  <2> QED
    BY <1>1, <1>4, <2>1, <2>2 DEF ChildIsCopy, Done
<1>9. Spaces!Exit(p)
  <2>1. View[p] # None
    BY <1>2, ViewType
  <2>2. View'[p] = None /\ \A q \in Proc \ {p} : View'[q] = View[q]
    BY <1>2, <1>4 DEF View
  <2>3. View = [q \in Proc |-> View[q]] /\ View' = [q \in Proc |-> View'[q]]
    BY DEF View
  <2>4. View' = [View EXCEPT ![p] = None]
    BY <2>2, <2>3
  <2> QED
    BY <2>1, <2>4 DEF Spaces!Exit, Spaces!Runs
<1> QED
  BY <1>5, <1>6, <1>7, <1>8, <1>9 DEF RInv, Spaces!Next

-----------------------------------------------------------------------------
(* The theorem *)

\* Every step is one of the abstract specification, or changes nothing there.
LEMMA StepRefines == IInv /\ RInv /\ [Next]_vars => RInv' /\ [Spaces!Next]_View
<1> SUFFICES ASSUME IInv, RInv, [Next]_vars PROVE RInv' /\ [Spaces!Next]_View
  OBVIOUS
<1>1. CASE Next
  <2>1. PICK p \in Proc :
          \/ \E g \in Page, v \in Val : Write(p, g, v)
          \/ \E g \in Page, f \in Frame : Pgfault(p, g, f)
          \/ PgfaultEnd(p)
          \/ \E c \in Proc : Fork(p, c)
          \/ DuppagePerms(p) \/ DuppageChild(p) \/ DuppageOwn(p)
          \/ ForkUxstack(p) \/ ForkUpcall(p) \/ ForkStatus(p)
          \/ Exit(p)
    BY <1>1 DEF Next
  <2>2. ASSUME NEW g \in Page, NEW v \in Val, Write(p, g, v)
        PROVE  RInv' /\ Spaces!Next
    BY <2>2, WriteRefines
  <2>3. ASSUME NEW g \in Page, NEW f \in Frame, Pgfault(p, g, f)
        PROVE  RInv' /\ View' = View
    BY <2>3, PgfaultRefines
  <2>4. ASSUME NEW c \in Proc, Fork(p, c)
        PROVE  RInv' /\ View' = View
    BY <2>4, ForkRefines
  <2>5. CASE PgfaultEnd(p)
    BY <2>5, PgfaultEndRefines
  <2>6. CASE DuppagePerms(p) \/ DuppageChild(p) \/ DuppageOwn(p)
    BY <2>6, DuppagePermsRefines, DuppageChildRefines, DuppageOwnRefines
  <2>7. CASE ForkUxstack(p) \/ ForkUpcall(p)
    BY <2>7, ForkUxstackUpcallRefines
  <2>8. CASE ForkStatus(p) \/ Exit(p)
    BY <2>8, ForkStatusRefines, ExitRefines
  <2> QED
    BY <2>1, <2>2, <2>3, <2>4, <2>5, <2>6, <2>7, <2>8
<1>2. CASE UNCHANGED vars
  <2>1. RInv'
    BY <1>2 DEF RInv, vars, SharedAlike, PermsShare, CopyIsCurrent, ChildIsCopy, Forking, Done
  <2>2. View' = View
    BY <1>2 DEF vars, View
  <2> QED
    BY <2>1, <2>2
<1> QED
  BY <1>1, <1>2

\* Copy-on-write as lib/fork.c does it cannot be told from memories of their
\* own: every behaviour is one of AddressSpaces, in which a child starts with a
\* copy of its parent's memory (lib/fork.c:131-136).
THEOREM Implementation == Spec => ImplementsAddressSpaces
<1>1. Init => IInv /\ RInv /\ Spaces!Init
  BY InitIInv, InitRefines
<1>2. IInv /\ RInv /\ [Next]_vars => IInv' /\ RInv' /\ [Spaces!Next]_View
  BY StepKeeps, StepRefines
<1> QED
  BY <1>1, <1>2, PTL DEF Spec, ImplementsAddressSpaces, Spaces!Spec
=============================================================================
