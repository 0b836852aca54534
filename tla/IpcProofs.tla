------------------------------ MODULE IpcProofs ------------------------------
(***************************************************************************)
(* Ipc implements Rendezvous, for any number of environments, generations, *)
(* addresses and values.                                                   *)
(***************************************************************************)
EXTENDS Ipc, TLAPS

-----------------------------------------------------------------------------
(* The inductive invariant *)

Used == \A e \in Slot : live[e] => gen[e] # 0

\* Who receives is in ipc_recv: sys_ipc_recv blocks, and env_alloc clears the
\* flag the last tenant of the slot may have left.
OnlyInRecv == \A e \in Slot : live[e] /\ recving[e] => pc[e] = "recv"

HasJob == \A e \in Slot : Sending(e) => job[e] \in Job

\* Who asked for a page has it at the address it asked for.
AskedIsDst ==
  \A e \in Slot : live[e] /\ pc[e] = "recv" /\ asked[e] # None => dstva[e] = asked[e]

\* What a program asked for is forgotten when ipc_recv returns.
AskedNone == \A e \in Slot : ~ live[e] \/ pc[e] # "recv" => asked[e] = None

IInv == TypeOK /\ Used /\ OnlyInRecv /\ HasJob /\ AskedIsDst /\ AskedNone

\* At the start nobody is in a call.
LEMMA InitIInv == Init => IInv
<1> SUFFICES ASSUME Init PROVE IInv
  OBVIOUS
<1>1. \A e \in Slot : mem[e] \in [VA -> Page \cup {None}]
  BY IpcAssumption DEF Init, OwnPage, NoPages, Page
<1>2. gen \in [Slot -> 0 .. MaxGen] /\ \A e \in Slot : live[e] => gen[e] # 0
  BY IpcAssumption DEF Init
<1>3. TypeOK
  BY <1>1, <1>2, IpcAssumption DEF Init, TypeOK, Pg
<1> QED
  BY <1>2, <1>3 DEF Init, IInv, Used, OnlyInRecv, HasJob, AskedIsDst, AskedNone, Sending

\* An environment begins in no call and receives nothing.
LEMMA BirthKeeps ==
  ASSUME IInv, NEW e \in Slot, Birth(e)
  PROVE  IInv'
<1>1. OwnPage(e) \in [VA -> Page \cup {None}]
  BY IpcAssumption DEF OwnPage, NoPages, Page
<1>2. gen[e] + 1 \in 0 .. MaxGen /\ gen[e] + 1 # 0
  BY IpcAssumption DEF IInv, TypeOK, Birth
<1>3. TypeOK'
  BY <1>1, <1>2 DEF IInv, TypeOK, Birth, Goto
<1>4. Used'
  BY <1>2 DEF IInv, TypeOK, Used, Birth
<1>5. OnlyInRecv' /\ HasJob' /\ AskedIsDst' /\ AskedNone'
  BY DEF IInv, TypeOK, OnlyInRecv, HasJob, AskedIsDst, AskedNone, Sending, Birth, Goto
<1> QED
  BY <1>3, <1>4, <1>5 DEF IInv

\* What an environment that ends leaves in its slot binds nobody.
LEMMA DeathKeeps ==
  ASSUME IInv, NEW e \in Slot, Death(e)
  PROVE  IInv'
<1>1. NoPages \in [VA -> Page \cup {None}]
  BY DEF NoPages
<1>2. TypeOK'
  BY <1>1 DEF IInv, TypeOK, Death, Pg
<1>3. Used' /\ OnlyInRecv' /\ HasJob' /\ AskedIsDst' /\ AskedNone'
  BY DEF IInv, TypeOK, Used, OnlyInRecv, HasJob, AskedIsDst, AskedNone, Sending, Death
<1> QED
  BY <1>2, <1>3 DEF IInv

\* sys_ipc_recv records the address that was asked for.
LEMMA IpcRecvKeeps ==
  ASSUME IInv, NEW e \in Slot, NEW pg \in Pg, IpcRecv(e, pg)
  PROVE  IInv'
<1>1. pg # None => pg \in VA
  BY DEF Pg
<1>2. TypeOK'
  BY <1>1 DEF IInv, TypeOK, IpcRecv, Record, Goto
<1>3. Used' /\ OnlyInRecv' /\ HasJob' /\ AskedIsDst' /\ AskedNone'
  BY DEF IInv, TypeOK, Used, OnlyInRecv, HasJob, AskedIsDst, AskedNone, Sending, IpcRecv, Record, Goto
<1> QED
  BY <1>2, <1>3 DEF IInv

\* The receiver goes on once it is woken.
LEMMA RecvReturnKeeps ==
  ASSUME IInv, NEW e \in Slot, RecvReturn(e)
  PROVE  IInv'
<1>1. TypeOK'
  BY DEF IInv, TypeOK, RecvReturn, Goto, kernel, Pg
<1>2. Used' /\ OnlyInRecv' /\ HasJob' /\ AskedIsDst' /\ AskedNone'
  BY DEF IInv, TypeOK, Used, OnlyInRecv, HasJob, AskedIsDst, AskedNone, Sending, RecvReturn, Goto, kernel
<1> QED
  BY <1>1, <1>2 DEF IInv

\* A sender has its arguments.
LEMMA IpcSendKeeps ==
  ASSUME IInv, NEW e \in Slot, NEW j \in Job, IpcSend(e, j)
  PROVE  IInv'
<1>1. TypeOK'
  BY DEF IInv, TypeOK, IpcSend, Goto, kernel
<1>2. Used' /\ OnlyInRecv' /\ HasJob' /\ AskedIsDst' /\ AskedNone'
  BY DEF IInv, TypeOK, Used, OnlyInRecv, HasJob, AskedIsDst, AskedNone, Sending, IpcSend, Goto, kernel
<1> QED
  BY <1>1, <1>2 DEF IInv

\* A sender that panics has at most cleared env_ipc_perm of its receiver.
LEMMA SendPanicsKeeps ==
  ASSUME IInv, NEW e \in Slot, SendPanics(e)
  PROVE  IInv'
<1>1. perm' \in [Slot -> BOOLEAN]
  BY DEF IInv, TypeOK, SendPanics
<1>2. /\ pc' = [pc EXCEPT ![e] = "panic"] /\ job' = [job EXCEPT ![e] = None]
      /\ Sending(e)
      /\ UNCHANGED <<gen, live, recving, dstva, from, value, mem, asked>>
  BY DEF SendPanics, Goto
<1>3. TypeOK'
  BY <1>1, <1>2 DEF IInv, TypeOK
<1>4. Used' /\ OnlyInRecv' /\ HasJob' /\ AskedIsDst' /\ AskedNone'
  BY <1>2 DEF IInv, TypeOK, Used, OnlyInRecv, HasJob, AskedIsDst, AskedNone, Sending
<1> QED
  BY <1>3, <1>4 DEF IInv

\* What is known of a sender that succeeds and of its receiver.
LEMMA TrySendFacts ==
  ASSUME IInv, NEW e \in Slot, TrySend(e)
  PROVE  /\ job[e] \in Job /\ job[e].to \in EnvId /\ job[e].to[1] \in Slot
         /\ job[e].to[1] # e
         /\ job[e].pg # None => job[e].pg \in VA /\ mem[e][job[e].pg] \in Page
<1>1. job[e] \in Job /\ Accepts(job[e].to) /\ ~ BadPage(e) /\ Sending(e)
  BY DEF IInv, HasJob, TrySend
<1>2. job[e].to \in EnvId /\ job[e].to[1] \in Slot /\ job[e].pg \in Pg
  BY <1>1 DEF Job, EnvId
<1>3. job[e].to[1] # e
  BY <1>1, <1>2 DEF IInv, OnlyInRecv, Accepts, Exists, Sending
<1>4. job[e].pg # None => job[e].pg \in VA /\ mem[e][job[e].pg] \in Page
  BY <1>1, <1>2 DEF BadPage, Pg, IInv, TypeOK
<1> QED
  BY <1>1, <1>2, <1>3, <1>4

\* sys_ipc_try_send fills the receiver's Env structure, and maps its page where
\* it asked for one.
LEMMA TrySendKeeps ==
  ASSUME IInv, NEW e \in Slot, TrySend(e)
  PROVE  IInv'
<1>1. PICK r \in Slot : r = job[e].to[1] /\ r # e
  BY TrySendFacts
<1>2. /\ job[e] \in Job /\ Sending(e)
      /\ recving' = [recving EXCEPT ![r] = FALSE]
      /\ from' = [from EXCEPT ![r] = Id(e)]
      /\ value' = [value EXCEPT ![r] = job[e].val]
      /\ pc' = [pc EXCEPT ![e] = "run"] /\ job' = [job EXCEPT ![e] = None]
      /\ UNCHANGED <<gen, live, dstva, asked>>
  BY <1>1, TrySendFacts DEF TrySend, Close, Goto, SenderId
<1>3. perm' \in [Slot -> BOOLEAN]
  BY <1>1 DEF IInv, TypeOK, TrySend
<1>4. mem' \in [Slot -> [VA -> Page \cup {None}]]
  <2>1. CASE job[e].pg = None
    BY <2>1 DEF IInv, TypeOK, TrySend
  <2>2. CASE job[e].pg # None
    <3> DEFINE page == mem[e][job[e].pg]
    <3>1. page \in Page /\ mem' = [mem EXCEPT ![r][dstva[r]] = page]
      BY <1>1, <2>2, TrySendFacts DEF TrySend
    <3>2. [mem[r] EXCEPT ![dstva[r]] = page] \in [VA -> Page \cup {None}]
      BY <3>1 DEF IInv, TypeOK
    <3> QED
      BY <3>1, <3>2 DEF IInv, TypeOK
  <2> QED
    BY <2>1, <2>2
<1>5. Id(e) \in EnvId /\ job[e].val \in Val
  <2>1. gen[e] \in 1 .. MaxGen
    BY <1>2, IpcAssumption DEF IInv, TypeOK, Used, Sending
  <2> QED
    BY <1>2, <2>1 DEF Id, EnvId, Job
<1>6. TypeOK'
  BY <1>2, <1>3, <1>4, <1>5 DEF IInv, TypeOK
<1>7. Used' /\ OnlyInRecv' /\ HasJob' /\ AskedIsDst' /\ AskedNone'
  BY <1>1, <1>2 DEF IInv, TypeOK, Used, OnlyInRecv, HasJob, AskedIsDst, AskedNone, Sending, Accepts, TrySend
<1> QED
  BY <1>6, <1>7 DEF IInv

\* Every call keeps the invariant.
LEMMA StepKeeps == IInv /\ [Next]_vars => IInv'
<1> SUFFICES ASSUME IInv, [Next]_vars PROVE IInv'
  OBVIOUS
<1>1. CASE UNCHANGED vars
  BY <1>1 DEF vars, IInv, TypeOK, Used, OnlyInRecv, HasJob, AskedIsDst, AskedNone, Sending
<1>2. CASE Next
  BY <1>2, BirthKeeps, DeathKeeps, RecvReturnKeeps, TrySendKeeps, SendPanicsKeeps,
     IpcRecvKeeps, IpcSendKeeps DEF Next
<1> QED
  BY <1>1, <1>2

\* The inductive invariant of the calls: who receives is blocked in ipc_recv,
\* with its address recorded (kern/syscall.c:404-413, kern/env.c:265).
THEOREM Invariance == Spec => []IInv
BY InitIInv, StepKeeps, PTL DEF Spec

\* Every field the calls keep in an Env structure has its type.
THEOREM TypeCorrect == Spec => []TypeOK
<1>1. IInv => TypeOK
  BY DEF IInv
<1> QED
  BY Invariance, <1>1, PTL

-----------------------------------------------------------------------------
(* Whose memory changes *)

\* Memory changes under a program that waits, where it asked for a page.
Lands(e) ==
  live[e] /\ live'[e] /\ mem'[e] # mem[e] =>
    /\ pc[e] = "recv" /\ recving[e]
    /\ \E va \in VA : /\ mem'[e] = [mem[e] EXCEPT ![va] = mem'[e][va]]
                      /\ asked[e] \in {va, None}

\* sys_ipc_try_send maps one page, at env_ipc_dstva of the receiver.
LEMMA TrySendLands ==
  ASSUME IInv, NEW e \in Slot, TrySend(e)
  PROVE  \A f \in Slot : Lands(f)
<1> SUFFICES ASSUME NEW f \in Slot, live[f], mem'[f] # mem[f] PROVE Lands(f)
  BY DEF Lands
<1>1. PICK r \in Slot : r = job[e].to[1]
  BY TrySendFacts
<1>2. job[e].pg # None
  BY DEF TrySend
<1>3. mem' = [mem EXCEPT ![r][dstva[r]] = mem[e][job[e].pg]]
  BY <1>1, <1>2 DEF TrySend
<1>4. f = r /\ mem'[r] = [mem[r] EXCEPT ![dstva[r]] = mem[e][job[e].pg]]
  BY <1>3 DEF IInv, TypeOK
<1>5. dstva[r] \in VA /\ mem'[r] = [mem[r] EXCEPT ![dstva[r]] = mem'[r][dstva[r]]]
  BY <1>4 DEF IInv, TypeOK
<1>6. recving[r] /\ pc[r] = "recv" /\ asked[r] \in {dstva[r], None}
  BY <1>1, <1>4 DEF TrySend, Accepts, IInv, OnlyInRecv, AskedIsDst
<1> QED
  BY <1>4, <1>5, <1>6 DEF Lands

\* A page comes to a program only while it is in ipc_recv, and to the address it
\* asked for if it asked for one (kern/syscall.c:366-374, 402-410).
THEOREM PagesLand == Spec => PagesLandWhereAsked
<1>1. ASSUME IInv, [Next]_vars
      PROVE  (\A e \in Slot : Lands(e)) \/ UNCHANGED vars
  <2>1. SUFFICES ASSUME Next PROVE \A e \in Slot : Lands(e)
    BY <1>1
  <2>2. ASSUME NEW e \in Slot, Birth(e) \/ Death(e)
        PROVE  \A f \in Slot : Lands(f)
    BY <1>1, <2>2 DEF Birth, Death, Lands, IInv, TypeOK
  <2>3. ASSUME NEW e \in Slot, TrySend(e)
        PROVE  \A f \in Slot : Lands(f)
    BY <1>1, <2>3, TrySendLands
  <2>4. ASSUME UNCHANGED mem
        PROVE  \A f \in Slot : Lands(f)
    BY <2>4 DEF Lands
  <2>5. ASSUME NEW e \in Slot,
               \/ RecvReturn(e) \/ SendPanics(e)
               \/ \E pg \in Pg : IpcRecv(e, pg)
               \/ \E j \in Job : IpcSend(e, j)
        PROVE  UNCHANGED mem
    BY <2>5 DEF RecvReturn, SendPanics, IpcRecv, IpcSend, kernel
  <2> QED
    BY <2>1, <2>2, <2>3, <2>4, <2>5 DEF Next
<1>2. (\A e \in Slot : Lands(e)) \/ UNCHANGED vars
        <=> [ \A e \in Slot :
                live[e] /\ live'[e] /\ mem'[e] # mem[e] =>
                  /\ pc[e] = "recv" /\ recving[e]
                  /\ \E va \in VA : /\ mem'[e] = [mem[e] EXCEPT ![va] = mem'[e][va]]
                                    /\ asked[e] \in {va, None} ]_vars
  BY DEF Lands
<1> QED
  BY Invariance, <1>1, <1>2, PTL DEF Spec, PagesLandWhereAsked

-----------------------------------------------------------------------------
(* What a step changes in the abstract specification *)

Same(id) ==
  /\ DoingOf(id)' = DoingOf(id) /\ OfferOf(id)' = OfferOf(id)
  /\ WantsOf(id)' = WantsOf(id) /\ InboxOf(id)' = InboxOf(id)

\* An id that names nobody, before and after.
LEMMA AbsentSame ==
  ASSUME NEW id \in EnvId, ~ Exists(id), ~ Exists(id)'
  PROVE  Same(id)
BY DEF Same, DoingOf, OfferOf, WantsOf, InboxOf

\* An environment whose fields are left alone; env_ipc_perm is nobody's business
\* while it is receiving.
LEMMA UntouchedSame ==
  ASSUME IInv, NEW id \in EnvId, NEW e \in Slot, e = id[1],
         live'[e] = live[e], gen'[e] = gen[e], recving'[e] = recving[e],
         dstva'[e] = dstva[e], from'[e] = from[e], value'[e] = value[e],
         perm'[e] = perm[e] \/ recving[e], mem'[e] = mem[e],
         pc'[e] = pc[e], job'[e] = job[e], asked'[e] = asked[e]
  PROVE  Same(id)
<1>1. Exists(id)' <=> Exists(id)
  BY DEF Exists
<1>2. DoingOf(id)' = DoingOf(id)
  BY <1>1 DEF DoingOf, IInv, TypeOK
<1>3. OfferOf(id)' = OfferOf(id)
  BY <1>1 DEF OfferOf
<1>4. WantsOf(id)' = WantsOf(id)
  BY <1>1 DEF WantsOf
<1>5. InboxOf(id)' = InboxOf(id)
  <2>1. Woken(e)' <=> Woken(e)
    BY DEF Woken
  <2>2. Woken(e) => perm'[e] = perm[e]
    BY DEF Woken
  <2> QED
    BY <1>1, <2>1, <2>2 DEF InboxOf
<1> QED
  BY <1>2, <1>3, <1>4, <1>5 DEF Same

\* Of a slot only the id with its generation exists.
LEMMA OnlyItsId ==
  ASSUME IInv, NEW id \in EnvId
  PROVE  /\ id[1] \in Slot /\ id = <<id[1], id[2]>>
         /\ Exists(id) <=> live[id[1]] /\ id = Id(id[1])
<1> PICK f \in Slot, g \in 1 .. MaxGen : id = <<f, g>>
  BY DEF EnvId
<1> QED
  BY DEF Exists, Id

\* The id of an environment that lives.
LEMMA IdOfLive ==
  ASSUME IInv, NEW e \in Slot, live[e]
  PROVE  Id(e) \in EnvId /\ Id(e)[1] = e /\ Id(e)[2] = gen[e] /\ Exists(Id(e))
<1>1. gen[e] \in 1 .. MaxGen
  BY IpcAssumption DEF IInv, TypeOK, Used
<1> QED
  BY <1>1 DEF Id, EnvId, Exists

\* A step that changes one environment changes one entry of each variable.
LEMMA OneChanges ==
  ASSUME NEW i \in EnvId, \A id \in EnvId \ {i} : Same(id)
  PROVE  /\ [id \in EnvId |-> DoingOf(id)]'
              = [[id \in EnvId |-> DoingOf(id)] EXCEPT ![i] = DoingOf(i)']
         /\ [id \in EnvId |-> OfferOf(id)]'
              = [[id \in EnvId |-> OfferOf(id)] EXCEPT ![i] = OfferOf(i)']
         /\ [id \in EnvId |-> WantsOf(id)]'
              = [[id \in EnvId |-> WantsOf(id)] EXCEPT ![i] = WantsOf(i)']
         /\ [id \in EnvId |-> InboxOf(id)]'
              = [[id \in EnvId |-> InboxOf(id)] EXCEPT ![i] = InboxOf(i)']
BY DEF Same

\* What is left alone of a variable is unchanged.
LEMMA OneEntrySame ==
  ASSUME NEW i \in EnvId, \A id \in EnvId \ {i} : Same(id)
  PROVE  /\ OfferOf(i)' = OfferOf(i) =>
              UNCHANGED [id \in EnvId |-> OfferOf(id)]
         /\ WantsOf(i)' = WantsOf(i) =>
              UNCHANGED [id \in EnvId |-> WantsOf(id)]
         /\ InboxOf(i)' = InboxOf(i) =>
              UNCHANGED [id \in EnvId |-> InboxOf(id)]
BY DEF Same

-----------------------------------------------------------------------------
(* The steps *)

\* env_alloc makes an environment that nobody knew.
LEMMA BirthRefines ==
  ASSUME IInv, IInv', NEW e \in Slot, Birth(e)
  PROVE  Meeting!Next
<1>1. /\ ~ live[e] /\ live'[e] /\ pc'[e] = "run" /\ gen'[e] # gen[e]
      /\ \A f \in Slot \ {e} :
           /\ live'[f] = live[f] /\ gen'[f] = gen[f] /\ recving'[f] = recving[f]
           /\ mem'[f] = mem[f] /\ pc'[f] = pc[f]
      /\ UNCHANGED <<dstva, from, value, perm, job, asked>>
  BY DEF IInv, TypeOK, Birth, Goto
<1>2. PICK i \in EnvId : i[1] = e /\ Exists(i)' /\ ~ Exists(i) /\ i = <<e, gen'[e]>>
  <2>1. gen'[e] \in 1 .. MaxGen
    BY <1>1, IpcAssumption DEF IInv, TypeOK, Used
  <2> QED
    BY <1>1, <2>1 DEF EnvId, Exists
<1>3. ASSUME NEW id \in EnvId \ {i} PROVE Same(id)
  <2>1. id[1] \in Slot /\ id = <<id[1], id[2]>>
    BY OnlyItsId
  <2>2. CASE id[1] = e
    <3>1. ~ Exists(id) /\ ~ Exists(id)'
      BY <1>1, <1>2, <1>3, <2>1, <2>2 DEF Exists
    <3> QED
      BY <3>1, AbsentSame
  <2>3. CASE id[1] # e
    BY <1>1, <2>1, <2>3, UntouchedSame
  <2> QED
    BY <2>2, <2>3
<1>4. /\ DoingOf(i) = "absent" /\ DoingOf(i)' = "idle"
      /\ OfferOf(i)' = OfferOf(i) /\ InboxOf(i)' = InboxOf(i)
  BY <1>1, <1>2 DEF DoingOf, OfferOf, InboxOf, Woken
<1>5. WantsOf(i)' = WantsOf(i)
  BY <1>1, <1>2 DEF IInv, AskedNone, WantsOf
<1>6. Meeting!Appear(i)
  BY <1>3, <1>4, <1>5, OneChanges, OneEntrySame DEF Meeting!Appear, Meeting!Become
<1> QED
  BY <1>6 DEF Meeting!Next

\* A call changes nothing of the others, and nothing of what the slot's earlier
\* ids name.
LEMMA OthersSame ==
  ASSUME IInv, NEW e \in Slot, gen' = gen,
         \A f \in Slot \ {e} :
           /\ live'[f] = live[f] /\ recving'[f] = recving[f] /\ dstva'[f] = dstva[f]
           /\ from'[f] = from[f] /\ value'[f] = value[f] /\ mem'[f] = mem[f]
           /\ perm'[f] = perm[f] \/ recving[f]
           /\ pc'[f] = pc[f] /\ job'[f] = job[f] /\ asked'[f] = asked[f]
  PROVE  \A id \in EnvId \ {Id(e)} : Same(id)
<1> SUFFICES ASSUME NEW id \in EnvId \ {Id(e)} PROVE Same(id)
  OBVIOUS
<1>1. id[1] \in Slot /\ id = <<id[1], id[2]>>
  BY OnlyItsId
<1>2. CASE id[1] = e
  <2>1. ~ Exists(id) /\ ~ Exists(id)'
    BY <1>1, <1>2 DEF Exists, Id
  <2> QED
    BY <2>1, AbsentSame
<1>3. CASE id[1] # e
  BY <1>1, <1>3, UntouchedSame
<1> QED
  BY <1>2, <1>3

\* Whoever ends, in whichever call, is gone with its message.
LEMMA DeathRefines ==
  ASSUME IInv, IInv', NEW e \in Slot, Death(e)
  PROVE  Meeting!Next
<1>1. PICK i \in EnvId : i = Id(e) /\ i[1] = e /\ i[2] = gen[e] /\ Exists(i)
  BY IdOfLive DEF Death
<1>2. /\ gen' = gen /\ ~ live'[e]
      /\ UNCHANGED <<recving, dstva, from, value, perm, pc>>
      /\ \A f \in Slot \ {e} : /\ live'[f] = live[f] /\ mem'[f] = mem[f]
                               /\ job'[f] = job[f] /\ asked'[f] = asked[f]
  BY DEF IInv, TypeOK, Death
<1>3. \A id \in EnvId \ {i} : Same(id)
  BY <1>1, <1>2, OthersSame
<1>4. DoingOf(i) # "absent"
  BY <1>1 DEF DoingOf, IInv, TypeOK
<1>5. DoingOf(i)' = "absent" /\ OfferOf(i)' = None /\ WantsOf(i)' = FALSE /\ InboxOf(i)' = None
  BY <1>1, <1>2 DEF DoingOf, OfferOf, WantsOf, InboxOf, Exists
<1>6. Meeting!Vanish(i)
  BY <1>3, <1>4, <1>5, OneChanges DEF Meeting!Vanish, Meeting!Become
<1> QED
  BY <1>6 DEF Meeting!Next

\* sys_ipc_recv blocks its caller.
LEMMA IpcRecvRefines ==
  ASSUME IInv, IInv', NEW e \in Slot, NEW pg \in Pg, IpcRecv(e, pg)
  PROVE  Meeting!Next
<1>1. PICK i \in EnvId : i = Id(e) /\ i[1] = e /\ i[2] = gen[e] /\ Exists(i)
  BY IdOfLive DEF IpcRecv
<1>2. /\ live[e] /\ pc[e] = "run" /\ pc'[e] = "recv" /\ recving'[e] /\ asked'[e] = pg
      /\ UNCHANGED <<gen, live, from, value, perm, mem, job>>
      /\ \A f \in Slot \ {e} : /\ pc'[f] = pc[f] /\ recving'[f] = recving[f]
                               /\ dstva'[f] = dstva[f] /\ asked'[f] = asked[f]
  BY DEF IInv, TypeOK, IpcRecv, Record, Goto
<1>3. \A id \in EnvId \ {i} : Same(id)
  BY <1>1, <1>2, OthersSame
<1>4. Exists(i)'
  BY <1>1, <1>2 DEF Exists
<1>5. /\ DoingOf(i) = "idle" /\ DoingOf(i)' = "receiving"
      /\ OfferOf(i)' = OfferOf(i) /\ WantsOf(i)' = (pg # None)
      /\ InboxOf(i)' = InboxOf(i)
  BY <1>1, <1>2, <1>4 DEF DoingOf, OfferOf, WantsOf, InboxOf, Woken
<1>6. Meeting!Receive(i, pg # None)
  BY <1>3, <1>5, OneChanges, OneEntrySame DEF Meeting!Receive, Meeting!Become
<1> QED
  BY <1>6 DEF Meeting!Next

\* ipc_recv returns with the message.
LEMMA RecvReturnRefines ==
  ASSUME IInv, IInv', NEW e \in Slot, RecvReturn(e)
  PROVE  Meeting!Next
<1>1. PICK i \in EnvId : i = Id(e) /\ i[1] = e /\ i[2] = gen[e] /\ Exists(i)
  BY IdOfLive DEF RecvReturn
<1>2. /\ live[e] /\ pc[e] = "recv" /\ ~ recving[e] /\ pc'[e] = "run"
      /\ UNCHANGED <<gen, live, recving, dstva, from, value, perm, mem, job>>
      /\ asked'[e] = None
      /\ \A f \in Slot \ {e} : pc'[f] = pc[f] /\ asked'[f] = asked[f]
  BY DEF IInv, TypeOK, RecvReturn, Goto, kernel
<1>3. \A id \in EnvId \ {i} : Same(id)
  BY <1>1, <1>2, OthersSame
<1>4. Exists(i)'
  BY <1>1, <1>2 DEF Exists
<1>5. /\ DoingOf(i) = "received" /\ DoingOf(i)' = "idle"
      /\ OfferOf(i)' = OfferOf(i) /\ WantsOf(i)' = FALSE /\ InboxOf(i)' = None
  BY <1>1, <1>2, <1>4 DEF DoingOf, OfferOf, WantsOf, InboxOf, Woken
<1>6. Meeting!Take(i)
  BY <1>3, <1>5, OneChanges, OneEntrySame DEF Meeting!Take, Meeting!Become
<1> QED
  BY <1>6 DEF Meeting!Next

\* ipc_send begins, with the page it has at the address it was given.
LEMMA IpcSendRefines ==
  ASSUME IInv, IInv', NEW e \in Slot, NEW j \in Job, IpcSend(e, j)
  PROVE  Meeting!Next
<1>1. PICK i \in EnvId : i = Id(e) /\ i[1] = e /\ i[2] = gen[e] /\ Exists(i)
  BY IdOfLive DEF IpcSend
<1>2. /\ live[e] /\ pc[e] = "run" /\ pc'[e] = "send" /\ job'[e] = j
      /\ UNCHANGED <<gen, live, recving, dstva, from, value, perm, mem, asked>>
      /\ \A f \in Slot \ {e} : pc'[f] = pc[f] /\ job'[f] = job[f]
  BY DEF IInv, TypeOK, IpcSend, Goto, kernel
<1>3. \A id \in EnvId \ {i} : Same(id)
  BY <1>1, <1>2, OthersSame
<1>4. Exists(i)'
  BY <1>1, <1>2 DEF Exists
<1>5. PICK m \in [val : Val, page : Page \cup {None}] :
        m = [val |-> j.val, page |-> IF j.pg = None THEN None ELSE mem[e][j.pg]]
  <2>1. j.val \in Val /\ (j.pg # None => mem[e][j.pg] \in Page \cup {None})
    BY DEF Job, Pg, IInv, TypeOK
  <2>2. (IF j.pg = None THEN None ELSE mem[e][j.pg]) \in Page \cup {None}
    BY <2>1
  <2> QED
    BY <2>1, <2>2
<1>6. /\ DoingOf(i) = "idle" /\ DoingOf(i)' = "sending"
      /\ OfferOf(i)' = [to |-> j.to, msg |-> m]
      /\ WantsOf(i)' = WantsOf(i) /\ InboxOf(i)' = InboxOf(i)
  BY <1>1, <1>2, <1>4, <1>5 DEF DoingOf, OfferOf, WantsOf, InboxOf, Woken
<1>7. Meeting!Send(i, j.to, m)
  BY <1>3, <1>6, OneChanges, OneEntrySame DEF Meeting!Send, Meeting!Become
<1> QED
  BY <1>7 DEF Meeting!Next, Meeting!Msg, Job

\* ipc_send panics: its receiver is gone, or was not woken.
LEMMA SendPanicsRefines ==
  ASSUME IInv, IInv', NEW e \in Slot, SendPanics(e)
  PROVE  Meeting!Next
<1>1. PICK i \in EnvId : i = Id(e) /\ i[1] = e /\ i[2] = gen[e] /\ Exists(i)
  BY IdOfLive DEF SendPanics, Sending
<1>2. /\ live[e] /\ pc[e] = "send" /\ pc'[e] = "panic"
      /\ UNCHANGED <<gen, live, recving, dstva, from, value, mem, asked>>
      /\ \A f \in Slot \ {e} : pc'[f] = pc[f] /\ job'[f] = job[f]
  BY DEF IInv, TypeOK, SendPanics, Goto, Sending
<1>3. \A f \in Slot : perm'[f] = perm[f] \/ recving[f]
  BY DEF IInv, TypeOK, SendPanics, Accepts
<1>4. \A id \in EnvId \ {i} : Same(id)
  BY <1>1, <1>2, <1>3, OthersSame
<1>5. Exists(i)'
  BY <1>1, <1>2 DEF Exists
<1>6. /\ DoingOf(i) = "sending" /\ DoingOf(i)' = "failed"
      /\ OfferOf(i)' = None /\ WantsOf(i)' = WantsOf(i) /\ InboxOf(i)' = InboxOf(i)
  BY <1>1, <1>2, <1>5 DEF DoingOf, OfferOf, WantsOf, InboxOf, Woken
<1>7. Meeting!Fail(i)
  BY <1>4, <1>6, OneChanges, OneEntrySame DEF Meeting!Fail, Meeting!Become
<1> QED
  BY <1>7 DEF Meeting!Next

\* sys_ipc_try_send succeeds: the two meet, and the receiver has the sender's
\* id, its value, and, if it asked for one, its page at the address it asked for.
LEMMA TrySendRefines ==
  ASSUME IInv, IInv', NEW e \in Slot, TrySend(e)
  PROVE  Meeting!Next
<1>1. PICK s \in EnvId : s = Id(e) /\ s[1] = e /\ s[2] = gen[e] /\ Exists(s)
  BY IdOfLive DEF TrySend, Sending
<1>2. PICK t \in EnvId : t = job[e].to
  BY TrySendFacts
<1>3. PICK r \in Slot : r = t[1] /\ r # e
  BY <1>2, TrySendFacts
<1>4. /\ live[e] /\ pc[e] = "send" /\ Exists(t) /\ recving[r] /\ live[r] /\ pc[r] = "recv"
      /\ UNCHANGED <<gen, live, dstva, asked>>
  BY <1>2, <1>3 DEF TrySend, Sending, Accepts, Exists, IInv, OnlyInRecv
<1>5. /\ pc'[e] = "run" /\ pc'[r] = pc[r] /\ ~ recving'[r]
      /\ from'[r] = s /\ value'[r] = job[e].val
      /\ \A f \in Slot \ {e} : pc'[f] = pc[f] /\ job'[f] = job[f]
      /\ \A f \in Slot \ {r} : /\ recving'[f] = recving[f] /\ from'[f] = from[f]
                               /\ value'[f] = value[f]
  <2>1. /\ pc' = [pc EXCEPT ![e] = "run"] /\ job' = [job EXCEPT ![e] = None]
        /\ recving' = [recving EXCEPT ![r] = FALSE]
        /\ from' = [from EXCEPT ![r] = s] /\ value' = [value EXCEPT ![r] = job[e].val]
    BY <1>1, <1>2, <1>3 DEF TrySend, Close, SenderId, Goto
  <2>2. pc'[e] = "run" /\ \A f \in Slot \ {e} : pc'[f] = pc[f] /\ job'[f] = job[f]
    BY <2>1 DEF IInv, TypeOK
  <2>3. /\ ~ recving'[r] /\ from'[r] = s /\ value'[r] = job[e].val
        /\ \A f \in Slot \ {r} : /\ recving'[f] = recving[f] /\ from'[f] = from[f]
                                 /\ value'[f] = value[f]
    BY <2>1 DEF IInv, TypeOK
  <2> QED
    BY <1>3, <2>2, <2>3
<1>6. /\ \A f \in Slot \ {r} : perm'[f] = perm[f] /\ mem'[f] = mem[f]
      /\ IF job[e].pg = None THEN ~ perm'[r]
         ELSE perm'[r] /\ mem'[r][dstva[r]] = mem[e][job[e].pg]
  <2>1. CASE job[e].pg = None
    BY <1>2, <1>3, <2>1 DEF TrySend, IInv, TypeOK
  <2>2. CASE job[e].pg # None
    <3>1. /\ perm' = [perm EXCEPT ![r] = TRUE]
          /\ mem' = [mem EXCEPT ![r][dstva[r]] = mem[e][job[e].pg]]
      BY <1>2, <1>3, <2>2 DEF TrySend
    <3> QED
      BY <2>2, <3>1 DEF IInv, TypeOK
  <2> QED
    BY <2>1, <2>2
<1>7. Exists(s)' /\ Exists(t)' /\ s # t
  BY <1>1, <1>3, <1>4 DEF Exists
<1>8. ASSUME NEW id \in EnvId, id # s, id # t
      PROVE  Same(id)
  <2>1. id[1] \in Slot /\ (Exists(id) <=> live[id[1]] /\ id = Id(id[1]))
    BY OnlyItsId
  <2>2. s = Id(e) /\ t = Id(r)
    BY <1>1, <1>3, <1>4, OnlyItsId
  <2>3. CASE id[1] = e \/ id[1] = r
    <3>1. ~ Exists(id)
      BY <1>8, <2>1, <2>2, <2>3
    <3>2. ~ Exists(id)'
      BY <3>1, <1>4 DEF Exists
    <3> QED
      BY <3>1, <3>2, AbsentSame
  <2>4. CASE id[1] # e /\ id[1] # r
    BY <1>4, <1>5, <1>6, <2>1, <2>4, UntouchedSame
  <2> QED
    BY <2>3, <2>4
<1>9. /\ DoingOf(s) = "sending" /\ DoingOf(s)' = "idle"
      /\ DoingOf(t) = "receiving" /\ DoingOf(t)' = "received"
  BY <1>1, <1>3, <1>4, <1>5, <1>7 DEF DoingOf
<1>10. /\ OfferOf(s)' = None /\ OfferOf(t)' = OfferOf(t)
       /\ InboxOf(s)' = InboxOf(s)
       /\ WantsOf(s)' = WantsOf(s) /\ WantsOf(t)' = WantsOf(t)
  BY <1>1, <1>3, <1>4, <1>5, <1>7 DEF OfferOf, WantsOf, InboxOf, Woken
<1>11. OfferOf(s) = [to  |-> t,
                     msg |-> [val  |-> job[e].val,
                              page |-> IF job[e].pg = None THEN None
                                       ELSE mem[e][job[e].pg]]]
  BY <1>1, <1>2, <1>4 DEF OfferOf
<1>12. InboxOf(t)' = [from |-> s,
                      msg  |-> IF WantsOf(t) THEN OfferOf(s).msg
                               ELSE [OfferOf(s).msg EXCEPT !.page = None]]
  <2>1. Woken(r)'
    BY <1>4, <1>5 DEF Woken
  <2>2. InboxOf(t)' = [from |-> s,
                       msg  |-> [val  |-> job[e].val,
                                 page |-> IF asked[r] # None /\ perm'[r]
                                          THEN mem'[r][asked[r]] ELSE None]]
    BY <1>3, <1>4, <1>5, <1>7, <2>1 DEF InboxOf
  <2>3. CASE asked[r] = None
    BY <1>3, <1>4, <1>11, <2>2, <2>3 DEF WantsOf
  <2>4. CASE asked[r] # None
    <3>1. dstva[r] = asked[r] /\ WantsOf(t)
      BY <1>3, <1>4, <2>4 DEF IInv, AskedIsDst, WantsOf
    <3> QED
      BY <1>6, <1>11, <2>2, <2>4, <3>1
  <2> QED
    BY <2>3, <2>4
<1>13. /\ [id \in EnvId |-> DoingOf(id)]'
            = [[id \in EnvId |-> DoingOf(id)] EXCEPT ![s] = "idle", ![t] = "received"]
       /\ [id \in EnvId |-> OfferOf(id)]'
            = [[id \in EnvId |-> OfferOf(id)] EXCEPT ![s] = None]
       /\ [id \in EnvId |-> InboxOf(id)]'
            = [[id \in EnvId |-> InboxOf(id)]
                EXCEPT ![t] = [from |-> s,
                               msg  |-> IF WantsOf(t) THEN OfferOf(s).msg
                                        ELSE [OfferOf(s).msg EXCEPT !.page = None]]]
       /\ UNCHANGED [id \in EnvId |-> WantsOf(id)]
  BY <1>7, <1>8, <1>9, <1>10, <1>12 DEF Same
<1>14. Meeting!Meet(s, t)
  <2>1. /\ [id \in EnvId |-> OfferOf(id)][s] = OfferOf(s) /\ OfferOf(s).to = t
        /\ [id \in EnvId |-> WantsOf(id)][t] = WantsOf(t)
    BY <1>11
  <2> QED
    BY <1>9, <1>13, <2>1 DEF Meeting!Meet, Meeting!Delivered
<1> QED
  BY <1>14 DEF Meeting!Next

-----------------------------------------------------------------------------
(* The theorem *)

\* At the start every environment is idle, or is not there.
LEMMA InitRefines == Init => Meeting!Init
<1> SUFFICES ASSUME Init PROVE Meeting!Init
  OBVIOUS
<1>1. \A id \in EnvId : DoingOf(id) \in {"absent", "idle"} /\ OfferOf(id) = None
                         /\ WantsOf(id) = FALSE /\ InboxOf(id) = None
  BY DEF EnvId, Init, DoingOf, OfferOf, WantsOf, InboxOf, Woken
<1> QED
  BY <1>1 DEF Meeting!Init

\* Every step of a call is a step of Rendezvous.
LEMMA StepRefines == IInv /\ IInv' /\ [Next]_vars => [Meeting!Next]_(Meeting!vars)
<1> SUFFICES ASSUME IInv, IInv', [Next]_vars
             PROVE  Meeting!Next \/ UNCHANGED Meeting!vars
  OBVIOUS
<1>1. CASE UNCHANGED vars
  BY <1>1 DEF vars, Meeting!vars, DoingOf, OfferOf, WantsOf, InboxOf, Exists, Woken
<1>2. CASE Next
  BY <1>2, BirthRefines, DeathRefines, RecvReturnRefines, TrySendRefines,
     SendPanicsRefines, IpcRecvRefines, IpcSendRefines DEF Next
<1> QED
  BY <1>1, <1>2

\* Message passing is a rendezvous, for any number of environments that come and
\* go: no message is lost, overwritten before it is read, mixed with another, or
\* given to a later tenant of the receiver's slot (kern/syscall.c:339-413,
\* lib/ipc.c).
THEOREM Implementation == Spec => ImplementsRendezvous
<1>1. IInv /\ IInv' /\ [Next]_vars => [Meeting!Next]_(Meeting!vars)
  BY StepRefines
<1> QED
  BY Invariance, InitRefines, <1>1, PTL DEF Spec, ImplementsRendezvous, Meeting!Spec

=============================================================================
