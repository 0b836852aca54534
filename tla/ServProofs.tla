------------------------------ MODULE ServProofs ------------------------------
(***************************************************************************)
(* The file server and its clients, for any number of clients, descriptors *)
(* and entries of the table of open files: a descriptor stays the file it  *)
(* was opened for, a request is refused only when its client is dead, and  *)
(* -E_MAX_OPEN means what it says.                                         *)
(***************************************************************************)
EXTENDS Serv, TLAPS

-----------------------------------------------------------------------------
(* The inductive invariant *)

\* Some client has the descriptor page of e.
Mapped(e) == \E c \in Client, n \in Num : fd[c][n] = e

\* Descriptor n of c stands for what it was opened for.
Stable(c, n) ==
  fd[c][n] # None =>
    /\ fd[c][n] \in alloc
    /\ gen[fd[c][n]] = opened[c][n].gen
    /\ fdid[fd[c][n]] = opened[c][n].gen
    /\ file[fd[c][n]] = opened[c][n].file

AllStable == \A c \in Client, n \in Num : Stable(c, n)

Waits(c) == at[c].pc \in {"send", "sent", "recv", "done"}

\* What a client that waits in fsipc has put into its request: the descriptor
\* is still the one it names.
RequestOK(c) ==
  /\ at[c].op # "none"
  /\ at[c].op = "open" => at[c].num \in Num /\ at[c].name \in FileName
  /\ at[c].op \in {"file", "flush"} =>
       /\ at[c].num \in Num /\ fd[c][at[c].num] \in Entry
       /\ at[c].id = <<fd[c][at[c].num], gen[fd[c][at[c].num]]>>

RequestsOK == \A c \in Client : Waits(c) => RequestOK(c)

Busy == srv.pc \in {"scan", "open", "handle", "reply"}

SameRequest(j, k) == j.op = k.op /\ j.num = k.num /\ j.name = k.name /\ j.id = k.id

\* The client the server works for has called and waits, or was killed; what
\* it asked for is what the server copied.
ServesOne ==
  Busy => /\ srv.client \in Client
          /\ at[srv.client].pc \in {"sent", "recv", "dead"}
          /\ at[srv.client].pc # "dead" => SameRequest(at[srv.client], srv.job)

\* The server has the request that its state says.
RightHandler ==
  /\ srv.pc \in {"scan", "open"} => srv.job.op = "open" /\ srv.job.name \in FileName
  /\ srv.pc = "handle" => srv.job.op # "open"
  /\ srv.pc \in {"recv", "scan", "open", "handle"} => srv.r = "ok"

\* The entry of an open that has not been answered yet is nobody's.
Opening ==
  /\ srv.pc = "open" => srv.i \in alloc /\ ~ Mapped(srv.i)
  /\ srv.pc = "reply" /\ srv.job.op = "open" /\ srv.r = "ok" =>
       /\ srv.i \in alloc /\ ~ Mapped(srv.i)
       /\ fdid[srv.i] = gen[srv.i] /\ file[srv.i] = srv.job.name

\* Whom the server has refused is dead.
Refused == srv.r = "inval" => srv.client \in Client /\ at[srv.client].pc = "dead"

\* The loop of openfile_alloc has not passed the last entry nobody has.
FreeAhead == \E e \in srv.i .. MaxOpen - 1 : ~ Mapped(e)

Looking ==
  /\ srv.pc = "scan" /\ ~ srv.full => FreeAhead
  /\ srv.r = "max_open" => srv.full

IInv ==
  /\ TypeOK /\ AllStable /\ RequestsOK /\ ServesOne /\ RightHandler
  /\ Opening /\ Refused /\ Looking
-----------------------------------------------------------------------------
(* What a step of a client may do *)

\* A descriptor is closed, or it is what a descriptor was before.
OnlyCopies ==
  \A c \in Client, n \in Num :
    \/ fd'[c][n] = None
    \/ \E d \in Client, m \in Num :
         fd'[c][n] = fd[d][m] /\ opened'[c][n] = opened[d][m]

\* Whom the server works for goes on waiting for it, or dies.
Patient ==
  \A c \in Client : at[c].pc \in {"sent", "recv", "dead"} =>
    /\ at'[c].pc \in {"sent", "recv", "dead"}
    /\ at[c].pc = "dead" => at'[c].pc = "dead"
    /\ at'[c].pc # "dead" => SameRequest(at'[c], at[c])

\* Only c does anything.
Alone(c) == \A d \in Client \ {c} : at'[d] = at[d] /\ fd'[d] = fd[d]

ClientStep == OnlyCopies /\ Patient /\ UNCHANGED <<table, srv>>

\* An entry is a number, and None is none.
LEMMA NoneIsNoEntry == None \notin Entry
BY ServAssumption DEF Entry

\* fork, dup, close and death give nobody a page that nobody had.
LEMMA CopiesMapNothing ==
  ASSUME OnlyCopies, NEW e \in Entry, Mapped(e)'
  PROVE  Mapped(e)
<1>1. PICK c \in Client, n \in Num : fd'[c][n] = e
  BY DEF Mapped
<1>2. e # None
  BY NoneIsNoEntry
<1>3. PICK d \in Client, m \in Num : fd'[c][n] = fd[d][m]
  BY <1>1, <1>2 DEF OnlyCopies
<1> QED
  BY <1>1, <1>3 DEF Mapped

\* A copy stands for what the original stood for.
LEMMA CopiesAreStable ==
  ASSUME AllStable, OnlyCopies, UNCHANGED table
  PROVE  AllStable'
<1> SUFFICES ASSUME NEW c \in Client, NEW n \in Num, fd'[c][n] # None
             PROVE  Stable(c, n)'
  BY DEF AllStable, Stable
<1>1. PICK d \in Client, m \in Num :
        fd'[c][n] = fd[d][m] /\ opened'[c][n] = opened[d][m]
  BY DEF OnlyCopies
<1>2. Stable(d, m)
  BY DEF AllStable
<1> QED
  BY <1>1, <1>2 DEF Stable, table

\* So what a client does is nothing to the server.
LEMMA ClientStepKeeps ==
  ASSUME IInv, ClientStep
  PROVE  AllStable' /\ ServesOne' /\ RightHandler' /\ Opening' /\ Refused' /\ Looking'
<1> USE DEF ClientStep
<1>1. srv' = srv /\ alloc' = alloc /\ gen' = gen /\ fdid' = fdid /\ file' = file
  BY DEF table
<1>2. srv.i \in Entry
  BY DEF IInv, TypeOK
<1>3. AllStable'
  BY CopiesAreStable DEF IInv
<1>4. ServesOne'
  BY <1>1 DEF IInv, ServesOne, Busy, Patient, SameRequest
<1>5. RightHandler'
  BY <1>1 DEF IInv, RightHandler
<1>6. Mapped(srv.i)' => Mapped(srv.i)
  BY <1>1, <1>2, CopiesMapNothing
<1>7. Opening'
  BY <1>1, <1>6 DEF IInv, Opening
<1>8. Refused'
  BY <1>1 DEF IInv, Refused, Patient
<1>9. FreeAhead => FreeAhead'
  <2> SUFFICES ASSUME FreeAhead PROVE FreeAhead'
    OBVIOUS
  <2>1. PICK e \in srv.i .. MaxOpen - 1 : ~ Mapped(e)
    BY DEF FreeAhead
  <2>2. e \in Entry
    BY <1>2, ServAssumption DEF Entry
  <2>3. ~ Mapped(e)'
    BY <2>1, <2>2, CopiesMapNothing
  <2> QED
    BY <1>1, <2>1, <2>3 DEF FreeAhead
<1>10. Looking'
  BY <1>1, <1>9 DEF IInv, Looking
<1> QED
  BY <1>3, <1>4, <1>5, <1>7, <1>8, <1>10

\* A request stays as it is while others run.
LEMMA OthersWait ==
  ASSUME RequestsOK, gen' = gen, NEW c \in Client, Alone(c), Waits(c)' => RequestOK(c)'
  PROVE  RequestsOK'
<1> SUFFICES ASSUME NEW d \in Client, d # c, Waits(d)'
             PROVE  RequestOK(d)'
  BY DEF RequestsOK
<1>1. at'[d] = at[d] /\ fd'[d] = fd[d]
  BY DEF Alone
<1>2. Waits(d) /\ RequestOK(d)
  BY <1>1 DEF Waits, RequestsOK
<1> QED
  BY <1>1, <1>2 DEF RequestOK

\* With fd and opened as they are.
LEMMA NothingCopied ==
  ASSUME UNCHANGED <<fd, opened>>
  PROVE  OnlyCopies
BY DEF OnlyCopies

-----------------------------------------------------------------------------
(* The steps of the clients *)

\* Where a client calls fsipc.
LEMMA RequestKeeps ==
  ASSUME IInv, NEW c \in Client, at[c].pc = "run", NEW job \in Job,
         Request(c, job), job.pc = "send", job.op # "none",
         job.op = "open" => job.num \in Num /\ job.name \in FileName,
         job.op \in {"file", "flush"} =>
           job.num \in Num /\ fd[c][job.num] \in Entry
             /\ job.id = <<fd[c][job.num], gen[fd[c][job.num]]>>
  PROVE  IInv'
<1>1. at' = [at EXCEPT ![c] = job] /\ UNCHANGED <<table, fd, srv, opened>>
  BY DEF Request
<1>2. TypeOK'
  BY <1>1 DEF IInv, TypeOK, Request, table
<1>3. at'[c] = job /\ Alone(c)
  BY <1>1 DEF IInv, TypeOK, Alone
<1>4. RequestOK(c)'
  BY <1>1, <1>3 DEF RequestOK, table
<1>5. RequestsOK'
  BY <1>1, <1>3, <1>4, OthersWait DEF IInv, table
<1>6. Patient
  BY <1>3 DEF Alone, Patient, SameRequest
<1>7. ClientStep
  BY <1>1, <1>6, NothingCopied DEF ClientStep
<1> QED
  BY <1>2, <1>5, <1>7, ClientStepKeeps DEF IInv
\* What a program does between two calls.
LEMMA IdleIsJob == Idle \in Job
BY DEF Idle, Job

\* The calls that use fsipc: each names a file, or a descriptor c has.
LEMMA CallsKeep ==
  ASSUME IInv, NEW c \in Client,
         \/ \E name \in FileName : CallOpen(c, name)
         \/ \E n \in Num, op \in {"file", "flush"} : Call(c, n, op)
         \/ CallSync(c)
  PROVE  IInv'
<1>1. ASSUME NEW name \in FileName, CallOpen(c, name) PROVE IInv'
  <2>1. PICK n \in Num :
          Request(c, [Idle EXCEPT !.pc = "send", !.op = "open", !.num = n, !.name = name])
    BY <1>1 DEF CallOpen
  <2> DEFINE job == [Idle EXCEPT !.pc = "send", !.op = "open", !.num = n, !.name = name]
  <2>2. /\ job \in Job /\ job.pc = "send" /\ job.op = "open"
        /\ job.num \in Num /\ job.name \in FileName
    BY DEF Idle, Job
  <2> HIDE DEF job
  <2> QED
    BY <1>1, <2>1, <2>2, RequestKeeps DEF CallOpen, Running, job
<1>2. ASSUME NEW n \in Num, NEW op \in {"file", "flush"}, Call(c, n, op) PROVE IInv'
  <2>1. PICK id : id = Id(c, n)
    OBVIOUS
  <2>2. PICK job : job = [Idle EXCEPT !.pc = "send", !.op = op, !.num = n, !.id = id]
    OBVIOUS
  <2>3. Request(c, job) /\ at[c].pc = "run"
    BY <1>2, <2>1, <2>2 DEF Call, Running
  <2>4. fd[c][n] \in Entry /\ id = <<fd[c][n], gen[fd[c][n]]>>
    BY <1>2, <2>1 DEF IInv, TypeOK, AllStable, Stable, Call, Id
  <2>5. id \in (Entry \X (Gen \cup {None})) \cup {None}
    BY <2>4 DEF IInv, TypeOK
  <2>6. /\ job \in Job /\ job.pc = "send" /\ job.op \in {"file", "flush"}
        /\ job.num = n /\ job.id = id
    BY <2>2, <2>5, IdleIsJob DEF Job
  <2>7. job.op # "open"
    BY <2>6
  <2> QED
    BY <2>3, <2>4, <2>6, <2>7, RequestKeeps
<1>3. ASSUME CallSync(c) PROVE IInv'
  <2> DEFINE job == [Idle EXCEPT !.pc = "send", !.op = "sync"]
  <2>1. /\ at' = [at EXCEPT ![c] = job] /\ at[c].pc = "run"
        /\ UNCHANGED <<table, fd, cow, srv, opened>>
    BY <1>3 DEF CallSync, Running
  <2>2. job \in Job /\ job.pc = "send" /\ job.op = "sync"
    BY DEF Idle, Job
  <2> HIDE DEF job
  <2>3. TypeOK'
    BY <2>1, <2>2 DEF IInv, TypeOK, table
  <2>4. at'[c] = job /\ Alone(c)
    BY <2>1 DEF IInv, TypeOK, Alone
  <2>5. RequestOK(c)'
    BY <2>2, <2>4 DEF RequestOK
  <2>6. RequestsOK'
    BY <2>1, <2>4, <2>5, OthersWait DEF IInv, table
  <2>7. Patient
    BY <2>1, <2>4 DEF Alone, Patient, SameRequest
  <2>8. ClientStep
    BY <2>1, <2>7, NothingCopied DEF ClientStep
  <2> QED
    BY <2>3, <2>6, <2>8, ClientStepKeeps DEF IInv
<1> QED
  BY <1>1, <1>2, <1>3

\* Descriptor n of c becomes what descriptor m of c is.
LEMMA CopyCopies ==
  ASSUME IInv, NEW c \in Client, NEW n \in Num, NEW m \in Num, Copy(c, n, c, m)
  PROVE  /\ OnlyCopies
         /\ fd' \in [Client -> [Num -> Entry \cup {None}]]
         /\ opened' \in [Client -> [Num -> [gen : Gen, file : FileName] \cup {None}]]
         /\ \A d \in Client \ {c} : fd'[d] = fd[d]
<1>1. /\ fd \in [Client -> [Num -> Entry \cup {None}]]
      /\ opened \in [Client -> [Num -> [gen : Gen, file : FileName] \cup {None}]]
  BY DEF IInv, TypeOK
<1>2. /\ fd' = [fd EXCEPT ![c][n] = fd[c][m]]
      /\ opened' = [opened EXCEPT ![c][n] = opened[c][m]]
  BY DEF Copy
<1>3. /\ fd' \in [Client -> [Num -> Entry \cup {None}]]
      /\ \A d \in Client, k \in Num :
           fd'[d][k] = IF d = c /\ k = n THEN fd[c][m] ELSE fd[d][k]
      /\ \A d \in Client \ {c} : fd'[d] = fd[d]
  BY <1>1, <1>2
<1>4. /\ opened' \in [Client -> [Num -> [gen : Gen, file : FileName] \cup {None}]]
      /\ \A d \in Client, k \in Num :
           opened'[d][k] = IF d = c /\ k = n THEN opened[c][m] ELSE opened[d][k]
  BY <1>1, <1>2
<1>5. OnlyCopies
  BY <1>3, <1>4 DEF OnlyCopies
<1> QED
  BY <1>3, <1>4, <1>5

\* A descriptor is closed: nobody gets anything.
LEMMA ClosedCopies ==
  ASSUME IInv, NEW c \in Client, NEW n \in Num,
         fd' = [fd EXCEPT ![c][n] = None], opened' = [opened EXCEPT ![c][n] = None]
  PROVE  /\ OnlyCopies
         /\ fd' \in [Client -> [Num -> Entry \cup {None}]]
         /\ opened' \in [Client -> [Num -> [gen : Gen, file : FileName] \cup {None}]]
         /\ \A d \in Client \ {c} : fd'[d] = fd[d]
<1>1. /\ fd \in [Client -> [Num -> Entry \cup {None}]]
      /\ opened \in [Client -> [Num -> [gen : Gen, file : FileName] \cup {None}]]
  BY DEF IInv, TypeOK
<1>2. /\ fd' \in [Client -> [Num -> Entry \cup {None}]]
      /\ \A d \in Client, k \in Num : fd'[d][k] = IF d = c /\ k = n THEN None ELSE fd[d][k]
      /\ \A d \in Client \ {c} : fd'[d] = fd[d]
  BY <1>1
<1>3. /\ opened' \in [Client -> [Num -> [gen : Gen, file : FileName] \cup {None}]]
      /\ \A d \in Client, k \in Num :
           opened'[d][k] = IF d = c /\ k = n THEN None ELSE opened[d][k]
  BY <1>1
<1>4. OnlyCopies
  BY <1>2, <1>3 DEF OnlyCopies
<1> QED
  BY <1>2, <1>3, <1>4
\* dup() copies a descriptor, or calls fsipc to close the target first.
LEMMA DupKeeps ==
  ASSUME IInv, NEW c \in Client, NEW old \in Num, NEW new \in Num, CallDup(c, old, new)
  PROVE  IInv'
<1>1. CASE fd[c][new] = None
  <2>1. /\ Copy(c, new, c, old) /\ UNCHANGED <<table, cow, at, srv>> /\ at[c].pc = "run"
    BY <1>1 DEF CallDup, Running
  <2>2. /\ OnlyCopies
        /\ fd' \in [Client -> [Num -> Entry \cup {None}]]
        /\ opened' \in [Client -> [Num -> [gen : Gen, file : FileName] \cup {None}]]
        /\ \A d \in Client \ {c} : fd'[d] = fd[d]
    BY <2>1, CopyCopies
  <2>3. TypeOK'
    BY <2>1, <2>2 DEF IInv, TypeOK, table
  <2>4. Alone(c) /\ ~ Waits(c)'
    BY <2>1, <2>2 DEF Alone, Waits
  <2>5. RequestsOK'
    BY <2>1, <2>4, OthersWait DEF IInv, table
  <2>6. ClientStep
    BY <2>1, <2>2 DEF ClientStep, Patient, SameRequest
  <2> QED
    BY <2>3, <2>5, <2>6, ClientStepKeeps DEF IInv
<1>2. CASE fd[c][new] # None
  <2>1. PICK id : id = Id(c, new)
    OBVIOUS
  <2>2. PICK job : job = [Idle EXCEPT !.pc = "send", !.op = "flush", !.num = new,
                                      !.id = id, !.src = old]
    OBVIOUS
  <2>3. Request(c, job) /\ at[c].pc = "run"
    BY <1>2, <2>1, <2>2 DEF CallDup, Running
  <2>4. fd[c][new] \in Entry /\ id = <<fd[c][new], gen[fd[c][new]]>>
    BY <1>2, <2>1 DEF IInv, TypeOK, AllStable, Stable, Id
  <2>5. id \in (Entry \X (Gen \cup {None})) \cup {None}
    BY <2>4 DEF IInv, TypeOK
  <2>6. job \in Job /\ job.pc = "send" /\ job.op = "flush" /\ job.num = new /\ job.id = id
    BY <2>2, <2>5, IdleIsJob DEF Job
  <2> QED
    BY <2>3, <2>4, <2>6, RequestKeeps
<1> QED
  BY <1>1, <1>2

\* A client goes on in the same request.
LEMMA GotoGoes ==
  ASSUME IInv, NEW c \in Client, NEW pc \in {"run", "sent", "recv", "done"}, Goto(c, pc)
  PROVE  /\ at' \in [Client -> Job] /\ at'[c].pc = pc /\ SameRequest(at'[c], at[c])
         /\ \A d \in Client \ {c} : at'[d] = at[d]
<1>1. at \in [Client -> Job] /\ at' = [at EXCEPT ![c] = [at[c] EXCEPT !.pc = pc]]
  BY DEF IInv, TypeOK, Goto
<1>2. PICK job : job = [at[c] EXCEPT !.pc = pc]
  OBVIOUS
<1>3. at[c] \in Job
  BY <1>1
<1>4. /\ job.pc = pc /\ job.op = at[c].op /\ job.num = at[c].num
      /\ job.name = at[c].name /\ job.id = at[c].id
  BY <1>2, <1>3 DEF Job
<1>5. job \in Job
  BY <1>2, <1>3 DEF Job
<1>6. at' \in [Client -> Job] /\ at'[c] = job /\ \A d \in Client \ {c} : at'[d] = at[d]
  BY <1>1, <1>2, <1>5
<1> QED
  BY <1>4, <1>6 DEF SameRequest

\* A child has what its parent has.
LEMMA ForkKeeps ==
  ASSUME IInv, NEW c \in Client, NEW d \in Client, NEW spawned \in BOOLEAN,
         CallFork(c, d, spawned)
  PROVE  IInv'
<1>1. /\ fd' = [fd EXCEPT ![d] = fd[c]] /\ opened' = [opened EXCEPT ![d] = opened[c]]
      /\ Goto(d, "run") /\ at[d].pc = "none"
      /\ UNCHANGED <<table, srv>>
      /\ cow' = IF spawned THEN cow ELSE [cow EXCEPT ![c] = TRUE, ![d] = TRUE]
  BY DEF CallFork
<1>2. cow' \in [Client -> BOOLEAN]
  BY <1>1 DEF IInv, TypeOK
<1>3. at' \in [Client -> Job] /\ at'[d].pc = "run" /\ \A f \in Client \ {d} : at'[f] = at[f]
  BY <1>1, GotoGoes
<1>4. TypeOK'
  BY <1>1, <1>2, <1>3 DEF IInv, TypeOK, table
<1>5. \A f \in Client, n \in Num :
        \E g \in Client : fd'[f][n] = fd[g][n] /\ opened'[f][n] = opened[g][n]
  BY <1>1 DEF IInv, TypeOK
<1>6. OnlyCopies
  BY <1>5 DEF OnlyCopies
<1>7. Alone(d) /\ ~ Waits(d)'
  BY <1>1, <1>3 DEF IInv, TypeOK, Alone, Waits
<1>8. RequestsOK'
  BY <1>1, <1>7, OthersWait DEF IInv, table
<1>9. ClientStep
  BY <1>1, <1>3, <1>6 DEF ClientStep, Patient, SameRequest
<1> QED
  BY <1>4, <1>8, <1>9, ClientStepKeeps DEF IInv

\* The client is ready for the answer.
LEMMA RecvKeeps ==
  ASSUME IInv, NEW c \in Client, CallRecv(c)
  PROVE  IInv'
<1>1. Goto(c, "recv") /\ at[c].pc = "sent" /\ UNCHANGED <<table, fd, cow, srv, opened>>
  BY DEF CallRecv
<1>2. /\ at' \in [Client -> Job] /\ at'[c].pc = "recv" /\ SameRequest(at'[c], at[c])
      /\ Alone(c)
  BY <1>1, GotoGoes DEF Alone
<1>3. TypeOK'
  BY <1>1, <1>2 DEF IInv, TypeOK, table
<1>4. Waits(c) /\ RequestOK(c)
  BY <1>1 DEF IInv, Waits, RequestsOK
<1>5. RequestOK(c)'
  BY <1>1, <1>2, <1>4 DEF RequestOK, SameRequest, table
<1>6. RequestsOK'
  BY <1>1, <1>2, <1>5, OthersWait DEF IInv, table
<1>7. Patient
  BY <1>1, <1>2 DEF Alone, Patient, SameRequest
<1>8. ClientStep
  BY <1>1, <1>7, NothingCopied DEF ClientStep
<1> QED
  BY <1>3, <1>6, <1>8, ClientStepKeeps DEF IInv

\* close unmaps the page, dup goes on with it; others do nothing more.
LEMMA ReturnKeeps ==
  ASSUME IInv, NEW c \in Client, Return(c)
  PROVE  IInv'
<1>1. /\ at[c].pc = "done" /\ at' = [at EXCEPT ![c] = Idle] /\ UNCHANGED <<table, cow, srv>>
  BY DEF Return
<1>2. /\ OnlyCopies
      /\ fd' \in [Client -> [Num -> Entry \cup {None}]]
      /\ opened' \in [Client -> [Num -> [gen : Gen, file : FileName] \cup {None}]]
      /\ \A d \in Client \ {c} : fd'[d] = fd[d]
  <2>1. CASE at[c].op = "flush"
    <3>1. at[c].num \in Num
      BY <1>1, <2>1 DEF IInv, RequestsOK, Waits, RequestOK
    <3>2. CASE at[c].src \in Num \ {at[c].num}
      BY <2>1, <3>1, <3>2, CopyCopies DEF Return
    <3>3. CASE at[c].src \notin Num \ {at[c].num}
      BY <2>1, <3>1, <3>3, ClosedCopies DEF Return
    <3> QED
      BY <3>2, <3>3
  <2>2. CASE at[c].op # "flush"
    <3>1. UNCHANGED <<fd, opened>>
      BY <2>2 DEF Return
    <3> QED
      BY <3>1, NothingCopied DEF IInv, TypeOK
  <2> QED
    BY <2>1, <2>2
<1>3. at' \in [Client -> Job] /\ at'[c] = Idle /\ Alone(c)
  BY <1>1, <1>2, IdleIsJob DEF IInv, TypeOK, Alone
<1>4. TypeOK'
  BY <1>1, <1>2, <1>3 DEF IInv, TypeOK, table
<1>5. RequestsOK'
  BY <1>1, <1>3, OthersWait DEF IInv, Waits, Idle, table
<1>6. Patient
  BY <1>1, <1>3 DEF Alone, Patient, SameRequest
<1>7. ClientStep
  BY <1>1, <1>2, <1>6 DEF ClientStep
<1> QED
  BY <1>4, <1>5, <1>7, ClientStepKeeps DEF IInv

\* The kernel unmaps the pages of a dead client; the server is not told.
LEMMA DieKeeps ==
  ASSUME IInv, NEW c \in Client, Die(c)
  PROVE  IInv'
<1>1. /\ fd' = [fd EXCEPT ![c] = [n \in Num |-> None]]
      /\ opened' = [opened EXCEPT ![c] = [n \in Num |-> None]]
      /\ at' = [at EXCEPT ![c] = [Idle EXCEPT !.pc = "dead"]]
      /\ UNCHANGED <<table, cow, srv>>
  BY DEF Die
<1>2. [Idle EXCEPT !.pc = "dead"] \in Job /\ [Idle EXCEPT !.pc = "dead"].pc = "dead"
  BY DEF Idle, Job
<1>3. at' \in [Client -> Job] /\ at'[c].pc = "dead" /\ \A d \in Client \ {c} : at'[d] = at[d]
  BY <1>1, <1>2 DEF IInv, TypeOK
<1>4. /\ fd' \in [Client -> [Num -> Entry \cup {None}]]
      /\ opened' \in [Client -> [Num -> [gen : Gen, file : FileName] \cup {None}]]
      /\ \A n \in Num : fd'[c][n] = None
      /\ \A d \in Client \ {c} : fd'[d] = fd[d] /\ opened'[d] = opened[d]
  BY <1>1 DEF IInv, TypeOK
<1>5. TypeOK'
  BY <1>1, <1>3, <1>4 DEF IInv, TypeOK, table
<1>6. OnlyCopies
  BY <1>4 DEF OnlyCopies
<1>7. Alone(c) /\ ~ Waits(c)'
  BY <1>3, <1>4 DEF Alone, Waits
<1>8. RequestsOK'
  BY <1>1, <1>7, OthersWait DEF IInv, table
<1>9. ClientStep
  BY <1>1, <1>3, <1>6 DEF ClientStep, Patient, SameRequest
<1> QED
  BY <1>5, <1>8, <1>9, ClientStepKeeps DEF IInv
-----------------------------------------------------------------------------
(* The steps of the server *)

\* A reference count of 2 says that some client has the page, and no other
\* says it: who has a page has one the server allocated.
LEMMA PagerefTells ==
  ASSUME IInv, NEW e \in Entry
  PROVE  /\ Pageref(e) = 2 <=> Mapped(e)
         /\ IsOpen(e) <=> Mapped(e)
         /\ Pageref(e) > 1 <=> Mapped(e)
<1>1. Pageref(e) \in {0, 1, 2}
  BY DEF Pageref
<1>2. Mapped(e) => e \in alloc
  BY NoneIsNoEntry DEF IInv, AllStable, Stable, Mapped
<1>3. Pageref(e) = 2 <=> Mapped(e)
  BY <1>2 DEF Pageref, Mapped
<1> QED
  BY <1>1, <1>3 DEF IsOpen

\* The server takes a request: whether every entry is open now is what full
\* remembers.
LEMMA AcceptKeeps ==
  ASSUME IInv, NEW c \in Client, Accept(c)
  PROVE  IInv'
<1>1. /\ at[c].pc = "send" /\ srv.pc = "recv" /\ Goto(c, "sent")
      /\ UNCHANGED <<table, cow, fd, opened>>
  BY DEF Accept
<1>2. /\ srv'.pc = IF at[c].op = "open" THEN "scan" ELSE "handle"
      /\ srv'.client = c /\ srv'.job = at[c] /\ srv'.i = 0 /\ srv'.r = "ok"
      /\ srv'.full = \A e \in Entry : Pageref(e) = 2
  BY DEF Accept, Waiting
<1>3. /\ at' \in [Client -> Job] /\ at'[c].pc = "sent" /\ SameRequest(at'[c], at[c])
      /\ \A d \in Client \ {c} : at'[d] = at[d]
  BY <1>1, GotoGoes
<1>4. RequestOK(c) /\ at[c] \in Job
  BY <1>1 DEF IInv, TypeOK, RequestsOK, Waits
<1>5. TypeOK'
  <2>1. 0 \in Entry
    BY ServAssumption DEF Entry
  <2>2. (\A e \in Entry : Pageref(e) = 2) \in BOOLEAN
    OBVIOUS
  <2>3. srv' \in [pc : {"recv", "scan", "open", "handle", "reply", "panic"},
                  client : Client \cup {None}, job : Job, i : Entry,
                  r : {"ok", "failed", "inval", "max_open", "no_mem"}, full : BOOLEAN]
    BY <1>4, <2>1, <2>2 DEF Accept, Waiting
  <2> QED
    BY <1>1, <1>3, <2>3 DEF IInv, TypeOK, table
<1>6. AllStable'
  BY <1>1 DEF IInv, AllStable, Stable, table
<1>7. RequestsOK'
  <2>1. RequestOK(c)'
    BY <1>1, <1>3, <1>4 DEF RequestOK, SameRequest, table
  <2> QED
    BY <1>1, <1>3, <2>1, OthersWait DEF IInv, Alone, table
<1>8. ServesOne'
  BY <1>2, <1>3 DEF ServesOne, SameRequest
<1>9. RightHandler' /\ Opening' /\ Refused'
  BY <1>2, <1>4 DEF RightHandler, Opening, Refused, RequestOK
<1>10. Looking'
  <2>1. ASSUME ~ srv'.full PROVE FreeAhead'
    <3>1. PICK e \in Entry : Pageref(e) # 2
      BY <1>2, <2>1
    <3>2. ~ Mapped(e)'
      BY <1>1, <3>1, PagerefTells DEF Mapped
    <3> QED
      BY <1>2, <3>2 DEF FreeAhead, Entry
  <2> QED
    BY <1>2, <2>1 DEF Looking
<1> QED
  BY <1>5, <1>6, <1>7, <1>8, <1>9, <1>10 DEF IInv

\* Steps that change srv alone: what says nothing of it holds on.
LEMMA SrvAlone ==
  ASSUME IInv, UNCHANGED <<table, fd, cow, at, opened>>
  PROVE  AllStable' /\ RequestsOK'
BY DEF IInv, AllStable, Stable, RequestsOK, RequestOK, Waits, table

\* The answer is what a step sets; all else of srv stays.
LEMMA AnswerIs ==
  ASSUME IInv, NEW r \in {"ok", "failed", "inval", "max_open", "no_mem"}, Answer(r)
  PROVE  /\ srv'.pc = "reply" /\ srv'.r = r
         /\ srv'.client = srv.client /\ srv'.job = srv.job
         /\ srv'.i = srv.i /\ srv'.full = srv.full
         /\ srv' \in [pc : {"recv", "scan", "open", "handle", "reply", "panic"},
                      client : Client \cup {None}, job : Job, i : Entry,
                      r : {"ok", "failed", "inval", "max_open", "no_mem"}, full : BOOLEAN]
BY DEF IInv, TypeOK, Answer

\* The server panics, over a client that panics or one that is dead.
LEMMA PanicKeeps ==
  ASSUME IInv, srv' = [srv EXCEPT !.pc = "panic"], UNCHANGED <<table, fd, cow, at, opened>>
  PROVE  IInv'
<1>1. /\ srv'.pc = "panic" /\ srv'.r = srv.r /\ srv'.client = srv.client
      /\ srv'.full = srv.full
  BY DEF IInv, TypeOK
<1>2. TypeOK'
  BY DEF IInv, TypeOK, table
<1> QED
  BY <1>1, <1>2, SrvAlone
     DEF IInv, ServesOne, Busy, RightHandler, Opening, Refused, Looking

\* openfile_alloc looks at the next entry, takes this one, or gives up.
LEMMA OpenfileAllocKeeps ==
  ASSUME IInv, OpenfileAlloc
  PROVE  IInv'
<1>1. srv.pc = "scan" /\ UNCHANGED <<file, fd, cow, at, opened>> /\ srv.i \in Entry
  BY DEF OpenfileAlloc, IInv, TypeOK
<1>2. /\ srv.job.op = "open" /\ srv.job.name \in FileName /\ srv.r = "ok"
      /\ ~ srv.full => FreeAhead
  BY <1>1 DEF IInv, RightHandler, Looking
<1>3. CASE IsOpen(srv.i) /\ MoreEntries
  <2>1. /\ srv' = [srv EXCEPT !.i = srv.i + 1] /\ UNCHANGED <<gen, alloc, fdid>>
    BY <1>3 DEF OpenfileAlloc
  <2>2. srv.i + 1 \in Entry
    BY <1>1, <1>3, ServAssumption DEF MoreEntries, Entry
  <2>3. /\ srv'.pc = "scan" /\ srv'.client = srv.client /\ srv'.job = srv.job
        /\ srv'.i = srv.i + 1 /\ srv'.r = "ok" /\ srv'.full = srv.full
    BY <1>1, <1>2, <2>1 DEF IInv, TypeOK
  <2>4. TypeOK'
    BY <1>1, <2>1, <2>2 DEF IInv, TypeOK, table
  <2>5. AllStable' /\ RequestsOK'
    BY <1>1, <2>1, SrvAlone DEF table
  <2>6. ServesOne'
    BY <1>1, <2>3 DEF IInv, ServesOne, Busy
  <2>7. RightHandler' /\ Opening' /\ Refused'
    BY <1>2, <2>3 DEF RightHandler, Opening, Refused
  <2>8. Mapped(srv.i)
    BY <1>1, <1>3, PagerefTells
  <2>9. FreeAhead => FreeAhead'
    BY <1>1, <2>3, <2>8, ServAssumption DEF FreeAhead, Mapped, Entry
  <2>10. Looking'
    BY <1>2, <2>3, <2>9 DEF Looking
  <2> QED
    BY <2>4, <2>5, <2>6, <2>7, <2>10 DEF IInv
<1>4. CASE IsOpen(srv.i) /\ ~ MoreEntries
  <2>1. Answer("max_open") /\ UNCHANGED <<gen, alloc, fdid>>
    BY <1>4 DEF OpenfileAlloc
  <2>2. /\ srv'.pc = "reply" /\ srv'.r = "max_open" /\ srv'.client = srv.client
        /\ srv'.job = srv.job /\ srv'.full = srv.full
    BY <2>1, AnswerIs
  <2>3. TypeOK'
    BY <1>1, <2>1, AnswerIs DEF IInv, TypeOK, table
  <2>4. AllStable' /\ RequestsOK'
    BY <1>1, <2>1, SrvAlone DEF table
  <2>5. ServesOne'
    BY <1>1, <2>2 DEF IInv, ServesOne, Busy
  <2>6. RightHandler' /\ Opening' /\ Refused'
    BY <1>2, <2>2 DEF RightHandler, Opening, Refused
  <2>7. ~ FreeAhead
    <3>1. Mapped(srv.i) /\ srv.i = MaxOpen - 1
      BY <1>1, <1>4, PagerefTells, ServAssumption DEF MoreEntries, Entry
    <3> QED
      BY <3>1, ServAssumption DEF FreeAhead
  <2>8. Looking'
    BY <1>2, <2>2, <2>7 DEF Looking
  <2> QED
    BY <2>3, <2>4, <2>5, <2>6, <2>8 DEF IInv
<1>5. CASE ~ IsOpen(srv.i) /\ srv' = [srv EXCEPT !.pc = "open"]
  <2>1. /\ alloc' = alloc \cup {srv.i}
        /\ gen' = [gen EXCEPT ![srv.i] = (gen[srv.i] + 1) % Gens]
        /\ fdid' = [fdid EXCEPT ![srv.i] = None]
    <3>1. ~ Answer("no_mem")
      BY <1>5 DEF IInv, TypeOK, Answer
    <3> QED
      BY <1>5, <3>1 DEF OpenfileAlloc
  <2>2. /\ srv'.pc = "open" /\ srv'.client = srv.client /\ srv'.job = srv.job
        /\ srv'.i = srv.i /\ srv'.r = "ok" /\ srv'.full = srv.full
    BY <1>2, <1>5 DEF IInv, TypeOK
  <2>3. (gen[srv.i] + 1) % Gens \in Gen
    BY <1>1, ServAssumption DEF IInv, TypeOK, Gen
  <2>4. /\ gen' \in [Entry -> Gen] /\ fdid' \in [Entry -> Gen \cup {None}]
        /\ \A e \in Entry \ {srv.i} : gen'[e] = gen[e] /\ fdid'[e] = fdid[e]
    BY <1>1, <2>1, <2>3 DEF IInv, TypeOK
  <2>5. TypeOK'
    BY <1>1, <1>5, <2>1, <2>4 DEF IInv, TypeOK
  <2>6. ~ Mapped(srv.i)
    BY <1>1, <1>5, PagerefTells
  <2>7. AllStable'
    <3> SUFFICES ASSUME NEW c \in Client, NEW n \in Num, fd[c][n] # None
                 PROVE  Stable(c, n)'
      BY <1>1 DEF AllStable, Stable
    <3>1. Stable(c, n) /\ fd[c][n] \in Entry \ {srv.i}
      BY <2>6 DEF IInv, TypeOK, AllStable, Mapped
    <3> QED
      BY <1>1, <2>1, <2>4, <3>1 DEF Stable
  <2>8. RequestsOK'
    <3> SUFFICES ASSUME NEW c \in Client, Waits(c)
                 PROVE  RequestOK(c)'
      BY <1>1 DEF RequestsOK, Waits
    <3>1. RequestOK(c)
      BY DEF IInv, RequestsOK
    <3> QED
      BY <1>1, <2>4, <2>6, <3>1 DEF RequestOK, Mapped
  <2>9. ServesOne'
    BY <1>1, <2>2 DEF IInv, ServesOne, Busy
  <2>10. Opening'
    BY <1>1, <2>1, <2>2, <2>6 DEF Opening, Mapped
  <2>11. RightHandler' /\ Refused' /\ Looking'
    BY <1>2, <2>2 DEF RightHandler, Refused, Looking
  <2> QED
    BY <2>5, <2>7, <2>8, <2>9, <2>10, <2>11 DEF IInv
<1>6. CASE Answer("no_mem") /\ UNCHANGED <<gen, alloc, fdid>>
  <2>1. /\ srv'.pc = "reply" /\ srv'.r = "no_mem" /\ srv'.client = srv.client
        /\ srv'.job = srv.job /\ srv'.full = srv.full
    BY <1>6, AnswerIs
  <2>2. TypeOK'
    BY <1>1, <1>6, AnswerIs DEF IInv, TypeOK, table
  <2>3. AllStable' /\ RequestsOK'
    BY <1>1, <1>6, SrvAlone DEF table
  <2>4. ServesOne'
    BY <1>1, <2>1 DEF IInv, ServesOne, Busy
  <2> QED
    BY <2>1, <2>2, <2>3, <2>4 DEF IInv, RightHandler, Opening, Refused, Looking
<1> QED
  BY <1>3, <1>4, <1>5, <1>6 DEF OpenfileAlloc
\* serve_open fills the entry in; nobody has it yet.
LEMMA ServeOpenKeeps ==
  ASSUME IInv, ServeOpen
  PROVE  IInv'
<1>1. /\ srv.pc = "open" /\ UNCHANGED <<gen, alloc, fd, cow, at, opened>>
      /\ srv.i \in Entry /\ srv.i \in alloc /\ ~ Mapped(srv.i)
      /\ srv.job.op = "open" /\ srv.job.name \in FileName
  BY DEF ServeOpen, IInv, TypeOK, Opening, RightHandler
<1>2. PICK r \in {"ok", "failed"} :
        /\ Answer(r)
        /\ IF r = "ok"
           THEN /\ file' = [file EXCEPT ![srv.i] = srv.job.name]
                /\ fdid' = [fdid EXCEPT ![srv.i] = gen[srv.i]]
           ELSE UNCHANGED <<file, fdid>>
  BY DEF ServeOpen
<1>3. /\ file' \in [Entry -> FileName \cup {None}] /\ fdid' \in [Entry -> Gen \cup {None}]
      /\ \A e \in Entry \ {srv.i} : file'[e] = file[e] /\ fdid'[e] = fdid[e]
      /\ r = "ok" => fdid'[srv.i] = gen[srv.i] /\ file'[srv.i] = srv.job.name
  BY <1>1, <1>2 DEF IInv, TypeOK
<1>4. /\ srv'.pc = "reply" /\ srv'.r = r /\ srv'.client = srv.client
      /\ srv'.job = srv.job /\ srv'.i = srv.i /\ srv'.full = srv.full
  BY <1>2, AnswerIs
<1>5. TypeOK'
  BY <1>1, <1>2, <1>3, AnswerIs DEF IInv, TypeOK
<1>6. AllStable'
  <2> SUFFICES ASSUME NEW c \in Client, NEW n \in Num, fd[c][n] # None
               PROVE  Stable(c, n)'
    BY <1>1 DEF AllStable, Stable
  <2>1. Stable(c, n) /\ fd[c][n] \in Entry \ {srv.i}
    BY <1>1 DEF IInv, TypeOK, AllStable, Mapped
  <2> QED
    BY <1>1, <1>3, <2>1 DEF Stable
<1>7. RequestsOK'
  BY <1>1 DEF IInv, RequestsOK, RequestOK, Waits
<1>8. ServesOne'
  BY <1>1, <1>4 DEF IInv, ServesOne, Busy
<1>9. Opening'
  BY <1>1, <1>3, <1>4 DEF Opening, Mapped
<1>10. RightHandler' /\ Refused' /\ Looking'
  BY <1>4 DEF RightHandler, Refused, Looking
<1> QED
  BY <1>5, <1>6, <1>7, <1>8, <1>9, <1>10 DEF IInv

\* openfile_lookup finds what a client that is alive has asked for: the
\* client's own mapping keeps the count above 1, and the entry from being
\* given to another.
LEMMA LookupFinds ==
  ASSUME IInv, srv.pc = "handle", srv.job.op # "sync", at[srv.client].pc # "dead",
         srv.job.op \in {"file", "flush"}
  PROVE  OpenfileLookup(srv.job.id)
<1>1. /\ srv.client \in Client /\ at[srv.client].pc \in {"sent", "recv"}
      /\ SameRequest(at[srv.client], srv.job)
  BY DEF IInv, ServesOne, Busy
<1>2. RequestOK(srv.client)
  BY <1>1 DEF IInv, RequestsOK, Waits
<1>3. PICK n \in Num : /\ fd[srv.client][n] \in Entry
                      /\ srv.job.id = <<fd[srv.client][n], gen[fd[srv.client][n]]>>
  BY <1>1, <1>2 DEF RequestOK, SameRequest
<1>4. Pageref(fd[srv.client][n]) > 1
  BY <1>1, <1>3, PagerefTells DEF Mapped
<1> QED
  BY <1>3, <1>4 DEF OpenfileLookup

\* The handlers that are not serve_open change nothing the server keeps.
LEMMA HandleKeeps ==
  ASSUME IInv, Handle
  PROVE  IInv'
<1>1. /\ srv.pc = "handle" /\ UNCHANGED <<table, fd, cow, at, opened>>
      /\ srv.job.op # "open" /\ srv.r = "ok" /\ srv.client \in Client
  BY DEF Handle, IInv, RightHandler, ServesOne, Busy
<1>2. PICK r \in {"ok", "failed", "inval"} :
        /\ Answer(r)
        /\ r = "inval" => srv.job.op # "sync" /\ ~ OpenfileLookup(srv.job.id)
  BY DEF Handle
<1>3. /\ srv'.pc = "reply" /\ srv'.r = r /\ srv'.client = srv.client /\ srv'.job = srv.job
  BY <1>2, AnswerIs
<1>4. TypeOK'
  BY <1>1, <1>2, AnswerIs DEF IInv, TypeOK, table
<1>5. ServesOne'
  BY <1>1, <1>3 DEF IInv, ServesOne, Busy
<1>6. Refused'
  <2> SUFFICES ASSUME r = "inval", at[srv.client].pc # "dead" PROVE FALSE
    BY <1>1, <1>3 DEF Refused
  <2>1. SameRequest(at[srv.client], srv.job) /\ RequestOK(srv.client)
    BY <1>1 DEF IInv, ServesOne, Busy, Waits, RequestsOK
  <2>2. srv.job.op \in {"none", "open", "file", "flush", "sync"}
    BY DEF IInv, TypeOK, Job
  <2>3. srv.job.op \in {"file", "flush"}
    BY <1>1, <1>2, <2>1, <2>2 DEF SameRequest, RequestOK
  <2> QED
    BY <1>1, <1>2, <2>3, LookupFinds
<1> QED
  BY <1>1, <1>3, <1>4, <1>5, <1>6, SrvAlone DEF IInv, RightHandler, Opening, Looking
\* The answer of a successful open maps an entry that was nobody's, for the
\* file the client has asked for.
LEMMA DeliverKeeps ==
  ASSUME IInv, NEW c \in Client, Deliver(c)
  PROVE  IInv'
<1>1. /\ srv.pc = "reply" /\ srv.client = c /\ at[c].pc = "recv"
      /\ Goto(c, "done") /\ srv' = Waiting /\ UNCHANGED <<table, cow>>
  BY DEF Deliver
<1>2. RequestOK(c) /\ SameRequest(at[c], srv.job)
  BY <1>1 DEF IInv, RequestsOK, Waits, ServesOne, Busy
<1>3. /\ at' \in [Client -> Job] /\ at'[c].pc = "done" /\ SameRequest(at'[c], at[c])
      /\ \A d \in Client \ {c} : at'[d] = at[d]
  BY <1>1, GotoGoes
<1>4. /\ srv'.pc = "recv" /\ srv'.r = "ok"
      /\ srv' \in [pc : {"recv", "scan", "open", "handle", "reply", "panic"},
                   client : Client \cup {None}, job : Job, i : Entry,
                   r : {"ok", "failed", "inval", "max_open", "no_mem"}, full : BOOLEAN]
  <2>1. 0 \in Entry
    BY ServAssumption DEF Entry
  <2> QED
    BY <1>1, <2>1, IdleIsJob DEF Waiting
<1>5. ServesOne' /\ RightHandler' /\ Opening' /\ Refused' /\ Looking'
  BY <1>4 DEF ServesOne, Busy, RightHandler, Opening, Refused, Looking
<1>6. CASE srv.job.op = "open" /\ srv.r = "ok"
  <2> DEFINE k == at[c].num
             new == [gen |-> gen[srv.i], file |-> at[c].name]
  <2>1. /\ k \in Num /\ at[c].name \in FileName /\ at[c].op = "open"
        /\ at[c].name = srv.job.name
    BY <1>2, <1>6 DEF RequestOK, SameRequest
  <2>2. /\ srv.i \in Entry /\ srv.i \in alloc
        /\ fdid[srv.i] = gen[srv.i] /\ file[srv.i] = srv.job.name
    BY <1>1, <1>6 DEF IInv, TypeOK, Opening
  <2>3. new \in [gen : Gen, file : FileName]
    BY <2>1, <2>2 DEF IInv, TypeOK
  <2>4. fd' = [fd EXCEPT ![c][k] = srv.i] /\ opened' = [opened EXCEPT ![c][k] = new]
    BY <1>6 DEF Deliver
  <2>5. new.gen = gen[srv.i] /\ new.file = srv.job.name
    BY <2>1
  <2> HIDE DEF k, new
  <2>6. /\ fd' \in [Client -> [Num -> Entry \cup {None}]]
        /\ \A d \in Client, n \in Num :
             fd'[d][n] = IF d = c /\ n = k THEN srv.i ELSE fd[d][n]
        /\ \A d \in Client \ {c} : fd'[d] = fd[d]
    BY <2>1, <2>2, <2>4 DEF IInv, TypeOK
  <2>7. /\ opened' \in [Client -> [Num -> [gen : Gen, file : FileName] \cup {None}]]
        /\ \A d \in Client, n \in Num :
             opened'[d][n] = IF d = c /\ n = k THEN new ELSE opened[d][n]
    BY <2>1, <2>3, <2>4 DEF IInv, TypeOK
  <2>8. TypeOK'
    BY <1>1, <1>3, <1>4, <2>6, <2>7 DEF IInv, TypeOK, table
  <2>9. AllStable'
    <3> SUFFICES ASSUME NEW d \in Client, NEW n \in Num, fd'[d][n] # None
                 PROVE  Stable(d, n)'
      BY DEF AllStable, Stable
    <3>1. CASE d = c /\ n = k
      BY <1>1, <2>2, <2>3, <2>5, <2>6, <2>7, <3>1 DEF Stable, table
    <3>2. CASE ~ (d = c /\ n = k)
      BY <1>1, <2>6, <2>7, <3>2 DEF IInv, AllStable, Stable, table
    <3> QED
      BY <3>1, <3>2
  <2>10. RequestsOK'
    <3>1. RequestOK(c)'
      BY <1>2, <1>3, <2>1 DEF RequestOK, SameRequest
    <3> QED
      BY <1>1, <1>3, <2>6, <3>1, OthersWait DEF IInv, Alone, table
  <2> QED
    BY <1>5, <2>8, <2>9, <2>10 DEF IInv
<1>7. CASE ~ (srv.job.op = "open" /\ srv.r = "ok")
  <2>1. UNCHANGED <<fd, opened>>
    BY <1>7 DEF Deliver
  <2>2. TypeOK'
    BY <1>1, <1>3, <1>4, <2>1 DEF IInv, TypeOK, table
  <2>3. AllStable'
    BY <1>1, <2>1 DEF IInv, AllStable, Stable, table
  <2>4. RequestOK(c)'
    BY <1>1, <1>2, <1>3, <2>1 DEF RequestOK, SameRequest, table
  <2>5. RequestsOK'
    BY <1>1, <1>3, <2>1, <2>4, OthersWait DEF IInv, Alone, table
  <2> QED
    BY <1>5, <2>2, <2>3, <2>5 DEF IInv
<1> QED
  BY <1>6, <1>7

-----------------------------------------------------------------------------
(* The theorems *)

\* At the start nothing is open and nobody waits.
LEMMA InitIInv == Init => IInv
<1> SUFFICES ASSUME Init PROVE IInv
  OBVIOUS
<1>1. 0 \in Gen /\ 0 \in Entry
  BY ServAssumption DEF Gen, Entry
<1>2. \A c \in Client : at[c] \in Job /\ at[c].pc \in {"run", "none"}
  BY DEF Init, Idle, Job
<1>3. at \in [Client -> Job]
  BY <1>2 DEF Init
<1>4. /\ srv.pc = "recv" /\ srv.r = "ok"
      /\ srv \in [pc : {"recv", "scan", "open", "handle", "reply", "panic"},
                  client : Client \cup {None}, job : Job, i : Entry,
                  r : {"ok", "failed", "inval", "max_open", "no_mem"}, full : BOOLEAN]
  BY <1>1, IdleIsJob DEF Init, Waiting
<1>5. TypeOK
  BY <1>1, <1>3, <1>4 DEF Init, TypeOK
<1>6. AllStable
  BY DEF Init, AllStable, Stable
<1>7. RequestsOK
  BY <1>2 DEF RequestsOK, Waits
<1>8. ServesOne /\ RightHandler /\ Opening /\ Refused /\ Looking
  BY <1>4 DEF ServesOne, Busy, RightHandler, Opening, Refused, Looking
<1> QED
  BY <1>5, <1>6, <1>7, <1>8 DEF IInv

\* One case per action of Clients and Server.
LEMMA NextIInv == IInv /\ [Next]_vars => IInv'
<1> SUFFICES ASSUME IInv, [Next]_vars PROVE IInv'
  OBVIOUS
<1>1. CASE UNCHANGED vars
  BY <1>1 DEF vars, IInv, TypeOK, AllStable, Stable, RequestsOK, RequestOK, Waits,
     ServesOne, Busy, RightHandler, Opening, Refused, Looking, FreeAhead, Mapped
<1>2. ASSUME NEW c \in Client, NEW name \in FileName, CallOpen(c, name) PROVE IInv'
  BY <1>2, CallsKeep
<1>3. ASSUME NEW c \in Client, NEW n \in Num, NEW op \in {"file", "flush"}, Call(c, n, op)
      PROVE  IInv'
  BY <1>3, CallsKeep
<1>4. ASSUME NEW c \in Client, CallSync(c) PROVE IInv'
  BY <1>4, CallsKeep
<1>5. ASSUME NEW c \in Client, NEW old \in Num, NEW new \in Num, CallDup(c, old, new)
      PROVE  IInv'
  BY <1>5, DupKeeps
<1>6. ASSUME NEW c \in Client, NEW d \in Client, NEW spawned \in BOOLEAN,
             CallFork(c, d, spawned)
      PROVE  IInv'
  BY <1>6, ForkKeeps
<1>7. ASSUME NEW c \in Client, CallRecv(c) PROVE IInv'
  BY <1>7, RecvKeeps
<1>8. ASSUME NEW c \in Client, Return(c) PROVE IInv'
  BY <1>8, ReturnKeeps
<1>9. ASSUME NEW c \in Client, Accept(c) PROVE IInv'
  BY <1>9, AcceptKeeps
<1>10. ASSUME NEW c \in Client, SendPanics(c) PROVE IInv'
  BY <1>10, PanicKeeps DEF SendPanics
<1>11. ASSUME NEW c \in Client, Die(c) PROVE IInv'
  BY <1>11, DieKeeps
<1>12. CASE OpenfileAlloc
  BY <1>12, OpenfileAllocKeeps
<1>13. CASE ServeOpen
  BY <1>13, ServeOpenKeeps
<1>14. CASE Handle
  BY <1>14, HandleKeeps
<1>15. ASSUME NEW c \in Client, Deliver(c) PROVE IInv'
  BY <1>15, DeliverKeeps
<1>16. ASSUME NEW c \in Client, NotReceiving(c) PROVE IInv'
  BY <1>1, <1>16 DEF NotReceiving
<1>17. ASSUME NEW c \in Client, BadEnv(c) PROVE IInv'
  BY <1>17, PanicKeeps DEF BadEnv
<1>18. Clients => IInv'
  BY <1>2, <1>3, <1>4, <1>5, <1>6, <1>7, <1>8, <1>9, <1>10, <1>11 DEF Clients
<1>19. Server => IInv'
  BY <1>12, <1>13, <1>14, <1>15, <1>16, <1>17 DEF Server
<1> QED
  BY <1>1, <1>18, <1>19 DEF Next

\* The inductive invariant holds throughout.
THEOREM SpecIInv == Spec => []IInv
BY InitIInv, NextIInv, PTL DEF Spec

\* A descriptor stands for the file it was opened for as long as any program
\* has it, whoever forks, dups, closes or dies meanwhile (fs/serv.c:69-81).
THEOREM DescriptorsAreStable == Spec => []DescriptorsStable
<1>1. IInv => DescriptorsStable
  BY DEF IInv, AllStable, Stable, DescriptorsStable
<1> QED
  BY <1>1, SpecIInv, PTL

\* openfile_lookup refuses only the dead (fs/serv.c:92-96).
THEOREM OnlyTheDeadAreRefused == Spec => []RefusesOnlyTheDead
<1>1. IInv => RefusesOnlyTheDead
  BY DEF IInv, Refused, RefusesOnlyTheDead
<1> QED
  BY <1>1, SpecIInv, PTL

\* -E_MAX_OPEN means every entry was open when the request came
\* (fs/serv.c:76-80): while the loop goes on, clients may give entries back
\* but get none.
THEOREM MaxOpenMeansFull == Spec => []MaxOpenOnlyWhenFull
<1>1. IInv => MaxOpenOnlyWhenFull
  BY DEF IInv, Looking, MaxOpenOnlyWhenFull
<1> QED
  BY <1>1, SpecIInv, PTL
=============================================================================
