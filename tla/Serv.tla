--------------------------------- MODULE Serv ---------------------------------
(***************************************************************************)
(* The file server's table of open files (fs/serv.c) and the clients'      *)
(* half of it (lib/file.c, lib/fd.c): which file a descriptor stands for.  *)
(* The struct Fd of an open file is a page the server shares with every    *)
(* program that has the file open; the server frees nothing when a file is *)
(* closed, but reads the page's reference count when it wants an entry.    *)
(* Clients run, fork and are killed while the server works.                *)
(*                                                                         *)
(* What a request does to the file is module Fs. Offsets are left out.     *)
(***************************************************************************)
EXTENDS Integers

CONSTANTS
  Client,    \* ids of environments; an id is not used twice
  First,     \* the clients there are at the start
  MaxFd,     \* MAXFD
  MaxOpen,   \* MAXOPEN
  FileName,  \* the files
  Gens,      \* how often a fileid of an entry can grow before it wraps
  None

Num == 0 .. MaxFd - 1
Entry == 0 .. MaxOpen - 1
Gen == 0 .. Gens - 1

ASSUME ServAssumption ==
  /\ MaxFd \in Nat /\ MaxOpen \in Nat \ {0} /\ Gens \in Nat \ {0}
  /\ First \subseteq Client /\ First # {}
  /\ None \notin Client \cup FileName \cup Int

VARIABLES
  gen,     \* o_fileid is gen * MAXOPEN + the entry's index
  file,    \* o_file
  alloc,   \* the entries whose o_fd the server has allocated
  fdid,    \* fd_file.id in that page, as a generation; None: cleared
  fd,      \* the entry whose Fd page a client has at INDEX2FD(n)
  cow,     \* a client's fsipcbuf is copy-on-write
  at,      \* what each client is doing
  srv,     \* what the server is doing
  opened   \* for properties only: the generation and the file a descriptor got

table == <<gen, file, alloc, fdid>>
vars == <<gen, file, alloc, fdid, fd, cow, at, srv, opened>>

\* op: the request; num: the descriptor it is for; name: the file to open; id:
\* req_fileid; src: the descriptor dup closes num for.
Idle == [pc |-> "run", op |-> "none", num |-> None, name |-> None,
         id |-> None, src |-> None]

\* client: whom; job: what the page at fsreq holds; i: the loop of
\* openfile_alloc; r: the result; full: for properties only, no entry could be
\* had when the request came.
Waiting == [pc |-> "recv", client |-> None, job |-> Idle, i |-> 0, r |-> "ok",
            full |-> FALSE]

Init ==
  /\ gen = [e \in Entry |-> 0]
  /\ file = [e \in Entry |-> None]
  /\ alloc = {}
  /\ fdid = [e \in Entry |-> None]
  /\ fd = [c \in Client |-> [n \in Num |-> None]]
  /\ cow = [c \in Client |-> FALSE]
  /\ at = [c \in Client |-> [Idle EXCEPT !.pc = IF c \in First THEN "run" ELSE "none"]]
  /\ srv = Waiting
  /\ opened = [c \in Client |-> [n \in Num |-> None]]

Goto(c, where) == at' = [at EXCEPT ![c].pc = where]

-----------------------------------------------------------------------------
(* Clients *)

Running(c) == at[c].pc = "run"

\* fsipc writes the request into fsipcbuf, a copy-on-write page becomes the
\* program's own, and ipc_send begins to poll.
Request(c, job) ==
  /\ at' = [at EXCEPT ![c] = job]
  /\ cow' = [cow EXCEPT ![c] = FALSE]
  /\ UNCHANGED <<table, fd, srv, opened>>

\* open(), with the descriptor fd_alloc finds. Without one it fails at once.
CallOpen(c, name) ==
  /\ Running(c)
  /\ \E n \in Num :
       /\ fd[c][n] = None /\ \A m \in 0 .. n - 1 : fd[c][m] # None
       /\ Request(c, [Idle EXCEPT !.pc = "send", !.op = "open", !.num = n, !.name = name])

Id(c, n) == <<fd[c][n], fdid[fd[c][n]]>>

\* read, write, fstat and ftruncate of an open file, and close, which flushes.
Call(c, n, op) ==
  /\ Running(c) /\ fd[c][n] # None
  /\ Request(c, [Idle EXCEPT !.pc = "send", !.op = op, !.num = n, !.id = Id(c, n)])

\* sync() has nothing to write into fsipcbuf.
CallSync(c) ==
  /\ Running(c)
  /\ at' = [at EXCEPT ![c] = [Idle EXCEPT !.pc = "send", !.op = "sync"]]
  /\ UNCHANGED <<table, fd, cow, srv, opened>>

\* Descriptor n of c becomes what descriptor m of d is.
Copy(c, n, d, m) ==
  /\ fd' = [fd EXCEPT ![c][n] = fd[d][m]]
  /\ opened' = [opened EXCEPT ![c][n] = opened[d][m]]

\* dup() onto a number that is free, or that has to be closed first.
CallDup(c, old, new) ==
  /\ Running(c) /\ fd[c][old] # None
  /\ \/ /\ fd[c][new] = None
        /\ Copy(c, new, c, old)
        /\ UNCHANGED <<table, cow, at, srv>>
     \/ /\ fd[c][new] # None
        /\ Request(c, [Idle EXCEPT !.pc = "send", !.op = "flush", !.num = new,
                                   !.id = Id(c, new), !.src = old])

\* A child gets the descriptor pages, which have PTE_SHARE; fork() makes
\* fsipcbuf copy-on-write in both, spawn() loads a new one.
CallFork(c, d, spawned) ==
  /\ Running(c) /\ at[d].pc = "none"
  /\ fd' = [fd EXCEPT ![d] = fd[c]]
  /\ opened' = [opened EXCEPT ![d] = opened[c]]
  /\ cow' = IF spawned THEN cow ELSE [cow EXCEPT ![c] = TRUE, ![d] = TRUE]
  /\ Goto(d, "run")
  /\ UNCHANGED <<table, srv>>

\* The reply is there, or the request was sent: sys_ipc_recv.
CallRecv(c) ==
  /\ at[c].pc = "sent"
  /\ Goto(c, "recv")
  /\ UNCHANGED <<table, fd, cow, srv, opened>>

\* fsipc has returned: close unmaps the page whatever the result, dup goes on.
Return(c) ==
  /\ at[c].pc = "done"
  /\ at' = [at EXCEPT ![c] = Idle]
  /\ IF at[c].op = "flush"
     THEN IF at[c].src \in Num \ {at[c].num}
          THEN Copy(c, at[c].num, c, at[c].src)
          ELSE /\ fd' = [fd EXCEPT ![c][at[c].num] = None]
               /\ opened' = [opened EXCEPT ![c][at[c].num] = None]
     ELSE UNCHANGED <<fd, opened>>
  /\ UNCHANGED <<table, cow, srv>>

\* The environment is destroyed, wherever it is: the kernel unmaps its pages.
Die(c) ==
  /\ at[c].pc \notin {"none", "dead"}
  /\ fd' = [fd EXCEPT ![c] = [n \in Num |-> None]]
  /\ opened' = [opened EXCEPT ![c] = [n \in Num |-> None]]
  /\ at' = [at EXCEPT ![c] = [Idle EXCEPT !.pc = "dead"]]
  /\ UNCHANGED <<table, cow, srv>>

\* ipc_send panics: the server would be given PTE_W on a page that is
\* copy-on-write. A panic of any program leads to the kernel's monitor, which
\* lets no other go on.
SendPanics(c) ==
  /\ at[c].pc = "send" /\ srv.pc = "recv" /\ cow[c]
  /\ srv' = [srv EXCEPT !.pc = "panic"]
  /\ UNCHANGED <<table, fd, cow, at, opened>>

-----------------------------------------------------------------------------
(* The server *)

\* The mappings a descriptor page has; 2 stands for 2 or more.
Pageref(e) ==
  IF e \notin alloc THEN 0
  ELSE IF \E c \in Client, n \in Num : fd[c][n] = e THEN 2 ELSE 1

\* The server's sys_ipc_recv is answered by c.
Accept(c) ==
  /\ at[c].pc = "send" /\ srv.pc = "recv" /\ ~ cow[c]
  /\ Goto(c, "sent")
  /\ srv' = [Waiting EXCEPT !.pc = IF at[c].op = "open" THEN "scan" ELSE "handle",
                            !.client = c, !.job = at[c],
                            !.full = \A e \in Entry : Pageref(e) = 2]
  /\ UNCHANGED <<table, fd, cow, opened>>

Answer(r) == srv' = [srv EXCEPT !.pc = "reply", !.r = r]

\* slip: a page that one client has mapped is taken for free
IsOpenOffByOne(e) ==
  \E c, d \in Client, m, n \in Num : <<c, m>> # <<d, n>> /\ fd[c][m] = e /\ fd[d][n] = e

\* slip: openfile_alloc has no case 1
IsOpenForGood(e) == Pageref(e) # 0

\* Neither case 0 nor case 1 of openfile_alloc.
IsOpen(e) == Pageref(e) \notin {0, 1}

MoreEntries == srv.i + 1 < MaxOpen

\* One turn of the loop in openfile_alloc.
OpenfileAlloc ==
  /\ srv.pc = "scan"
  /\ IF IsOpen(srv.i)
     THEN /\ IF MoreEntries THEN srv' = [srv EXCEPT !.i = @ + 1]
             ELSE Answer("max_open")
          /\ UNCHANGED <<gen, alloc, fdid>>
     ELSE \/ /\ alloc' = alloc \cup {srv.i}
             /\ gen' = [gen EXCEPT ![srv.i] = (@ + 1) % Gens]
             /\ fdid' = [fdid EXCEPT ![srv.i] = None]
             /\ srv' = [srv EXCEPT !.pc = "open"]
          \/ /\ Pageref(srv.i) = 0
             /\ Answer("no_mem")
             /\ UNCHANGED <<gen, alloc, fdid>>
  /\ UNCHANGED <<file, fd, cow, at, opened>>

\* The rest of serve_open.
ServeOpen ==
  /\ srv.pc = "open"
  /\ \/ /\ file' = [file EXCEPT ![srv.i] = srv.job.name]
        /\ fdid' = [fdid EXCEPT ![srv.i] = gen[srv.i]]
        /\ Answer("ok")
     \/ /\ Answer("failed")
        /\ UNCHANGED <<file, fdid>>
  /\ UNCHANGED <<gen, alloc, fd, cow, at, opened>>

OpenfileLookup(id) == Pageref(id[1]) > 1 /\ gen[id[1]] = id[2]

\* The handlers that look a descriptor up, and serve_sync.
Handle ==
  /\ srv.pc = "handle"
  /\ IF srv.job.op = "sync" THEN Answer("ok")
     ELSE IF ~ OpenfileLookup(srv.job.id) THEN Answer("inval")
     ELSE Answer("ok") \/ (srv.job.op = "file" /\ Answer("failed"))
  /\ UNCHANGED <<table, fd, cow, at, opened>>

\* ipc_send to the client, with the descriptor page after a successful open.
Deliver(c) ==
  /\ srv.pc = "reply" /\ srv.client = c /\ at[c].pc = "recv"
  /\ Goto(c, "done")
  /\ IF srv.job.op = "open" /\ srv.r = "ok"
     THEN /\ fd' = [fd EXCEPT ![c][at[c].num] = srv.i]
          /\ opened' = [opened EXCEPT ![c][at[c].num] =
                          [gen |-> gen[srv.i], file |-> at[c].name]]
     ELSE UNCHANGED <<fd, opened>>
  /\ srv' = Waiting
  /\ UNCHANGED <<table, cow>>

\* slip: ipc_send does not repeat a call that got -E_IPC_NOT_RECV
NotReceivingGivesUp(c) ==
  /\ srv.pc = "reply" /\ srv.client = c /\ at[c].pc = "sent"
  /\ srv' = Waiting
  /\ UNCHANGED <<table, fd, cow, at, opened>>

\* The client has not called sys_ipc_recv yet: ipc_send yields and repeats.
NotReceiving(c) ==
  /\ srv.pc = "reply" /\ srv.client = c /\ at[c].pc = "sent"
  /\ UNCHANGED vars

\* There is no client any more: ipc_send panics.
BadEnv(c) ==
  /\ srv.pc = "reply" /\ srv.client = c /\ at[c].pc = "dead"
  /\ srv' = [srv EXCEPT !.pc = "panic"]
  /\ UNCHANGED <<table, fd, cow, at, opened>>

Server ==
  \/ OpenfileAlloc \/ ServeOpen \/ Handle
  \/ \E c \in Client : Deliver(c) \/ NotReceiving(c) \/ BadEnv(c)

Clients ==
  \E c \in Client :
    \/ \E name \in FileName : CallOpen(c, name)
    \/ \E n \in Num, op \in {"file", "flush"} : Call(c, n, op)
    \/ CallSync(c)
    \/ \E old, new \in Num : CallDup(c, old, new)
    \/ \E d \in Client, spawned \in BOOLEAN : CallFork(c, d, spawned)
    \/ CallRecv(c) \/ Return(c) \/ Accept(c) \/ SendPanics(c) \/ Die(c)

Next == srv.pc # "panic" /\ (Clients \/ Server)

\* The kernel runs every program that is runnable, the server too; which of
\* the clients that poll gets through is not said.
Fairness ==
  /\ WF_vars(srv.pc # "panic" /\ Server)
  /\ \A c \in Client : WF_vars(srv.pc # "panic" /\ CallRecv(c))

Spec == Init /\ [][Next]_vars /\ Fairness
-----------------------------------------------------------------------------
(* Properties *)

Job ==
  [pc : {"none", "run", "send", "sent", "recv", "done", "dead"},
   op : {"none", "open", "file", "flush", "sync"},
   num : Num \cup {None}, name : FileName \cup {None},
   id : (Entry \X (Gen \cup {None})) \cup {None}, src : Num \cup {None}]

TypeOK ==
  /\ gen \in [Entry -> Gen]
  /\ file \in [Entry -> FileName \cup {None}]
  /\ alloc \subseteq Entry
  /\ fdid \in [Entry -> Gen \cup {None}]
  /\ fd \in [Client -> [Num -> Entry \cup {None}]]
  /\ cow \in [Client -> BOOLEAN]
  /\ at \in [Client -> Job]
  /\ srv \in [pc : {"recv", "scan", "open", "handle", "reply", "panic"},
              client : Client \cup {None}, job : Job, i : Entry,
              r : {"ok", "failed", "inval", "max_open", "no_mem"}, full : BOOLEAN]
  /\ opened \in [Client -> [Num -> [gen : Gen, file : FileName] \cup {None}]]

\* A descriptor stands for the file it was opened for as long as any program
\* has it, whoever forks, dups, closes or dies meanwhile: the server reads
\* "still open" off a reference count the kernel keeps for every process
\* (fs/serv.c:69-81), and may recycle an entry only when it is the last.
DescriptorsStable ==
  /\ TypeOK
  /\ \A c \in Client, n \in Num :
       fd[c][n] # None =>
         /\ fd[c][n] \in alloc
         /\ gen[fd[c][n]] = opened[c][n].gen
         /\ fdid[fd[c][n]] = opened[c][n].gen
         /\ file[fd[c][n]] = opened[c][n].file

\* openfile_lookup refuses only the dead (fs/serv.c:92-96): while a client
\* waits for its answer, its descriptor is one more reference to the page.
RefusesOnlyTheDead == srv.r = "inval" => at[srv.client].pc = "dead"

\* -E_MAX_OPEN means every entry was open when the request came: entries whose
\* clients closed them, died, or never got them because the open failed, are
\* found again (fs/serv.c:76-80).
MaxOpenOnlyWhenFull == srv.r = "max_open" => srv.full

\* A client whose request the server has taken gets its answer, unless the
\* server panics over a client that was killed in between (lib/ipc.c:67), or
\* a client panics.
TakenIsAnswered ==
  \A c \in Client :
    at[c].pc \in {"sent", "recv"} ~> at[c].pc \notin {"sent", "recv"} \/ srv.pc = "panic"
=============================================================================
