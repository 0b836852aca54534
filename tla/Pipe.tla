-------------------------------- MODULE Pipe --------------------------------
(***************************************************************************)
(* A pipe (lib/pipe.c) and the calls of lib/fd.c and lib/fork.c that share *)
(* it. A pipe is one page, mapped beside the descriptor page of each end;  *)
(* whether the other end is still open is read off the reference counts of *)
(* these pages (lib/pageref.c). All of it is user code: a timer interrupt  *)
(* may come between any two steps, and other CPUs run other programs.      *)
(*                                                                         *)
(* One program reads and one writes, as in every program of user/; any     *)
(* program that has the pipe may dup, close and fork.                      *)
(***************************************************************************)
EXTENDS Naturals, Sequences, FiniteSets

CONSTANTS
  Proc,      \* the programs
  First,     \* the one that calls pipe()
  Reader,    \* the one that reads
  Writer,    \* the one that writes
  NCpu,      \* number of CPUs
  Num,       \* the descriptor numbers; which is which does not matter
  Size,      \* PIPEBUFSIZ
  MaxBytes,  \* bounds the bytes written
  None       \* a page that is not mapped

ASSUME PipeAssumption ==
  /\ {First, Reader, Writer} \subseteq Proc
  /\ IsFiniteSet(Proc) /\ IsFiniteSet(Num)
  /\ NCpu \in Nat \ {0}
  /\ Size \in Nat \ {0} /\ MaxBytes \in Nat
  /\ None \notin Proc \cup Num \cup Nat \cup {"R", "W"}

VARIABLES
  fd,     \* the end whose descriptor page a program has at INDEX2FD(n)
  data,   \* is the pipe mapped at INDEX2DATA(n)
  buf,    \* p_buf
  rpos,   \* p_rpos
  wpos,   \* p_wpos
  got,    \* the bytes read so far; the k-th byte written is k
  at,     \* which step of which call each program has reached
  on,     \* the programs on the CPUs
  moved   \* env_runs has changed since _pipeisclosed read it

pages == <<fd, data>>
pipe == <<buf, rpos, wpos, got>>
vars == <<fd, data, buf, rpos, wpos, got, at, on, moved>>

\* num: the descriptor a call is about; arg: the target of dup, the child of
\* fork, a reference count; back: where an open pipe leads; some: i > 0.
Idle == [pc |-> "run", num |-> None, arg |-> None, back |-> "run", some |-> FALSE]

Absent == [Idle EXCEPT !.pc = "none"]

\* pipe() has returned the numbers r and w in First.
Init ==
  /\ \E r, w \in Num :
       /\ r # w
       /\ fd = [p \in Proc |-> [n \in Num |->
                 IF p = First /\ n = r THEN "R"
                 ELSE IF p = First /\ n = w THEN "W" ELSE None]]
       /\ data = [p \in Proc |-> [n \in Num |-> p = First /\ n \in {r, w}]]
  /\ buf = [i \in 0 .. Size - 1 |-> 0]
  /\ rpos = 0 /\ wpos = 0 /\ got = <<>>
  /\ at = [p \in Proc |-> IF p = First THEN Idle ELSE Absent]
  /\ on = {First}
  /\ moved = {}

Alive(p) == at[p].pc \notin {"none", "embryo", "gone"}

Step(p, pc) == p \in on /\ at[p].pc = pc

Goto(p, pc) == at' = [at EXCEPT ![p].pc = pc]

Return(p) == at' = [at EXCEPT ![p] = Idle]

-----------------------------------------------------------------------------
(* The scheduler *)

\* env_run puts q on a CPU and counts it in env_runs.
Schedule(q) ==
  /\ Alive(q)
  /\ \/ q \notin on /\ Cardinality(on) < NCpu /\ on' = on \cup {q}
     \/ \E p \in on : (q = p \/ q \notin on) /\ on' = (on \ {p}) \cup {q}
  /\ moved' = IF at[q].pc = "compare" THEN moved \cup {q} ELSE moved
  /\ UNCHANGED <<pages, pipe, at>>

\* p exits, faults, or is destroyed by a program that is running: env_free
\* takes all its pages at once. (One destroyed inside fork leaves a child that
\* keeps the pipe for ever: not here.)
Destroy(p) ==
  /\ Alive(p) /\ at[p].pc # "fork"
  /\ p \in on \/ \E q \in on : at[q].pc = "run"
  /\ fd' = [fd EXCEPT ![p] = [n \in Num |-> None]]
  /\ data' = [data EXCEPT ![p] = [n \in Num |-> FALSE]]
  /\ at' = [at EXCEPT ![p] = [Idle EXCEPT !.pc = "gone"]]
  /\ on' = on \ {p}
  /\ moved' = moved \ {p}
  /\ UNCHANGED pipe

-----------------------------------------------------------------------------
(* close, dup and fork: one page at a time, one system call each.           *)

Unmap(p, n, page) ==
  IF page = "fd"
  THEN fd' = [fd EXCEPT ![p][n] = None] /\ UNCHANGED data
  ELSE data' = [data EXCEPT ![p][n] = FALSE] /\ UNCHANGED fd

\* sys_page_map of what p has at n to number m of q.
Map(p, n, q, m, page) ==
  IF page = "fd"
  THEN fd' = [fd EXCEPT ![q][m] = fd[p][n]] /\ UNCHANGED data
  ELSE data' = [data EXCEPT ![q][m] = data[p][n]] /\ UNCHANGED fd

\* slip: devpipe_close unmaps the pipe first
CloseOrderReversed == <<"data", "fd">>

\* devpipe_close
CloseOrder == <<"fd", "data">>

Close(p, n) ==
  \/ /\ Step(p, "run") /\ fd[p][n] # None
     /\ Unmap(p, n, CloseOrder[1])
     /\ at' = [at EXCEPT ![p].pc = "close", ![p].num = n]
     /\ UNCHANGED <<pipe, on, moved>>
  \/ /\ Step(p, "close") /\ n = at[p].num
     /\ Unmap(p, n, CloseOrder[2])
     /\ Return(p)
     /\ UNCHANGED <<pipe, on, moved>>

DupOrder == <<"data", "fd">>

\* dup(n, m) closes m, then maps.
Dup(p, n, m) ==
  \/ /\ Step(p, "run") /\ fd[p][n] # None /\ m # n
     /\ IF fd[p][m] = None
        THEN at' = [at EXCEPT ![p].pc = "dup", ![p].num = n, ![p].arg = m]
             /\ UNCHANGED pages
        ELSE /\ at' = [at EXCEPT ![p].pc = "dupClose", ![p].num = n, ![p].arg = m]
             /\ Unmap(p, m, CloseOrder[1])
     /\ UNCHANGED <<pipe, on, moved>>
  \/ /\ n = at[p].num /\ m = at[p].arg
     /\ \/ Step(p, "dupClose") /\ Unmap(p, m, CloseOrder[2]) /\ Goto(p, "dup")
        \/ Step(p, "dup") /\ Map(p, n, p, m, DupOrder[1]) /\ Goto(p, "dup2")
        \/ Step(p, "dup2") /\ Map(p, n, p, m, DupOrder[2]) /\ Return(p)
     /\ UNCHANGED <<pipe, on, moved>>

\* fork() shares the pages of p with the child q in the order of their
\* addresses, all descriptors before all pipes, and starts q at the end.
Fork(p, q) ==
  /\ \/ /\ Step(p, "run") /\ at[q].pc = "none"
        /\ at' = [at EXCEPT ![p].pc = "fork", ![p].arg = q, ![q].pc = "embryo"]
        /\ UNCHANGED pages
     \/ /\ Step(p, "fork") /\ at[p].arg = q
        /\ \/ \E n \in Num : fd[q][n] # fd[p][n] /\ Map(p, n, q, n, "fd")
           \/ /\ fd[q] = fd[p]
              /\ \E n \in Num : data[q][n] # data[p][n] /\ Map(p, n, q, n, "data")
        /\ UNCHANGED at
     \/ /\ Step(p, "fork") /\ at[p].arg = q
        /\ fd[q] = fd[p] /\ data[q] = data[p]
        /\ at' = [at EXCEPT ![p] = Idle, ![q] = Idle]
        /\ UNCHANGED pages
  /\ UNCHANGED <<pipe, on, moved>>

-----------------------------------------------------------------------------
(* _pipeisclosed *)

\* pageref of the descriptor page of an end, and of the pipe.
FdRefs(end) == Cardinality({x \in Proc \X Num : fd[x[1]][x[2]] = end})

PipeRefs == Cardinality({x \in Proc \X Num : data[x[1]][x[2]]})

Check(p, back) == at' = [at EXCEPT ![p].pc = "count", ![p].back = back]

\* n = env_runs; pageref(fd)
Count(p) ==
  /\ Step(p, "count")
  /\ at' = [at EXCEPT ![p].pc = "compare", ![p].arg = FdRefs(fd[p][at[p].num])]
  /\ UNCHANGED <<pages, pipe, on, moved>>

\* slip: env_runs is not looked at
DisturbedNever(p) == FALSE

Disturbed(p) == p \in moved

\* pageref(p), nn = env_runs: again, closed (the call returns 0), or open
\* (yield, which is Schedule, and go back).
Compare(p) ==
  /\ Step(p, "compare")
  /\ at' = [at EXCEPT ![p].arg = None,
                      ![p].pc = IF Disturbed(p) THEN "count"
                                ELSE IF at[p].arg = PipeRefs THEN "closed"
                                ELSE at[p].back]
  /\ moved' = moved \ {p}
  /\ UNCHANGED <<pages, pipe, on>>

PipeIsClosed(p, n) ==
  \/ /\ Step(p, "run") /\ fd[p][n] # None
     /\ at' = [at EXCEPT ![p].pc = "count", ![p].num = n, ![p].back = "run"]
     /\ UNCHANGED <<pages, pipe, on, moved>>
  \/ /\ Step(p, "closed") /\ n = at[p].num
     /\ Return(p)
     /\ UNCHANGED <<pages, pipe, on, moved>>

-----------------------------------------------------------------------------
(* devpipe_read and devpipe_write *)

Read(p, n) ==
  /\ Step(p, "run") /\ p = Reader /\ fd[p][n] = "R"
  /\ at' = [at EXCEPT ![p].pc = "rtest", ![p].num = n]
  /\ UNCHANGED <<pages, pipe, on, moved>>

Empty == rpos = wpos

\* Is there a byte?
ReadTest(p) ==
  /\ Step(p, "rtest")
  /\ \/ ~ Empty /\ Goto(p, "rtake")
     \/ Empty /\ at[p].some /\ Return(p)
     \/ Empty /\ ~ at[p].some /\ Check(p, "rtest")
  /\ UNCHANGED <<pages, pipe, on, moved>>

ReadTake(p) ==
  /\ Step(p, "rtake")
  /\ got' = Append(got, buf[rpos % Size])
  /\ Goto(p, "radvance")
  /\ UNCHANGED <<pages, buf, rpos, wpos, on, moved>>

\* i = n ends the call, i < n goes on.
ReadAdvance(p) ==
  /\ Step(p, "radvance")
  /\ rpos' = rpos + 1
  /\ Return(p) \/ at' = [at EXCEPT ![p].pc = "rtest", ![p].some = TRUE]
  /\ UNCHANGED <<pages, buf, wpos, got, on, moved>>

Write(p, n) ==
  /\ Step(p, "run") /\ p = Writer /\ fd[p][n] = "W" /\ wpos < MaxBytes
  /\ at' = [at EXCEPT ![p].pc = "wtest", ![p].num = n]
  /\ UNCHANGED <<pages, pipe, on, moved>>

\* slip: one byte too many
FullTooLate == wpos > rpos + Size

Full == wpos >= rpos + Size

WriteTest(p) ==
  /\ Step(p, "wtest")
  /\ IF Full THEN Check(p, "wtest") ELSE Goto(p, "wstore")
  /\ UNCHANGED <<pages, pipe, on, moved>>

WriteStore(p) ==
  /\ Step(p, "wstore")
  /\ buf' = [buf EXCEPT ![wpos % Size] = wpos + 1]
  /\ Goto(p, "wadvance")
  /\ UNCHANGED <<pages, rpos, wpos, got, on, moved>>

WriteAdvance(p) ==
  /\ Step(p, "wadvance")
  /\ wpos' = wpos + 1
  /\ Return(p) \/ (wpos' < MaxBytes /\ Goto(p, "wtest"))
  /\ UNCHANGED <<pages, buf, rpos, got, on, moved>>

-----------------------------------------------------------------------------

Calls(p) ==
  \/ \E n \in Num : Close(p, n) \/ Read(p, n) \/ Write(p, n) \/ PipeIsClosed(p, n)
  \/ \E n, m \in Num : Dup(p, n, m)
  \/ ReadTest(p) \/ ReadTake(p) \/ ReadAdvance(p)
  \/ WriteTest(p) \/ WriteStore(p) \/ WriteAdvance(p)
  \/ Count(p) \/ Compare(p)
  \/ Schedule(p) \/ Destroy(p)

Next == \E p \in Proc : Calls(p) \/ \E q \in Proc : Fork(p, q)

Spec == Init /\ [][Next]_vars

-----------------------------------------------------------------------------
(* Safety *)

TypeOK ==
  /\ fd \in [Proc -> [Num -> {"R", "W", None}]]
  /\ data \in [Proc -> [Num -> BOOLEAN]]
  /\ buf \in [0 .. Size - 1 -> 0 .. MaxBytes]
  /\ rpos \in 0 .. MaxBytes /\ wpos \in 0 .. MaxBytes
  /\ got \in Seq(0 .. MaxBytes)
  /\ at \in [Proc -> [pc : {"none", "embryo", "gone", "run", "close", "dupClose", "dup",
                            "dup2", "fork", "count", "compare", "closed",
                            "rtest", "rtake", "radvance",
                            "wtest", "wstore", "wadvance"},
                      num : Num \cup {None},
                      arg : Nat \cup Proc \cup Num \cup {None},
                      back : {"run", "rtest", "wtest"},
                      some : BOOLEAN]]
  /\ on \subseteq Proc /\ Cardinality(on) <= NCpu
  /\ moved \subseteq Proc

Holds(p, end) == \E n \in Num : fd[p][n] = end

Closed(p, end) == at[p].pc = "closed" /\ fd[p][at[p].num] = end

\* The reader gets every byte once and in order, whatever part of the buffer
\* the writer is in ("wait to increment", lib/pipe.c:131-134 and 165-168).
BytesInOrder ==
  /\ TypeOK
  /\ \A k \in 1 .. Len(got) : got[k] = k
  /\ rpos <= Len(got) /\ Len(got) <= wpos /\ wpos <= rpos + Size

\* An end appears closed only when nobody has it: the reference counts, read
\* one after the other while others close and dup, never mislead
\* (user/testpiperace.c:27-35, user/testpiperace2.c:34-53).
ClosedMeansClosed ==
  \A p, q \in Proc :
    /\ Closed(p, "R") => ~ Holds(q, "W")
    /\ Closed(p, "W") => ~ Holds(q, "R")

\* End of file comes when all the writers are gone and the pipe is empty
\* (lib/pipe.c:118-125): a reader told of it has read every byte.
EndOfFileIsTheEnd ==
  \A p \in Proc : Closed(p, "R") /\ at[p].back = "rtest" => Len(got) = wpos

=============================================================================
