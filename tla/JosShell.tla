------------------------------- MODULE JosShell -------------------------------
(***************************************************************************)
(* The shell of JOS (user/sh.c) with spawn (lib/spawn.c), wait and exit.   *)
(*                                                                         *)
(* Tree(j, i) is in runcmd with segment i of line j. It does not become    *)
(* the program: it spawns it in Left(j, i), and waits for it and for       *)
(* Tree(j, i + 1), which runs the rest of the pipeline.                    *)
(*                                                                         *)
(* fork() has no error to return: it panics. What spawn maps into the      *)
(* child is only counted as done or failed.                                *)
(***************************************************************************)
EXTENDS Jobs

\* What JOS has: of the programs cat, and neither "&" nor "2>".
ForJos(line) ==
  /\ ~ line.back
  /\ \A i \in DOMAIN line.segments : /\ line.segments[i].prog \in {"cat", "missing", "none"}
                                    /\ ~ line.segments[i].err

\* fork(), or its panic.
ForksOrPanics(p, next, side, child, where) ==
  \/ Forks(p, next, child, where) /\ pid' = [pid EXCEPT ![p][side] = child]
  \/ Panics(p) /\ UNCHANGED pid

\* exit().
JosExits(p) == Ends(p, "gone")

\* wait(): e is polled until its slot is free or another's.
Polls(p, e, here, next) ==
  /\ Running(p, here)
  /\ e # None => state[e] = "gone"
  /\ Goto(p, next)
  /\ UNCHANGED <<state, fd, buf, jobs>>

-----------------------------------------------------------------------------
(* umain *)

UmainForks(j, line) ==
  /\ Running(Sh, "prompt") /\ j = Len(lines) + 1 /\ ForJos(line)
  /\ lines' = Append(lines, line)
  /\ ForksOrPanics(Sh, "wait_line", "left", Tree(j, 1), "runcmd")
  /\ UNCHANGED <<jos, bytes, spoiled>>

UmainWaits == Polls(Sh, pid[Sh].left, "wait_line", "prompt")

-----------------------------------------------------------------------------
(* runcmd *)

\* '<' and '>' before a '|' or the end of the line.
WithFiles(f, seg) == [f EXCEPT !["in"] = IF seg.in THEN File ELSE @,
                               !["out"] = IF seg.out THEN File ELSE @]

\* A file to read that cannot be opened is a panic, one to write ends runcmd.
Redirect(p) ==
  LET seg == SegmentOf(p) IN
  /\ Running(p, "runcmd")
  /\ \/ /\ Sets(p, WithFiles(fd[p], seg), IF IsLast(p) THEN "spawn" ELSE "pipe")
        /\ UNCHANGED spoiled
     \/ seg.in /\ Panics(p) /\ UNCHANGED spoiled
     \/ seg.out /\ JosExits(p) /\ Fails(p[1])
  /\ UNCHANGED <<jos, lines, pid, bytes>>

\* '|': pipe().
PipeToRest(p) ==
  /\ Running(p, "pipe")
  /\ \/ Sets(p, WithPipe(fd[p], PipeOf(p[1], p[2])), "fork_rest") /\ UNCHANGED spoiled
     \/ JosExits(p) /\ Fails(p[1])
  /\ UNCHANGED <<jos, lines, pid, bytes>>

ForkRest(p) ==
  /\ Running(p, "fork_rest")
  /\ ForksOrPanics(p, "join", "right", Tree(p[1], p[2] + 1), "rest")
  /\ UNCHANGED <<jos, lines, bytes, spoiled>>

\* The child reads from the pipe, and goes on with the line (goto again).
Rest(p) ==
  /\ Running(p, "rest")
  /\ Sets(p, Without([fd[p] EXCEPT !["in"] = fd[p]["r"]], {"r", "w"}), "runcmd")
  /\ UNCHANGED jobs


\* The parent writes to it (goto runit).
Joined(f) == Without([f EXCEPT !["out"] = f["w"]], {"r", "w"})

Join(p) == Running(p, "join") /\ Sets(p, Joined(fd[p]), "spawn") /\ UNCHANGED jobs

\* runit with an empty command: runcmd returns, and umain calls exit(); the rest
\* of the pipeline is not waited for.
EmptyCommand(p) ==
  Running(p, "spawn") /\ SegmentOf(p).prog = "none" /\ JosExits(p) /\ UNCHANGED jobs

-----------------------------------------------------------------------------
(* spawn *)

\* spawn returns an error with the descriptors f.
SpawnReturns(p, f) == Sets(p, f, "close_all") /\ Fails(p[1]) /\ UNCHANGED <<jos, lines, pid, bytes>>

\* open(prog), and its header.
SpawnOpen(p) ==
  /\ Running(p, "spawn") /\ SegmentOf(p).prog # "none"
  /\ \/ /\ SegmentOf(p).prog # "missing"
        /\ Sets(p, [fd[p] EXCEPT !["prog"] = File], "exofork")
        /\ UNCHANGED jobs
     \/ SpawnReturns(p, fd[p])

\* sys_exofork. Nothing of the child's is mapped yet.
SpawnExofork(p) ==
  LET c == Left(p[1], p[2]) IN
  /\ Running(p, "exofork")
  /\ \/ /\ state[c] = "none"
        /\ state' = [state EXCEPT ![c] = "embryo"]
        /\ Goto(p, "init_stack")
        /\ UNCHANGED <<fd, buf, jobs>>
     \/ SpawnReturns(p, fd[p])

\* init_stack: its failure leaves the child and the file as they are.
InitStack(p) ==
  /\ Running(p, "init_stack")
  /\ \/ Goto(p, "map_segment") /\ UNCHANGED <<state, fd, buf, jobs>>
     \/ SpawnReturns(p, fd[p])

\* map_segment, for every segment; its failure destroys the child, or is a panic.
MapSegment(p) ==
  LET f == Without(fd[p], {"prog"}) IN
  /\ Running(p, "map_segment")
  /\ \/ Sets(p, f, "copy_shared_pages") /\ UNCHANGED jobs
     \/ /\ state' = [state EXCEPT ![Left(p[1], p[2])] = "gone"]
        /\ fd' = [fd EXCEPT ![p] = f]
        /\ Goto(p, "close_all")
        /\ Fails(p[1])
        /\ UNCHANGED <<buf, jos, lines, pid, bytes>>
     \/ Panics(p) /\ UNCHANGED jobs

\* The child gets every descriptor that is open.
CopySharedPages(p) ==
  /\ Running(p, "copy_shared_pages")
  /\ \/ /\ fd' = [fd EXCEPT ![Left(p[1], p[2])] = fd[p]]
        /\ Goto(p, "set_status")
        /\ UNCHANGED <<state, buf>>
     \/ Panics(p)
  /\ UNCHANGED jobs

\* sys_env_set_trapframe and sys_env_set_status.
SetStatus(p) ==
  LET c == Left(p[1], p[2]) IN
  /\ Running(p, "set_status")
  /\ state' = [state EXCEPT ![c] = "run"]
  /\ at' = [at EXCEPT ![p] = "close_all", ![c] = "program"]
  /\ pid' = [pid EXCEPT ![p].left = c]
  /\ UNCHANGED <<fd, buf, jos, lines, bytes, spoiled>>

-----------------------------------------------------------------------------
(* runit, after spawn *)

CloseAllOf(p) == Running(p, "close_all") /\ Sets(p, Closed, "wait_spawned") /\ UNCHANGED jobs

WaitSpawned(p) == Polls(p, pid[p].left, "wait_spawned", "wait_pipe_child")

WaitPipeChild(p) == Polls(p, pid[p].right, "wait_pipe_child", "done")

Done(p) == Running(p, "done") /\ JosExits(p) /\ UNCHANGED jobs

JosOnce(p) ==
  \/ Redirect(p) \/ PipeToRest(p) \/ ForkRest(p) \/ Rest(p) \/ Join(p)
  \/ EmptyCommand(p)
  \/ SpawnOpen(p) \/ SpawnExofork(p) \/ InitStack(p) \/ MapSegment(p)
  \/ CopySharedPages(p) \/ SetStatus(p)
  \/ CloseAllOf(p) \/ WaitSpawned(p) \/ WaitPipeChild(p) \/ Done(p)

JosNext ==
  /\ jos
  /\ \/ \E j \in Job : \E line \in Line[j] : UmainForks(j, line)
     \/ UmainWaits
     \/ \E p \in ShellProc \ {Sh} : JosOnce(p) \/ Copies(p) \/ ProgramEndsOrBreaks(p)
=============================================================================
