-------------------------------- MODULE Shell --------------------------------
(***************************************************************************)
(* The shell of TP shell: run_cmd (runcmd.c) and the execution of the      *)
(* command tree (exec.c) in the processes it forks.                        *)
(*                                                                         *)
(* parse_line nests a pipeline to the right (parsing.c:207-218): segment i *)
(* of a line of n is run by process Left(j, i), a child of Tree(j, i),     *)
(* which also forks Tree(j, i + 1) for the rest; Tree(j, n) runs the last  *)
(* segment itself, and Tree(j, 1) is the child of the shell.               *)
(*                                                                         *)
(* A line with a pipe in it is of type PIPE, and in the foreground. What   *)
(* follows the last '|' is part of the line only if it is not empty.       *)
(***************************************************************************)
EXTENDS Jobs

-----------------------------------------------------------------------------
(* run_cmd, in the shell *)

\* A line that parse_line gives as typed: nothing at all after a '|' is dropped,
\* and a line of nothing is not run (parsing.c:190, 213).
Parsed(line) ==
  LET last == line.segments[Len(line.segments)] IN
  line.back \/ last.prog # "none" \/ last.in \/ last.out \/ last.err

\* A line is read and parsed, and fork called.
RunCmd(j, line) ==
  /\ Running(Sh, "prompt") /\ j = Len(lines) + 1 /\ Parsed(line)
  /\ lines' = Append(lines, line)
  /\ \/ /\ Forks(Sh, IF line.back THEN "nohang" ELSE "wait", Tree(j, 1), "exec_cmd")
        /\ pid' = [pid EXCEPT ![Sh] = [left |-> Tree(j, 1), right |-> None]]
        /\ UNCHANGED spoiled
     \/ /\ Goto(Sh, IF line.back THEN "nohang" ELSE "wait")
        /\ pid' = [pid EXCEPT ![Sh] = NoPid]
        /\ Fails(j)
        /\ UNCHANGED <<state, fd, buf>>
  /\ UNCHANGED <<jos, bytes>>

\* The children of the shell that are there to be waited for.
Children == {p \in {Tree(j, 1) : j \in Job} : state[p] \in {"run", "zombie"}}

\* waitpid(p, &status, 0); with p = -1 for any child, or none.
WaitForeground ==
  /\ Running(Sh, "wait")
  /\ \/ \E p \in Children : /\ pid[Sh].left \in {p, None}
                            /\ Reaps(Sh, p, "prompt")
     \/ /\ pid[Sh].left = None /\ Children = {}
        /\ Goto(Sh, "prompt")
        /\ UNCHANGED <<state, fd, buf>>
  /\ UNCHANGED jobs

\* waitpid(p, &status, WNOHANG): a child that runs on is never waited for.
WaitBackground ==
  /\ Running(Sh, "nohang")
  /\ \/ \E p \in Children : /\ pid[Sh].left \in {p, None}
                            /\ Reaps(Sh, p, "prompt")
     \/ /\ \A p \in Children : pid[Sh].left \in {p, None} => state[p] = "run"
        /\ Goto(Sh, "prompt")
        /\ UNCHANGED <<state, fd, buf>>
  /\ UNCHANGED jobs

-----------------------------------------------------------------------------
(* exec_cmd and pipe_command, in Tree(j, i) *)

\* The command is a PIPE.
IsPipe(p) == p[3] = "tree" /\ ~ IsLast(p)

\* pipe(), or its failure, which ends the process.
MakePipe(p) ==
  /\ Running(p, "exec_cmd") /\ IsPipe(p)
  /\ \/ /\ Sets(p, WithPipe(fd[p], PipeOf(p[1], p[2])), "left")
        /\ UNCHANGED spoiled
     \/ Exits(p) /\ Fails(p[1])
  /\ UNCHANGED <<jos, lines, pid, bytes>>

\* exec_hijo_izq and exec_hijo_der; a fork that fails closes both ends.
ForkSide(p, side, child, where, next) ==
  /\ Running(p, side)
  /\ \/ /\ Forks(p, next, child, where)
        /\ pid' = [pid EXCEPT ![p][side] = child]
        /\ UNCHANGED spoiled
     \/ /\ Sets(p, Without(fd[p], {"r", "w"}), next)
        /\ Fails(p[1])
        /\ UNCHANGED pid
  /\ UNCHANGED <<jos, lines, bytes>>

ExecHijoIzq(p) == ForkSide(p, "left", Left(p[1], p[2]), "as_left", "right")
ExecHijoDer(p) == ForkSide(p, "right", Tree(p[1], p[2] + 1), "as_right", "close")

\* dup2(fd, to), which changes nothing if fd is closed.
Dup2(f, from, to) == IF f[from] = None THEN f ELSE [f EXCEPT ![to] = f[from]]

\* slip: the right side closes its ends before it uses one
AsRightClosesFirst(f) == Dup2(Without(f, {"r", "w"}), "r", "in")

AsLeft(f) == Without(Dup2(f, "w", "out"), {"r", "w"})
AsRight(f) == Without(Dup2(f, "r", "in"), {"r", "w"})

\* The children's part of exec_hijo_izq and exec_hijo_der.
HijoIzq(p) == Running(p, "as_left") /\ Sets(p, AsLeft(fd[p]), "exec_cmd") /\ UNCHANGED jobs
HijoDer(p) == Running(p, "as_right") /\ Sets(p, AsRight(fd[p]), "exec_cmd") /\ UNCHANGED jobs

\* slip: the parent keeps the reading end
ParentClosesOne(f) == Without(f, {"w"})

ParentCloses(f) == Without(f, {"r", "w"})

CloseBoth(p) ==
  Running(p, "close") /\ Sets(p, ParentCloses(fd[p]), "wait_left") /\ UNCHANGED jobs

\* waitpid for a child that was forked.
WaitSide(p, side, here, next) ==
  /\ Running(p, here)
  /\ IF pid[p][side] = None THEN Goto(p, next) /\ UNCHANGED <<state, fd, buf>>
     ELSE Reaps(p, pid[p][side], next)
  /\ UNCHANGED jobs

WaitLeft(p) == WaitSide(p, "left", "wait_left", "wait_right")

\* slip: pid_der is not waited for
WaitRightNot(p) == Running(p, "wait_right") /\ Goto(p, "exit") /\ UNCHANGED <<state, fd, buf, jobs>>

WaitRight(p) == WaitSide(p, "right", "wait_right", "exit")

ExitZero(p) == Running(p, "exit") /\ Exits(p) /\ UNCHANGED jobs

-----------------------------------------------------------------------------
(* redir_command and exec_command *)

\* The redirection that is made: with an output there is none of the input, and
\* without one there is none of the errors.
Redirected(f, seg) ==
  IF seg.out THEN [f EXCEPT !["out"] = File, !["err"] = IF seg.err THEN File ELSE @]
  ELSE IF seg.in THEN [f EXCEPT !["in"] = File] ELSE f

\* redir_command finds nothing to redirect ("no hay a que redireccionar").
ErrorAlone(seg) == seg.err /\ ~ seg.out /\ ~ seg.in

\* The files are opened, if there are any, and the program executed.
Exec(p) ==
  LET seg == SegmentOf(p) IN
  /\ Running(p, "exec_cmd") /\ ~ IsPipe(p)
  /\ seg.prog \notin {"missing", "none"} /\ ~ ErrorAlone(seg)
  /\ Sets(p, Redirected(fd[p], seg), "program")
  /\ bytes' = [bytes EXCEPT ![p] = (seg.prog = "yes")]
  /\ UNCHANGED <<jos, lines, pid, spoiled>>

\* execvp or open failed: exit(ERROR). An empty command is a null pointer, here
\* or in execvp, and the process dies of it.
ExecFails(p) ==
  LET seg == SegmentOf(p) IN
  /\ Running(p, "exec_cmd") /\ ~ IsPipe(p)
  /\ seg.prog \in {"missing", "none"} \/ seg.in \/ seg.out \/ seg.err
  /\ Exits(p)
  /\ Fails(p[1])
  /\ UNCHANGED <<jos, lines, pid, bytes>>

-----------------------------------------------------------------------------
Once(p) ==
  \/ MakePipe(p) \/ ExecHijoIzq(p) \/ ExecHijoDer(p) \/ HijoIzq(p) \/ HijoDer(p)
  \/ CloseBoth(p) \/ WaitLeft(p) \/ WaitRight(p) \/ ExitZero(p)
  \/ Exec(p) \/ ExecFails(p)

Waits == WaitForeground \/ WaitBackground

ShellNext ==
  /\ ~ jos
  /\ \/ \E j \in Job : \E line \in Line[j] : RunCmd(j, line)
     \/ Waits
     \/ \E p \in ShellProc \ {Sh} : Once(p) \/ Copies(p) \/ ProgramEndsOrBreaks(p)
=============================================================================
