--------------------------------- MODULE Jobs ---------------------------------
(***************************************************************************)
(* What the shell of TP shell and the one of JOS (user/sh.c) have in       *)
(* common: lines of segments joined by pipes, the processes that run them, *)
(* and what a user may expect of both.                                     *)
(*                                                                         *)
(* Segment i of line j is run by Tree(j, i), a child of Tree(j, i - 1) or, *)
(* for the first, of the shell; Left(j, i) is the other child Tree(j, i)   *)
(* may have.                                                               *)
(*                                                                         *)
(* The programs that are run are not part of the repository. A segment has *)
(* a program: cat copies until the end of its input, yes writes until      *)
(* nobody reads, head reads once, and "missing" cannot be executed; with   *)
(* "none" there is no word in the segment.                                 *)
(***************************************************************************)
EXTENDS Unix

CONSTANTS
  Line,        \* what the user may type, line by line
  MaxSegments  \* a bound on the segments of a line

Job == DOMAIN Line

Sh == <<0, 0, "tree">>
Tree(j, i) == <<j, i, "tree">>
Left(j, i) == <<j, i, "left">>
ShellProc == {Sh} \cup (Job \X (1 .. MaxSegments) \X {"tree", "left"})

\* The pipe Tree(j, i) makes.
PipeOf(j, i) == <<j, i>>

\* A segment: its program, and what of it is redirected to a file: '<', '>' and,
\* in TP shell, '2>'.
Segment == [prog : {"cat", "yes", "head", "missing", "none"},
            in : BOOLEAN, out : BOOLEAN, err : BOOLEAN]

ASSUME JobsAssumption ==
  /\ Capacity \in Nat \ {0}
  /\ MaxSegments \in Nat \ {0}
  /\ \A j \in Job : \A l \in Line[j] : /\ l.segments \in Seq(Segment)
                                       /\ Len(l.segments) \in 1 .. MaxSegments
                                       /\ l.back => Len(l.segments) = 1
  /\ ShellProc \subseteq Proc
  /\ Job \X (1 .. MaxSegments) \subseteq PipeId
  /\ None \notin Proc
  /\ \A k \in PipeId : \A side \in {"r", "w"} : End(k, side) # None

VARIABLES
  jos,      \* which of the shells: that of JOS
  lines,    \* the lines typed so far
  pid,      \* the children a process waits for; None: there is none (or -1)
  bytes,    \* what a program has read and not yet written, or TRUE for yes
  spoiled   \* the jobs in which a fork, a pipe, an open or a spawn failed

jobs == <<jos, lines, pid, bytes, spoiled>>
vars == <<unix, jobs>>

\* JOS has no descriptor for errors; nothing is said of it there.
Terminal == [s \in Slot |-> IF s \in {"in", "out", "err"} THEN Tty ELSE None]

NoPid == [left |-> None, right |-> None]

JobsInit ==
  /\ state = [p \in Proc |-> IF p = Sh THEN "run" ELSE "none"]
  /\ fd = [p \in Proc |-> IF p = Sh THEN Terminal ELSE Closed]
  /\ buf = [k \in PipeId |-> <<>>]
  /\ at = [p \in Proc |-> "prompt"]
  /\ jos \in BOOLEAN
  /\ lines = <<>>
  /\ pid = [p \in ShellProc |-> NoPid]
  /\ bytes = [p \in ShellProc |-> FALSE]
  /\ spoiled = {}

Segments(j) == lines[j].segments
SegmentOf(p) == Segments(p[1])[p[2]]
IsLast(p) == p[2] = Len(Segments(p[1]))

Fails(j) == spoiled' = spoiled \cup {j}

\* JOS: panic() stops at a breakpoint, and the monitor that opens keeps the
\* kernel's lock: no program goes on.
Panics(p) ==
  /\ state' = [q \in Proc |-> IF state[q] = "run" THEN "stopped" ELSE state[q]]
  /\ UNCHANGED <<fd, buf, at>>

-----------------------------------------------------------------------------
(* The programs; in JOS, user/cat.c *)

FromPipe(p) == fd[p]["in"] \in {End(k, "r") : k \in PipeId}
ToPipe(p) == fd[p]["out"] \in {End(k, "w") : k \in PipeId}
Input(p) == fd[p]["in"][1]
Output(p) == fd[p]["out"][1]

\* JOS keeps nothing of a program that has ended.
ProgramEnds(p) == Ends(p, IF jos THEN "gone" ELSE "zombie")

Reads(p) == Running(p, "program") /\ ~ bytes[p] /\ SegmentOf(p).prog # "yes"

\* The program has a byte to pass on.
Read(p) ==
  /\ Reads(p)
  /\ IF FromPipe(p) THEN Readable(Input(p)) /\ buf' = [buf EXCEPT ![Input(p)] = Tail(@)]
     ELSE UNCHANGED buf
  /\ bytes' = [bytes EXCEPT ![p] = TRUE]
  /\ UNCHANGED <<state, fd, at, jos, lines, pid, spoiled>>

ReadEof(p) ==
  /\ Reads(p)
  /\ FromPipe(p) => AtEnd(Input(p))
  /\ ProgramEnds(p)
  /\ UNCHANGED jobs

\* cat and yes go on, head ends.
Write(p) ==
  LET prog == SegmentOf(p).prog IN
  /\ Running(p, "program") /\ bytes[p]
  /\ IF ToPipe(p) THEN Writable(Output(p)) ELSE TRUE
  /\ LET b == IF ToPipe(p) THEN [buf EXCEPT ![Output(p)] = Append(@, 0)] ELSE buf
     IN  buf' = b
  /\ bytes' = [bytes EXCEPT ![p] = (prog = "yes")]
  /\ IF prog = "head"
     THEN /\ state' = [state EXCEPT ![p] = "zombie"]
          /\ fd' = [fd EXCEPT ![p] = Closed]
          /\ Goto(p, "end")
     ELSE UNCHANGED <<state, fd, at>>
  /\ UNCHANGED <<jos, lines, pid, spoiled>>

\* Nobody reads: SIGPIPE; in JOS write() returns 0, and cat panics.
BrokenPipe(p) ==
  /\ Running(p, "program") /\ bytes[p] /\ ToPipe(p) /\ Broken(Output(p))
  /\ IF jos THEN Panics(p) ELSE ProgramEnds(p)
  /\ UNCHANGED jobs

Copies(p) == Read(p) \/ Write(p)

ProgramEndsOrBreaks(p) == ReadEof(p) \/ BrokenPipe(p)

-----------------------------------------------------------------------------
(* Properties *)

\* An empty command in JOS ends without waiting for the rest of the pipeline it
\* has forked (user/sh.c:129-133, 328): who runs a segment after it.
LeftBehind(p) ==
  /\ jos /\ p[1] \in DOMAIN lines
  /\ \E i \in DOMAIN Segments(p[1]) : i < p[2] /\ Segments(p[1])[i].prog = "none"

\* At the prompt every line run in the foreground is over, with all the
\* processes of its pipeline ended and waited for (runcmd.c:61, exec.c:237-244;
\* user/sh.c:164, 176, 330), but for what JOS leaves behind. A spawn that failed
\* in JOS may leave a child that never runs (lib/spawn.c:115).
ForegroundIsOver ==
  Running(Sh, "prompt") =>
    \A p \in ShellProc \ {Sh} :
      p[1] \in DOMAIN lines /\ ~ lines[p[1]].back =>
        \/ state[p] \in {"none", "gone"}
        \/ jos /\ state[p] = "embryo" /\ p[1] \in spoiled
        \/ LeftBehind(p)

\* A '>' before a '|' in JOS: runcmd has opened the file when it makes the pipe,
\* so that the program writes to the pipe, and the rest of the line to the file.
WritesAcross(j) ==
  jos /\ \E i \in DOMAIN Segments(j) : i < Len(Segments(j)) /\ Segments(j)[i].out

\* What TP shell does not do: '<' beside a '>', and '2>' without a '>'
\* (exec.c:153-158).
InputIgnored(p) == ~ jos /\ SegmentOf(p).in /\ SegmentOf(p).out
ErrorIgnored(p) == jos \/ (SegmentOf(p).err /\ ~ SegmentOf(p).out)

\* The segments of a line in which nothing failed are joined in the order they
\* were typed: what segment i writes is what segment i + 1 reads, the ends go to
\* the terminal, and so do errors, but for what is redirected to a file
\* (exec.c:119-163, 187-191, 210-214; user/sh.c:42-84, 98-111).
JoinedAsTyped ==
  \A p \in ShellProc :
    Running(p, "program") /\ p[1] \notin spoiled =>
      /\ \/ InputIgnored(p)
         \/ fd[p]["in"] = IF SegmentOf(p).in THEN File
                          ELSE IF p[2] = 1 THEN Tty ELSE End(PipeOf(p[1], p[2] - 1), "r")
      /\ \/ WritesAcross(p[1])
         \/ fd[p]["out"] = IF SegmentOf(p).out THEN File
                           ELSE IF IsLast(p) THEN Tty ELSE End(PipeOf(p[1], p[2]), "w")
      /\ \/ ErrorIgnored(p)
         \/ fd[p]["err"] = IF SegmentOf(p).err THEN File ELSE Tty

\* A line of which a part could not be run, yes among what is left, may go on
\* until it is interrupted.
MayGoOn(j) == j \in spoiled /\ \E i \in DOMAIN Segments(j) : Segments(j)[i].prog = "yes"

\* TP shell waits for a line it could not fork with waitpid(-1), and so for any
\* child (runcmd.c:34, 48, 61): for yes in the background, until it is interrupted.
WaitsForAny ==
  /\ Running(Sh, "wait") /\ pid[Sh].left = None
  /\ \E j \in DOMAIN lines : /\ lines[j].back /\ Segments(j)[1].prog = "yes"
                             /\ Running(Tree(j, 1), "program")

=============================================================================
