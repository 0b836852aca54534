------------------------------ MODULE JobsProofs ------------------------------
(***************************************************************************)
(* The two shells, for any lines of any number of segments, whatever       *)
(* programs are in them: at the prompt every foreground line is over, and  *)
(* the segments of a line are joined as they were typed.                   *)
(***************************************************************************)
EXTENDS Shell, JosShell, TLAPS

JobsNext == ShellNext \/ JosNext

JobsSpec == JobsInit /\ [][JobsNext]_vars
-----------------------------------------------------------------------------
(* The inductive invariant *)

UserProc == Job \X (1 .. MaxSegments) \X {"tree", "left"}
TreeProc == Job \X (1 .. MaxSegments) \X {"tree"}
LeftProc == Job \X (1 .. MaxSegments) \X {"left"}

\* Where a process may be: those that run Tree(j, i), by what they wait for.
Early == {"as_right", "exec_cmd", "left", "program", "rest", "runcmd", "pipe", "fork_rest"}
Before == {"join", "spawn", "exofork"}
Building == {"init_stack", "map_segment", "copy_shared_pages", "set_status"}
Closing == {"close", "wait_left", "close_all", "wait_spawned"}
Waiting == {"wait_right", "wait_pipe_child"}
Ending == {"exit", "done"}
TreePlaces == Early \cup {"right"} \cup Before \cup Building \cup Closing \cup Waiting \cup Ending
Places == TreePlaces \cup {"as_left", "end", "prompt", "wait", "nohang", "wait_line"}

Fds == [Slot -> {None, Tty, File} \cup (PipeId \X {"r", "w"})]

TypeOK ==
  /\ state \in [Proc -> {"none", "embryo", "run", "zombie", "gone", "stopped"}]
  /\ fd \in [Proc -> Fds]
  /\ at \in [Proc -> Places]
  /\ jos \in BOOLEAN
  /\ lines \in Seq(UNION {Line[j] : j \in Job})
  /\ pid \in [ShellProc -> [left : ShellProc \cup {None}, right : ShellProc \cup {None}]]
  /\ spoiled \subseteq Job

Typed == DOMAIN lines

LinesOK == \A j \in Typed : j \in Job /\ lines[j] \in Line[j]

\* The processes of the segments after that of p.
After(p) == {q \in UserProc : q[1] = p[1] /\ q[2] > p[2]}

\* A process there is nothing to wait for.
Over(p) == state[p] \in {"none", "gone"} \/ (jos /\ state[p] = "embryo" /\ p[1] \in spoiled)

Forked(p) == state[p] \in {"run", "zombie", "gone"}

LeftOf(p) == Left(p[1], p[2])
NextOf(p) == Tree(p[1], p[2] + 1)

NoneAfter(p) == \A q \in After(p) : state[q] = "none"
AllOver(p) == Over(LeftOf(p)) /\ \A q \in After(p) : Over(q) \/ LeftBehind(q)
NoneBelow(p) == state[LeftOf(p)] = "none" /\ NoneAfter(p) /\ pid[p] = NoPid

\* The children p waits for.
LeftOK(p) ==
  \/ pid[p].left = None /\ Over(LeftOf(p))
  \/ pid[p].left = LeftOf(p) /\ Forked(LeftOf(p))
RightOK(p) ==
  \/ pid[p].right = None /\ NoneAfter(p)
  \/ pid[p].right = NextOf(p) /\ ~ IsLast(p) /\ Forked(NextOf(p))

\* Where a process that runs may be, and the processes of its segment and of
\* those after it then.
TreeAt(p, where) ==
  /\ p[1] \in Typed /\ p[2] <= Len(Segments(p[1]))
  /\ where \in TreePlaces
  /\ where \in {"left", "right", "pipe", "fork_rest", "join"} => ~ IsLast(p)
  /\ where \in Early => NoneBelow(p)
  /\ where = "right" => LeftOK(p) /\ pid[p].right = None /\ NoneAfter(p)
  /\ where \in Before => state[LeftOf(p)] = "none" /\ pid[p].left = None /\ RightOK(p)
  /\ where \in Building => state[LeftOf(p)] = "embryo" /\ pid[p].left = None /\ RightOK(p)
  /\ where \in Closing => LeftOK(p) /\ RightOK(p)
  /\ where \in Waiting => Over(LeftOf(p)) /\ RightOK(p)
  /\ where \in Ending => AllOver(p)

LeftAt(p, where) ==
  /\ p[1] \in Typed /\ p[2] <= Len(Segments(p[1]))
  /\ where \in {"as_left", "exec_cmd", "program"}
  /\ where \in {"as_left", "exec_cmd"} => ~ IsLast(p)

TreeOK(p) ==
  /\ state[p] \in {"none", "run", "zombie", "gone"}
  /\ state[p] = "none" => NoneBelow(p)
  /\ state[p] \in {"zombie", "gone"} => AllOver(p)
  /\ state[p] = "run" => TreeAt(p, at[p])

LeftProcOK(p) == state[p] = "run" => LeftAt(p, at[p])

\* The shell waits for the line in the foreground.
TopOK ==
  /\ fd[Sh] = Terminal
  /\ at[Sh] \in {"prompt", "wait", "nohang", "wait_line"}
  /\ \A j \in Job :
       /\ j \notin Typed => state[Tree(j, 1)] = "none"
       /\ j \in Typed /\ ~ lines[j].back =>
            \/ state[Tree(j, 1)] \in {"none", "gone"}
            \/ at[Sh] \in {"wait", "wait_line"} /\ j = Len(lines) /\ pid[Sh].left = Tree(j, 1)

\* What a process reads from and writes to when its program runs.
In(p) == IF p[2] = 1 THEN Tty ELSE End(PipeOf(p[1], p[2] - 1), "r")
Out(p) == IF SegmentOf(p).out THEN File
          ELSE IF IsLast(p) THEN Tty ELSE End(PipeOf(p[1], p[2]), "w")
Err(p) == IF SegmentOf(p).err THEN File ELSE Tty
ReadsAs(p, f) == InputIgnored(p) \/ f["in"] = IF SegmentOf(p).in THEN File ELSE In(p)
Writes(p, f, to) == WritesAcross(p[1]) \/ f["out"] = to
JoinedAs(p, f) ==
  ReadsAs(p, f) /\ Writes(p, f, Out(p)) /\ (ErrorIgnored(p) \/ f["err"] = Err(p))

\* As its parent left it: no file yet.
ErrorsToTty(f) == jos \/ f["err"] = Tty
AsGiven(p, f) == f["in"] = In(p) /\ Writes(p, f, Tty) /\ ErrorsToTty(f)
BothEnds(p, f) == f["r"] = End(PipeOf(p[1], p[2]), "r") /\ f["w"] = End(PipeOf(p[1], p[2]), "w")

\* The descriptors f of a process of the line, where it is.
TreeFdAt(p, where, f) ==
  /\ where = "program" => JoinedAs(p, f)
  /\ where \in {"as_right", "rest"} =>
       /\ p[2] > 1 /\ f["r"] = End(PipeOf(p[1], p[2] - 1), "r")
       /\ Writes(p, f, Tty) /\ ErrorsToTty(f)
  /\ where \in {"exec_cmd", "left", "right", "runcmd"} => AsGiven(p, f)
  /\ where \in {"left", "right", "fork_rest"} => BothEnds(p, f)
  /\ where \in {"pipe", "fork_rest"} => ReadsAs(p, f) /\ Writes(p, f, Tty) /\ ErrorsToTty(f)
  /\ where = "join" => ReadsAs(p, f) /\ f["w"] = End(PipeOf(p[1], p[2]), "w")
  /\ where \in {"spawn", "exofork"} \cup Building => JoinedAs(p, f)

LeftFdAt(p, where, f) ==
  /\ where = "program" => JoinedAs(p, f)
  /\ where = "as_left" => AsGiven(p, f) /\ f["w"] = End(PipeOf(p[1], p[2]), "w")
  /\ where = "exec_cmd" =>
       f["in"] = In(p) /\ f["out"] = End(PipeOf(p[1], p[2]), "w") /\ ErrorsToTty(f)

\* In a line in which nothing failed.
Sound(p) == p[1] \notin spoiled

TreeFd(p) ==
  state[p] = "run" /\ Sound(p) =>
    /\ TreeFdAt(p, at[p], fd[p])
    /\ at[p] = "set_status" => JoinedAs(p, fd[LeftOf(p)])

LeftFd(p) == state[p] = "run" /\ Sound(p) => LeftFdAt(p, at[p], fd[p])

\* While no panic has stopped the machine.
Goes ==
  /\ TopOK
  /\ \A p \in TreeProc : TreeOK(p) /\ TreeFd(p)
  /\ \A p \in LeftProc : LeftProcOK(p) /\ LeftFd(p)

IInv ==
  /\ TypeOK
  /\ LinesOK
  /\ state[Sh] \in {"run", "stopped"}
  /\ state[Sh] = "run" => Goes
  /\ state[Sh] = "stopped" => \A p \in Proc : state[p] # "run"
-----------------------------------------------------------------------------
(* Names *)

\* No two processes of the shell have one name.
LEMMA TreeNames ==
  ASSUME NEW j \in Job, NEW i \in 1 .. MaxSegments
  PROVE  /\ Tree(j, i) \in TreeProc /\ Tree(j, i) \in UserProc
         /\ Tree(j, i)[1] = j /\ Tree(j, i)[2] = i /\ Tree(j, i)[3] = "tree"
         /\ Left(j, i) \in LeftProc /\ Left(j, i) \in UserProc
         /\ Left(j, i)[1] = j /\ Left(j, i)[2] = i /\ Left(j, i)[3] = "left"
BY DEF Tree, Left, TreeProc, LeftProc, UserProc

LEMMA ProcNames ==
  /\ \A p \in UserProc : /\ p[1] \in Job /\ p[2] \in 1 .. MaxSegments
                         /\ p[3] \in {"tree", "left"}
                         /\ p[3] = "tree" => p \in TreeProc
                         /\ p[3] = "left" => p \in LeftProc
  /\ \A p \in TreeProc : p \in UserProc /\ p[3] = "tree" /\ p = Tree(p[1], p[2])
  /\ \A p \in LeftProc : p \in UserProc /\ p[3] = "left" /\ p = Left(p[1], p[2])
BY DEF Tree, Left, TreeProc, LeftProc, UserProc

LEMMA ShellNames ==
  /\ Sh \in ShellProc /\ Sh \in Proc /\ Sh \notin UserProc
  /\ ShellProc = UserProc \cup {Sh} /\ ShellProc \subseteq Proc
  /\ None \notin Proc
BY JobsAssumption DEF Sh, ShellProc, UserProc

LEMMA Length ==
  ASSUME LinesOK, NEW j \in Typed
  PROVE  /\ j \in Job
         /\ Len(Segments(j)) \in 1 .. MaxSegments
         /\ Segments(j) \in Seq(Segment)
BY JobsAssumption DEF LinesOK, Segments

\* The next process in the line is there if the segment is not the last.
LEMMA NextNames ==
  ASSUME LinesOK, NEW p \in UserProc, p[1] \in Typed, p[2] <= Len(Segments(p[1])), ~ IsLast(p)
  PROVE  /\ p[2] + 1 \in 1 .. MaxSegments
         /\ NextOf(p) \in TreeProc /\ NextOf(p) \in UserProc
         /\ NextOf(p)[1] = p[1] /\ NextOf(p)[2] = p[2] + 1 /\ NextOf(p)[3] = "tree"
         /\ p[2] + 1 <= Len(Segments(p[1]))
         /\ NextOf(p) # p /\ NextOf(p) # LeftOf(p)
<1>1. p[1] \in Job /\ p[2] \in 1 .. MaxSegments
  BY ProcNames
<1>2. Len(Segments(p[1])) \in 1 .. MaxSegments
  BY Length
<1>3. MaxSegments \in Nat
  BY JobsAssumption
<1>4. p[2] + 1 \in 1 .. MaxSegments /\ p[2] + 1 <= Len(Segments(p[1]))
  BY <1>1, <1>2, <1>3 DEF IsLast
<1>5. p[2] + 1 # p[2]
  BY <1>1, <1>3
<1> QED
  BY <1>1, <1>4, <1>5, TreeNames DEF NextOf, LeftOf

LEMMA LeftNames ==
  ASSUME NEW p \in UserProc
  PROVE  /\ LeftOf(p) \in LeftProc /\ LeftOf(p) \in UserProc
         /\ LeftOf(p)[1] = p[1] /\ LeftOf(p)[2] = p[2] /\ LeftOf(p)[3] = "left"
         /\ p \in TreeProc => LeftOf(p) # p
BY ProcNames, TreeNames DEF LeftOf
-----------------------------------------------------------------------------
(* What a step of a process of the line leaves as it is *)

\* A step of p: of the processes only p and c are changed.
Acts(p, c) ==
  /\ \A q \in Proc \ {p, c} : state'[q] = state[q] /\ at'[q] = at[q] /\ fd'[q] = fd[q]
  /\ \A q \in ShellProc \ {p} : pid'[q] = pid[q]
  /\ jos' = jos /\ lines' = lines
  /\ spoiled \subseteq spoiled'
  /\ Forked(p)'
  /\ Forked(c) => Forked(c)'

\* c is p, or may be a child of p.
ChildOf(c, p) ==
  \/ c = p
  \/ p \in TreeProc /\ c = LeftOf(p)
  \/ p \in TreeProc /\ c \in TreeProc /\ c[1] = p[1] /\ c[2] = p[2] + 1

\* What a step does to the lines and to what was over or forked.
Frame(q) ==
  /\ jos' = jos /\ spoiled \subseteq spoiled'
  /\ \A j \in Typed : j \in Typed' /\ lines'[j] = lines[j]
  /\ \A p \in UserProc : Forked(p) => Forked(p)'
  /\ state[LeftOf(q)] \in {"none", "embryo"} => state'[LeftOf(q)] = state[LeftOf(q)]
  /\ Over(LeftOf(q)) => Over(LeftOf(q))'
  /\ NoneAfter(q) => NoneAfter(q)'
  /\ AllOver(q) => AllOver(q)'
  /\ pid'[q] = pid[q]

LEMMA SameLine ==
  ASSUME NEW q, q[1] \in Typed, jos' = jos, spoiled \subseteq spoiled',
         \A j \in Typed : j \in Typed' /\ lines'[j] = lines[j]
  PROVE  /\ q[1] \in Typed' /\ Segments(q[1])' = Segments(q[1])
         /\ IsLast(q)' <=> IsLast(q)
         /\ SegmentOf(q)' = SegmentOf(q)
         /\ Sound(q)' => Sound(q)
         /\ WritesAcross(q[1])' <=> WritesAcross(q[1])
         /\ LeftBehind(q) => LeftBehind(q)'
BY DEF Segments, IsLast, SegmentOf, Sound, WritesAcross, LeftBehind, Typed

LEMMA SameFd ==
  ASSUME NEW q, q[1] \in Typed, jos' = jos, spoiled \subseteq spoiled',
         \A j \in Typed : j \in Typed' /\ lines'[j] = lines[j],
         NEW where, NEW f
  PROVE  /\ TreeFdAt(q, where, f) => TreeFdAt(q, where, f)'
         /\ LeftFdAt(q, where, f) => LeftFdAt(q, where, f)'
         /\ JoinedAs(q, f) => JoinedAs(q, f)'
<1>1. IsLast(q)' <=> IsLast(q)
  BY SameLine
<1>2. SegmentOf(q)' = SegmentOf(q)
  BY SameLine
<1>3. ReadsAs(q, f)' <=> ReadsAs(q, f)
  BY <1>2 DEF ReadsAs, In, InputIgnored
<1>4. Writes(q, f, Out(q))' <=> Writes(q, f, Out(q))
  BY <1>1, <1>2, SameLine DEF Writes, Out
<1>5. JoinedAs(q, f)' <=> JoinedAs(q, f)
  BY <1>2, <1>3, <1>4 DEF JoinedAs, ErrorIgnored, Err
<1>6. /\ Writes(q, f, Tty)' <=> Writes(q, f, Tty)
      /\ ErrorsToTty(f)' <=> ErrorsToTty(f)
  BY SameLine DEF Writes, ErrorsToTty
<1>7. (AsGiven(q, f)' <=> AsGiven(q, f)) /\ (BothEnds(q, f)' <=> BothEnds(q, f))
  BY <1>6 DEF AsGiven, BothEnds, In
<1> QED
  BY <1>3, <1>5, <1>6, <1>7 DEF TreeFdAt, LeftFdAt, In

LEMMA SameAt ==
  ASSUME LinesOK, NEW q \in TreeProc, Frame(q), NEW where
  PROVE  /\ TreeAt(q, where) => TreeAt(q, where)'
         /\ NoneBelow(q) => NoneBelow(q)'
<1>1. LeftOf(q)' = LeftOf(q) /\ NextOf(q)' = NextOf(q)
  BY DEF LeftOf, NextOf, Left, Tree
<1>2. q \in UserProc /\ LeftOf(q) \in UserProc
  BY ProcNames, LeftNames
<1>3. NoneBelow(q) => NoneBelow(q)'
  BY <1>1 DEF NoneBelow, Frame
<1>4. LeftOK(q) => LeftOK(q)'
  BY <1>1, <1>2 DEF LeftOK, Frame
<1>5. ASSUME TreeAt(q, where)
      PROVE  TreeAt(q, where)'
  <2>1. q[1] \in Typed /\ q[2] <= Len(Segments(q[1]))
    BY <1>5 DEF TreeAt
  <2>2. /\ q[1] \in Typed' /\ Segments(q[1])' = Segments(q[1])
        /\ IsLast(q)' <=> IsLast(q)
    BY <2>1, SameLine DEF Frame
  <2>3. RightOK(q) => RightOK(q)'
    <3>1. ~ IsLast(q) => NextOf(q) \in UserProc
      BY <1>2, <2>1, NextNames
    <3> QED
      BY <1>1, <2>2, <3>1 DEF RightOK, Frame
  <2>4. Over(LeftOf(q)) => Over(LeftOf(q))'
    BY DEF Frame
  <2>5. /\ NoneAfter(q) => NoneAfter(q)'
        /\ AllOver(q) => AllOver(q)'
        /\ pid'[q] = pid[q]
        /\ state[LeftOf(q)] \in {"none", "embryo"} => state'[LeftOf(q)] = state[LeftOf(q)]
    BY DEF Frame
  <2> QED
    BY <1>1, <1>3, <1>4, <1>5, <2>1, <2>2, <2>3, <2>4, <2>5 DEF TreeAt
<1> QED
  BY <1>3, <1>5

\* What is over or waited for stays so, as long as nothing of it is changed.
LEMMA SameTree ==
  ASSUME LinesOK, NEW q \in TreeProc, TreeOK(q), TreeFd(q), Frame(q),
         state'[q] = state[q], at'[q] = at[q], fd'[q] = fd[q],
         state[LeftOf(q)] \in {"none", "embryo"} => fd'[LeftOf(q)] = fd[LeftOf(q)]
  PROVE  TreeOK(q)' /\ TreeFd(q)'
<1>1. LeftOf(q)' = LeftOf(q)
  BY DEF LeftOf, Left
<1>2. TreeOK(q)'
  <2>1. CASE state[q] # "run"
    BY <2>1, SameAt DEF TreeOK, Frame
  <2>2. CASE state[q] = "run"
    <3>1. TreeAt(q, at[q])
      BY <2>2 DEF TreeOK
    <3> QED
      BY <2>2, <3>1, SameAt DEF TreeOK, TreeAt
  <2> QED
    BY <2>1, <2>2
<1>3. TreeFd(q)'
  <2> SUFFICES ASSUME state[q] = "run", Sound(q)'
               PROVE  /\ TreeFdAt(q, at[q], fd[q])'
                      /\ at[q] = "set_status" => JoinedAs(q, fd[LeftOf(q)])'
    BY DEF TreeFd
  <2>1. q[1] \in Typed /\ (at[q] = "set_status" => state[LeftOf(q)] = "embryo")
    BY DEF TreeOK, TreeAt, Building
  <2>2. Sound(q)
    BY <2>1, SameLine DEF Frame
  <2>3. /\ TreeFdAt(q, at[q], fd[q])
        /\ at[q] = "set_status" => JoinedAs(q, fd[LeftOf(q)])
    BY <2>2 DEF TreeFd
  <2> QED
    BY <1>1, <2>1, <2>3, SameFd DEF Frame, TreeFdAt, JoinedAs
<1> QED
  BY <1>2, <1>3

LEMMA SameLeft ==
  ASSUME LinesOK, NEW q \in LeftProc, LeftProcOK(q), LeftFd(q),
         state'[q] = state[q], at'[q] = at[q], fd'[q] = fd[q],
         jos' = jos, spoiled \subseteq spoiled',
         \A j \in Typed : j \in Typed' /\ lines'[j] = lines[j]
  PROVE  LeftProcOK(q)' /\ LeftFd(q)'
<1>1. CASE state[q] # "run"
  BY <1>1 DEF LeftProcOK, LeftFd
<1>2. CASE state[q] = "run"
  <2>1. q[1] \in Typed
    BY <1>2 DEF LeftProcOK, LeftAt
  <2>2. /\ q[1] \in Typed' /\ Segments(q[1])' = Segments(q[1])
        /\ IsLast(q)' <=> IsLast(q)
        /\ Sound(q)' => Sound(q)
    BY <2>1, SameLine
  <2>3. LeftProcOK(q)'
    BY <1>2, <2>2 DEF LeftProcOK, LeftAt
  <2>4. LeftFd(q)'
    BY <1>2, <2>1, <2>2, SameFd DEF LeftFd, LeftFdAt
  <2> QED
    BY <2>3, <2>4
<1> QED
  BY <1>1, <1>2

\* A step of p disturbs no process but p and c, of whatever line and segment.
LEMMA OthersKept ==
  ASSUME LinesOK, Goes, NEW p \in UserProc, state[p] = "run",
         NEW c \in UserProc, ChildOf(c, p), Acts(p, c)
  PROVE  /\ \A q \in TreeProc : q # p /\ q # c => TreeOK(q)' /\ TreeFd(q)'
         /\ \A q \in LeftProc : q # p /\ q # c => LeftProcOK(q)' /\ LeftFd(q)'
<1>1. UserProc \subseteq Proc /\ UserProc \subseteq ShellProc
  BY ShellNames
<1>2. /\ jos' = jos /\ lines' = lines /\ spoiled \subseteq spoiled'
      /\ \A j \in Typed : j \in Typed' /\ lines'[j] = lines[j]
      /\ Forked(p)' /\ (Forked(c) => Forked(c)')
  BY DEF Acts, Typed
<1>3. \A q \in UserProc : q # p /\ q # c => state'[q] = state[q] /\ at'[q] = at[q] /\ fd'[q] = fd[q]
  BY <1>1 DEF Acts
<1>4. \A q \in UserProc : q # p => pid'[q] = pid[q]
  BY <1>1 DEF Acts
<1>5. \A q \in UserProc : Forked(q) => Forked(q)'
  BY <1>2, <1>3 DEF Forked
<1>6. \A q \in UserProc : q # p /\ q # c => (Over(q) => Over(q)')
  BY <1>2, <1>3 DEF Over
<1>7. \A q \in UserProc : LeftBehind(q) => LeftBehind(q)'
  BY <1>2, SameLine DEF LeftBehind, Typed
<1>8. ASSUME NEW q \in TreeProc, q # p, q # c
      PROVE  TreeOK(q)' /\ TreeFd(q)'
  <2> DEFINE l == LeftOf(q)
  <2>1. q \in UserProc /\ l \in UserProc /\ l[1] = q[1] /\ l[2] = q[2] /\ l[3] = "left" /\ q[3] = "tree"
    BY ProcNames, LeftNames
  <2>2. /\ p[1] \in Job /\ p[2] \in Nat /\ p[3] \in {"tree", "left"}
        /\ q[1] \in Job /\ q[2] \in Nat /\ MaxSegments \in Nat
    BY <2>1, ProcNames, JobsAssumption
  <2>3. TreeOK(q) /\ TreeFd(q)
    BY DEF Goes
  <2>5. c = l => c = p
    <3>1. p \in TreeProc /\ c = LeftOf(p) /\ c = l => p = q
      <4> HAVE p \in TreeProc /\ c = LeftOf(p) /\ c = l
      <4>3. LeftOf(p)[1] = p[1] /\ LeftOf(p)[2] = p[2]
        BY LeftNames
      <4>4. LeftOf(p) = LeftOf(q)
        OBVIOUS
      <4>1. p[1] = q[1] /\ p[2] = q[2]
        BY <2>1, <4>3, <4>4
      <4>2. p = Tree(p[1], p[2]) /\ q = Tree(q[1], q[2])
        BY ProcNames
      <4> QED
        BY <4>1, <4>2
    <3>2. c = l => c \notin TreeProc
      BY <2>1, ProcNames
    <3> QED
      BY <1>8, <3>1, <3>2 DEF ChildOf
  <2>6. p # l => c # l
    BY <2>5
  <2>7. p = l => ~ Over(l) /\ Forked(l)
    BY DEF Over, Forked
  <2>8. Over(l) => Over(l)'
    BY <1>6, <2>1, <2>6, <2>7
  <2>10. state[l] \in {"none", "embryo"} => state'[l] = state[l] /\ fd'[l] = fd[l]
    <3> HIDE DEF l
    <3> QED
      BY <1>3, <2>1, <2>6
  <2>11. \A r \in After(q) : /\ r \in UserProc /\ r[1] = q[1] /\ r[2] > q[2]
    BY DEF After
  <2>13. c \in After(q) => p \in After(q)
    <3>1. CASE c = p
      BY <3>1
    <3>2. CASE p \in TreeProc /\ c = LeftOf(p)
      BY <3>2, LeftNames DEF After
    <3>3. CASE p \in TreeProc /\ c \in TreeProc /\ c[1] = p[1] /\ c[2] = p[2] + 1
      <4>1. c \in After(q) => p[1] = q[1] /\ p[2] + 1 > q[2]
        BY <3>3 DEF After
      <4>2. c \in After(q) => p[2] # q[2]
        BY <1>8, <3>3, <4>1, <2>1, ProcNames
      <4> QED
        BY <4>1, <4>2, <2>2 DEF After
    <3> QED
      BY <3>1, <3>2, <3>3 DEF ChildOf
  <2>14. p \notin After(q) => (NoneAfter(q) => NoneAfter(q)') /\ (AllOver(q) => AllOver(q)')
    <3> HAVE p \notin After(q)
    <3>1. \A r \in After(q) : r # p /\ r # c
      BY <2>13
    <3>2. \A r \in After(q) : /\ Over(r) => Over(r)'
                              /\ LeftBehind(r) => LeftBehind(r)'
                              /\ state'[r] = state[r]
      BY <3>1, <2>11, <1>3, <1>6, <1>7
    <3>3. After(q)' = After(q) /\ LeftOf(q)' = LeftOf(q)
      BY DEF After, LeftOf, Left, UserProc
    <3>4. NoneAfter(q) => NoneAfter(q)'
      BY <3>2, <3>3 DEF NoneAfter
    <3>5. \A r \in After(q) : Over(r) \/ LeftBehind(r) => Over(r)' \/ LeftBehind(r)'
      BY <3>2
    <3>6. AllOver(q) => AllOver(q)'
      BY <3>3, <3>5, <2>8 DEF AllOver
    <3> QED
      BY <3>4, <3>6
  <2>15. p \in After(q) => (NoneAfter(q) => NoneAfter(q)') /\ (AllOver(q) => AllOver(q)')
    <3> HAVE p \in After(q)
    <3>1. ~ NoneAfter(q)
      BY DEF NoneAfter
    <3>2. ASSUME AllOver(q)
          PROVE  AllOver(q)'
      <4>1. LeftBehind(p)
        BY <3>2 DEF AllOver, Over
      <4>2. c[1] = p[1] /\ c[2] \in Nat /\ c[2] >= p[2]
        BY <2>2, LeftNames, ProcNames, JobsAssumption DEF ChildOf
      <4>3. LeftBehind(c)
        <5>1. PICK i \in DOMAIN Segments(p[1]) : i < p[2] /\ Segments(p[1])[i].prog = "none"
          BY <4>1 DEF LeftBehind
        <5>2. i \in Nat
          BY <4>1, Length DEF LeftBehind, Typed
        <5>3. i < c[2]
          BY <2>2, <4>2, <5>1, <5>2
        <5> QED
          BY <4>1, <4>2, <5>1, <5>3 DEF LeftBehind
      <4>4. \A r \in After(q) : Over(r) \/ LeftBehind(r) => Over(r)' \/ LeftBehind(r)'
        BY <1>6, <1>7, <2>11, <4>1, <4>3
      <4>5. After(q)' = After(q) /\ LeftOf(q)' = LeftOf(q)
        BY DEF After, LeftOf, Left, UserProc
      <4> QED
        BY <2>8, <3>2, <4>4, <4>5 DEF AllOver
    <3> QED
      BY <3>1, <3>2
  <2>16. (NoneAfter(q) => NoneAfter(q)') /\ (AllOver(q) => AllOver(q)')
    BY <2>14, <2>15
  <2>17. state'[q] = state[q] /\ at'[q] = at[q] /\ fd'[q] = fd[q] /\ pid'[q] = pid[q]
    BY <1>3, <1>4, <1>8, <2>1
  <2>18. Frame(q)
    BY <1>2, <1>5, <2>8, <2>10, <2>16, <2>17 DEF Frame
  <2> QED
    BY <2>3, <2>10, <2>17, <2>18, SameTree
<1>9. ASSUME NEW q \in LeftProc, q # p, q # c
      PROVE  LeftProcOK(q)' /\ LeftFd(q)'
  <2>1. q \in UserProc
    BY ProcNames
  <2> QED
    BY <1>2, <1>3, <1>9, <2>1, SameLeft DEF Goes
<1> QED
  BY <1>8, <1>9

-----------------------------------------------------------------------------
(* A step of a process of the line, as a whole *)

\* What holds while the machine goes on.
Up == TypeOK /\ LinesOK /\ state[Sh] = "run" /\ Goes

\* What a step of p leaves to be shown is what it does to p and c.
LEMMA UserStep ==
  ASSUME Up, NEW p \in UserProc, state[p] = "run", NEW c \in UserProc,
         ChildOf(c, p), Acts(p, c), TypeOK',
         \A q \in {p, c} : /\ q \in TreeProc => TreeOK(q)' /\ TreeFd(q)'
                           /\ q \in LeftProc => LeftProcOK(q)' /\ LeftFd(q)'
  PROVE  Up'
<1>1. LinesOK'
  BY DEF Up, Acts, LinesOK, Typed
<1>2. Sh # p /\ Sh # c /\ Sh \in Proc /\ Sh \in ShellProc
  BY ShellNames
<1>3. state'[Sh] = state[Sh] /\ at'[Sh] = at[Sh] /\ fd'[Sh] = fd[Sh] /\ pid'[Sh] = pid[Sh]
  BY <1>2 DEF Acts
<1>4. /\ \A q \in TreeProc : TreeOK(q)' /\ TreeFd(q)'
      /\ \A q \in LeftProc : LeftProcOK(q)' /\ LeftFd(q)'
  BY OthersKept DEF Up
<1>5. TopOK'
  <2>1. TopOK
    BY DEF Up, Goes
  <2>2. ASSUME NEW j \in Job
        PROVE  /\ j \notin Typed' => state'[Tree(j, 1)] = "none"
               /\ j \in Typed' /\ ~ lines'[j].back =>
                    \/ state'[Tree(j, 1)] \in {"none", "gone"}
                    \/ at'[Sh] \in {"wait", "wait_line"} /\ j = Len(lines') /\ pid'[Sh].left = Tree(j, 1)
    <3> DEFINE t == Tree(j, 1)
    <3>1. t \in TreeProc /\ t \in UserProc /\ t[1] = j /\ t[2] = 1 /\ t[3] = "tree"
      BY TreeNames, JobsAssumption
    <3>2. c = t => c = p
      <4>1. c # LeftOf(p)  \/ c # t
        BY <3>1, LeftNames
      <4>2. p[2] + 1 # 1
        BY ProcNames, JobsAssumption
      <4> QED
        BY <3>1, <4>1, <4>2 DEF ChildOf
    <3>3. p = t => j \in Typed
      BY <3>1 DEF Up, Goes, TreeOK, TreeAt
    <3>4. p # t => state'[t] = state[t]
      BY <3>1, <3>2, ShellNames DEF Acts
    <3>5. lines' = lines
      BY DEF Acts
    <3> HIDE DEF t
    <3>6. /\ j \notin Typed' => state'[t] = "none"
          /\ j \in Typed' /\ ~ lines'[j].back =>
               \/ state'[t] \in {"none", "gone"}
               \/ at'[Sh] \in {"wait", "wait_line"} /\ j = Len(lines') /\ pid'[Sh].left = t
      <4>1. /\ j \notin Typed => state[t] = "none"
            /\ j \in Typed /\ ~ lines[j].back =>
                 \/ state[t] \in {"none", "gone"}
                 \/ at[Sh] \in {"wait", "wait_line"} /\ j = Len(lines) /\ pid[Sh].left = t
        BY <2>1 DEF TopOK, t
      <4> QED
        BY <1>3, <3>3, <3>4, <3>5, <4>1 DEF Typed
    <3> QED
      BY <3>6 DEF t
  <2> QED
    BY <1>3, <2>1, <2>2 DEF TopOK, Sh, Tree
<1> QED
  BY <1>1, <1>3, <1>4, <1>5 DEF Up, Goes

-----------------------------------------------------------------------------
(* The kinds of steps *)

\* A step that changes no process' state disturbs nothing p waits for.
LEMMA SameStates ==
  ASSUME NEW p \in TreeProc, state' = state, pid'[p] = pid[p], lines' = lines, jos' = jos,
         spoiled \subseteq spoiled'
  PROVE  Frame(p)
<1>1. \A q \in UserProc : LeftBehind(q) => LeftBehind(q)'
  BY SameLine DEF LeftBehind, Typed
<1>2. After(p)' = After(p) /\ LeftOf(p)' = LeftOf(p) /\ After(p) \subseteq UserProc
  BY DEF After, LeftOf, Left, UserProc
<1>3. \A q : Over(q) => Over(q)'
  BY DEF Over
<1>4. (NoneAfter(p) => NoneAfter(p)') /\ (AllOver(p) => AllOver(p)')
  BY <1>1, <1>2, <1>3 DEF NoneAfter, AllOver
<1> QED
  BY <1>2, <1>3, <1>4 DEF Frame, Forked, Typed

\* p changes its descriptors to f, if any, and goes on at next.
LEMMA SetsKept ==
  ASSUME Up, NEW p \in UserProc, state[p] = "run", NEW f \in Fds, NEW next \in Places,
         Sets(p, f, next), lines' = lines, jos' = jos, pid' = pid,
         spoiled \subseteq spoiled', spoiled' \subseteq Job,
         p \in TreeProc => TreeAt(p, next)',
         p \in TreeProc /\ Sound(p)' => TreeFdAt(p, next, f) /\ next # "set_status",
         p \in LeftProc => LeftAt(p, next),
         p \in LeftProc /\ Sound(p)' => LeftFdAt(p, next, f)
  PROVE  Up'
<1>1. p \in Proc /\ p \in ShellProc
  BY ShellNames
<1>2. TypeOK'
  BY <1>1 DEF Up, TypeOK, Sets, Goto
<1>3. Acts(p, p)
  BY <1>1 DEF Up, TypeOK, Sets, Goto, Acts, Forked
<1>4. state' = state /\ at'[p] = next /\ fd'[p] = f
  BY <1>1 DEF Up, TypeOK, Sets, Goto
<1>5. /\ \A j \in Typed : j \in Typed' /\ lines'[j] = lines[j]
      /\ p \in TreeProc \cup LeftProc => p[1] \in Typed
  BY DEF Typed, Up, Goes, TreeOK, TreeAt, LeftProcOK, LeftAt
<1>6. ASSUME p \in TreeProc
      PROVE  TreeOK(p)' /\ TreeFd(p)'
  <2>1. TreeOK(p)'
    BY <1>4, <1>6 DEF TreeOK, TreeAt
  <2>2. TreeFd(p)'
    BY <1>4, <1>5, <1>6, SameFd DEF TreeFd, TreeFdAt
  <2> QED
    BY <2>1, <2>2
<1>7. ASSUME p \in LeftProc
      PROVE  LeftProcOK(p)' /\ LeftFd(p)'
  <2>1. IsLast(p)' <=> IsLast(p)
    BY <1>5, <1>7, SameLine
  <2>2. LeftProcOK(p)'
    <3>1. Len(Segments(p[1]))' = Len(Segments(p[1])) /\ p[1] \in Typed'
      BY <1>5, <1>7, SameLine
    <3> QED
      BY <1>4, <1>7, <2>1, <3>1 DEF LeftProcOK, LeftAt
  <2>3. LeftFd(p)'
    BY <1>4, <1>5, <1>7, SameFd DEF LeftFd, LeftFdAt
  <2> QED
    BY <2>2, <2>3
<1> QED
  BY <1>2, <1>3, <1>6, <1>7, UserStep DEF ChildOf

\* p ends, when there is nothing left to wait for.
LEMMA EndsKept ==
  ASSUME Up, NEW p \in UserProc, state[p] = "run", NEW remains \in {"zombie", "gone"},
         state' = [state EXCEPT ![p] = remains], fd' = [fd EXCEPT ![p] = Closed],
         Goto(p, "end"), lines' = lines, jos' = jos, pid' = pid,
         spoiled \subseteq spoiled', spoiled' \subseteq Job,
         p \in TreeProc => AllOver(p)
  PROVE  Up'
<1>1. p \in Proc /\ p \in ShellProc
  BY ShellNames
<1>2. TypeOK'
  <2>1. Closed \in Fds
    BY DEF Closed, Fds
  <2>2. state' \in [Proc -> {"none", "embryo", "run", "zombie", "gone", "stopped"}]
    BY <1>1 DEF Up, TypeOK
  <2>3. fd' \in [Proc -> Fds] /\ at' \in [Proc -> Places]
    BY <1>1, <2>1 DEF Up, TypeOK, Goto, Places
  <2> QED
    BY <2>2, <2>3 DEF Up, TypeOK
<1>3. Acts(p, p)
  BY <1>1 DEF Up, TypeOK, Goto, Acts, Forked
<1>4. state'[p] = remains
  BY <1>1 DEF Up, TypeOK
<1>5. ASSUME p \in TreeProc
      PROVE  TreeOK(p)' /\ TreeFd(p)'
  <2>1. \A q \in UserProc : (Over(q) => Over(q)') /\ (LeftBehind(q) => LeftBehind(q)')
    BY ShellNames, SameLine DEF Over, LeftBehind, Typed, Up, TypeOK
  <2>2. After(p)' = After(p) /\ LeftOf(p)' = LeftOf(p)
    BY DEF After, LeftOf, Left, UserProc
  <2>3. After(p) \subseteq UserProc /\ LeftOf(p) \in UserProc
    BY LeftNames DEF After
  <2>4. AllOver(p)'
    BY <1>5, <2>1, <2>2, <2>3 DEF AllOver
  <2> QED
    BY <1>4, <2>4 DEF TreeOK, TreeFd
<1>6. p \in LeftProc => LeftProcOK(p)' /\ LeftFd(p)'
  BY <1>4 DEF LeftProcOK, LeftFd
<1> QED
  BY <1>2, <1>3, <1>5, <1>6, UserStep DEF ChildOf

\* p forks c, which waits for nobody yet.
LEMMA ForksKept ==
  ASSUME Up, NEW p \in TreeProc, state[p] = "run", NEW c \in UserProc, c # p, ChildOf(c, p),
         NEW next \in Places, NEW where \in Places, NEW side \in {"left", "right"},
         Forks(p, next, c, where), pid' = [pid EXCEPT ![p][side] = c],
         lines' = lines, jos' = jos, spoiled' = spoiled,
         TreeAt(p, next)',
         Sound(p) => TreeFdAt(p, next, fd[p]) /\ next # "set_status",
         c \in TreeProc => TreeAt(c, where)',
         c \in TreeProc /\ Sound(c) => TreeFdAt(c, where, fd[p]) /\ where # "set_status",
         c \in LeftProc => LeftAt(c, where),
         c \in LeftProc /\ Sound(c) => LeftFdAt(c, where, fd[p])
  PROVE  Up'
<1>1. /\ p \in Proc /\ p \in ShellProc /\ p \in UserProc
      /\ c \in Proc /\ c \in ShellProc
  BY ShellNames, ProcNames
<1>2. TypeOK'
  BY <1>1 DEF Up, TypeOK, Forks
<1>3. /\ state'[p] = "run" /\ at'[p] = next /\ fd'[p] = fd[p]
      /\ state'[c] = "run" /\ at'[c] = where /\ fd'[c] = fd[p] /\ state[c] = "none"
  BY <1>1 DEF Up, TypeOK, Forks
<1>4. Acts(p, c)
  <2>1. \A q \in Proc \ {p, c} : state'[q] = state[q] /\ at'[q] = at[q] /\ fd'[q] = fd[q]
    BY <1>1 DEF Up, TypeOK, Forks
  <2>2. \A q \in ShellProc \ {p} : pid'[q] = pid[q]
    BY <1>1 DEF Up, TypeOK
  <2> QED
    BY <1>3, <2>1, <2>2 DEF Acts, Forked
<1>5. /\ \A j \in Typed : j \in Typed' /\ lines'[j] = lines[j]
      /\ p[1] \in Typed /\ c[1] = p[1]
      /\ Sound(p)' <=> Sound(p)
      /\ Sound(c)' <=> Sound(c)
  BY <1>1, LeftNames DEF Typed, Up, Goes, TreeOK, TreeAt, ChildOf, Sound, WritesAcross, Segments
<1>6. TreeOK(p)' /\ TreeFd(p)'
  <2>1. TreeOK(p)'
    BY <1>3 DEF TreeOK, TreeAt
  <2>2. TreeFd(p)'
    BY <1>3, <1>5, SameFd DEF TreeFd, TreeFdAt
  <2> QED
    BY <2>1, <2>2
<1>7. ASSUME c \in TreeProc
      PROVE  TreeOK(c)' /\ TreeFd(c)'
  <2>1. TreeOK(c)'
    BY <1>3, <1>7 DEF TreeOK, TreeAt
  <2>2. TreeFd(c)'
    BY <1>3, <1>5, <1>7, SameFd DEF TreeFd, TreeFdAt
  <2> QED
    BY <2>1, <2>2
<1>8. ASSUME c \in LeftProc
      PROVE  LeftProcOK(c)' /\ LeftFd(c)'
  <2>1. /\ IsLast(c)' <=> IsLast(c)
        /\ Len(Segments(c[1]))' = Len(Segments(c[1])) /\ c[1] \in Typed'
    BY <1>5, SameLine
  <2>2. LeftProcOK(c)'
    BY <1>3, <1>8, <2>1 DEF LeftProcOK, LeftAt
  <2>3. LeftFd(c)'
    BY <1>3, <1>5, <1>8, SameFd DEF LeftFd, LeftFdAt
  <2> QED
    BY <2>2, <2>3
<1>9. p \notin LeftProc
  BY ProcNames
<1> QED
  BY <1>1, <1>2, <1>4, <1>6, <1>7, <1>8, <1>9, UserStep

\* p finds that c has ended, and waits for it no more.
LEMMA ReapsKept ==
  ASSUME Up, NEW p \in TreeProc, state[p] = "run", NEW c \in UserProc, c # p, ChildOf(c, p),
         NEW next \in Places, Reaps(p, c, next),
         lines' = lines, jos' = jos, pid' = pid, spoiled' = spoiled,
         TreeAt(p, next)',
         next \in {"wait_left", "wait_right", "exit"}
  PROVE  Up'
<1>1. /\ p \in Proc /\ p \in ShellProc /\ p \in UserProc
      /\ c \in Proc /\ c \in ShellProc
  BY ShellNames, ProcNames
<1>2. TypeOK'
  BY <1>1 DEF Up, TypeOK, Reaps, Goto
<1>3. /\ state'[p] = "run" /\ at'[p] = next /\ fd' = fd
      /\ state'[c] = "gone" /\ state[c] = "zombie"
      /\ \A q \in Proc \ {c} : state'[q] = state[q]
  BY <1>1 DEF Up, TypeOK, Reaps, Goto
<1>4. Acts(p, c)
  <2>1. \A q \in Proc \ {p, c} : state'[q] = state[q] /\ at'[q] = at[q] /\ fd'[q] = fd[q]
    BY <1>1 DEF Up, TypeOK, Reaps, Goto
  <2> QED
    BY <1>3, <2>1 DEF Acts, Forked
<1>5. TreeOK(p)' /\ TreeFd(p)'
  <2>1. TreeOK(p)'
    BY <1>3 DEF TreeOK, TreeAt
  <2>2. TreeFd(p)'
    BY <1>3 DEF TreeFd, TreeFdAt, Building
  <2> QED
    BY <2>1, <2>2
<1>6. ASSUME c \in TreeProc
      PROVE  TreeOK(c)' /\ TreeFd(c)'
  <2>1. \A q \in UserProc : (Over(q) => Over(q)') /\ (LeftBehind(q) => LeftBehind(q)')
    BY <1>3, ShellNames, SameLine DEF Over, LeftBehind, Typed
  <2>2. After(c)' = After(c) /\ LeftOf(c)' = LeftOf(c)
    BY DEF After, LeftOf, Left, UserProc
  <2>3. After(c) \subseteq UserProc /\ LeftOf(c) \in UserProc
    BY LeftNames DEF After
  <2>4. AllOver(c)
    BY <1>3, <1>6 DEF Up, Goes, TreeOK
  <2>5. AllOver(c)'
    BY <2>1, <2>2, <2>3, <2>4 DEF AllOver
  <2> QED
    BY <1>3, <2>5 DEF TreeOK, TreeFd
<1>7. c \in LeftProc => LeftProcOK(c)' /\ LeftFd(c)'
  BY <1>3 DEF LeftProcOK, LeftFd
<1>8. p \notin LeftProc
  BY ProcNames
<1> QED
  BY <1>1, <1>2, <1>4, <1>5, <1>6, <1>7, <1>8, UserStep

-----------------------------------------------------------------------------
(* The shell itself *)

\* A step of the shell, in which c may be started or waited for.
LEMMA ShellStep ==
  ASSUME Up, NEW c \in ShellProc, c = Sh \/ (c \in TreeProc /\ c[2] = 1),
         TypeOK', LinesOK', TopOK', state'[Sh] = "run",
         \A q \in Proc \ {Sh, c} : state'[q] = state[q] /\ at'[q] = at[q] /\ fd'[q] = fd[q],
         \A q \in ShellProc \ {Sh} : pid'[q] = pid[q],
         jos' = jos, spoiled \subseteq spoiled',
         \A j \in Typed : j \in Typed' /\ lines'[j] = lines[j],
         Forked(c) => Forked(c)',
         c \in TreeProc => TreeOK(c)' /\ TreeFd(c)'
  PROVE  Up'
<1>1. /\ Sh \notin UserProc /\ UserProc \subseteq Proc /\ UserProc \subseteq ShellProc
      /\ Sh \notin TreeProc /\ Sh \notin LeftProc
  BY ShellNames, ProcNames
<1>2. \A q \in UserProc : pid'[q] = pid[q]
  BY <1>1
<1>3. \A q \in UserProc : q # c => state'[q] = state[q] /\ at'[q] = at[q] /\ fd'[q] = fd[q]
  BY <1>1
<1>4. \A q \in UserProc : Forked(q) => Forked(q)'
  BY <1>3 DEF Forked
<1>5. \A q \in UserProc : q # c => (Over(q) => Over(q)')
  BY <1>3 DEF Over
<1>6. ASSUME NEW q \in TreeProc, q # c
      PROVE  TreeOK(q)' /\ TreeFd(q)'
  <2>1. /\ q \in UserProc /\ LeftOf(q) \in UserProc /\ LeftOf(q) # c
    BY ProcNames, LeftNames, <1>1
  <2>2. \A r \in After(q) : r \in UserProc /\ r # c
    <3>1. q[2] \in Nat /\ q[2] >= 1
      BY <2>1, ProcNames, JobsAssumption
    <3>2. c[2] = 1 \/ c = Sh
      OBVIOUS
    <3> QED
      BY <1>1, <3>1, <3>2 DEF After
  <2>3. /\ Over(LeftOf(q)) => Over(LeftOf(q))'
        /\ state'[LeftOf(q)] = state[LeftOf(q)] /\ fd'[LeftOf(q)] = fd[LeftOf(q)]
    BY <2>1, <1>3, <1>5
  <2>4. After(q)' = After(q) /\ LeftOf(q)' = LeftOf(q)
    BY DEF After, LeftOf, Left, UserProc
  <2>5. \A r \in After(q) : LeftBehind(r) => LeftBehind(r)'
    BY <2>2, SameLine DEF LeftBehind, Typed
  <2>6. (NoneAfter(q) => NoneAfter(q)') /\ (AllOver(q) => AllOver(q)')
    BY <2>2, <2>3, <2>4, <2>5, <1>3, <1>5 DEF NoneAfter, AllOver
  <2>7. Frame(q)
    BY <1>2, <1>4, <2>1, <2>3, <2>6 DEF Frame
  <2>8. state'[q] = state[q] /\ at'[q] = at[q] /\ fd'[q] = fd[q]
    BY <1>3, <1>6, <2>1
  <2> QED
    BY <2>3, <2>7, <2>8, SameTree DEF Up, Goes
<1>7. ASSUME NEW q \in LeftProc
      PROVE  LeftProcOK(q)' /\ LeftFd(q)'
  <2>1. q \in UserProc /\ q \notin TreeProc
    BY ProcNames
  <2>2. state'[q] = state[q] /\ at'[q] = at[q] /\ fd'[q] = fd[q]
    BY <1>1, <1>3, <2>1
  <2> QED
    BY <2>2, SameLeft DEF Up, Goes
<1> QED
  BY <1>6, <1>7 DEF Up, Goes

\* A line more is typed.
LEMMA LineTyped ==
  ASSUME Up, NEW j \in Job, NEW line \in Line[j], j = Len(lines) + 1,
         lines' = Append(lines, line)
  PROVE  /\ lines' \in Seq(UNION {Line[k] : k \in Job})
         /\ LinesOK'
         /\ j \notin Typed /\ Typed' = Typed \cup {j} /\ lines'[j] = line
         /\ \A k \in Typed : k \in Typed' /\ lines'[k] = lines[k]
         /\ Len(lines') = j
<1>1. lines \in Seq(UNION {Line[k] : k \in Job})
  BY DEF Up, TypeOK
<1>2. line \in UNION {Line[k] : k \in Job}
  OBVIOUS
<1> HIDE DEF Job
<1> DEFINE S == UNION {Line[k] : k \in Job}
<1>3. lines \in Seq(S) /\ line \in S
  BY <1>1, <1>2
<1> HIDE DEF S
<1>4. lines' \in Seq(S)
  BY <1>3
<1>5. /\ j \notin Typed /\ Typed' = Typed \cup {j} /\ lines'[j] = line
      /\ \A k \in Typed : k \in Typed' /\ lines'[k] = lines[k]
      /\ Len(lines') = j
  BY <1>3 DEF Typed
<1>6. LinesOK'
  <2>1. LinesOK
    BY DEF Up
  <2> QED
    BY <1>5, <2>1 DEF LinesOK
<1> QED
  BY <1>4, <1>5, <1>6 DEF S

\* At the prompt there is nothing left of a line in the foreground.
LEMMA AtPrompt ==
  ASSUME Up, at[Sh] = "prompt", NEW j \in Typed, ~ lines[j].back
  PROVE  j \in Job /\ state[Tree(j, 1)] \in {"none", "gone"}
BY DEF Up, Goes, TopOK, LinesOK

\* The shell forks the process that runs the line.
LEMMA LineForked ==
  ASSUME Up, NEW j \in Job, NEW line \in Line[j], j = Len(lines) + 1, at[Sh] = "prompt",
         lines' = Append(lines, line), NEW next \in {"wait", "nohang", "wait_line"},
         next = "nohang" => line.back,
         NEW where \in {"exec_cmd", "runcmd"},
         Forks(Sh, next, Tree(j, 1), where),
         pid' = [pid EXCEPT ![Sh].left = Tree(j, 1)]
           \/ pid' = [pid EXCEPT ![Sh] = [left |-> Tree(j, 1), right |-> None]],
         jos' = jos, spoiled' = spoiled
  PROVE  Up'
<1> DEFINE t == Tree(j, 1)
<1>1. /\ t \in TreeProc /\ t \in UserProc /\ t \in Proc /\ t \in ShellProc
      /\ t[1] = j /\ t[2] = 1 /\ t # Sh /\ Sh \in Proc /\ Sh \in ShellProc
  BY TreeNames, ShellNames, JobsAssumption
<1>2. /\ lines' \in Seq(UNION {Line[k] : k \in Job})
      /\ LinesOK'
      /\ j \notin Typed /\ Typed' = Typed \cup {j} /\ lines'[j] = line
      /\ \A k \in Typed : k \in Typed' /\ lines'[k] = lines[k]
      /\ Len(lines') = j
  BY LineTyped
<1>3. next \in Places /\ where \in Places
  BY DEF Places, TreePlaces, Early
<1>4. \A q \in ShellProc \ {Sh} : pid'[q] = pid[q]
  BY <1>1 DEF Up, TypeOK
<1>5. pid'[Sh].left = t
  BY <1>1 DEF Up, TypeOK
<1>6. /\ state'[Sh] = "run" /\ at'[Sh] = next /\ fd'[Sh] = fd[Sh]
      /\ state[t] = "none" /\ state'[t] = "run" /\ at'[t] = where /\ fd'[t] = fd[Sh]
      /\ \A q \in Proc \ {Sh, t} : state'[q] = state[q] /\ at'[q] = at[q] /\ fd'[q] = fd[q]
  BY <1>1 DEF Up, TypeOK, Forks
<1>7. TypeOK'
  <2>1. state' \in [Proc -> {"none", "embryo", "run", "zombie", "gone", "stopped"}]
    BY <1>1 DEF Up, TypeOK, Forks
  <2>2. fd' \in [Proc -> Fds] /\ at' \in [Proc -> Places]
    BY <1>1, <1>3 DEF Up, TypeOK, Forks
  <2>3. pid' \in [ShellProc -> [left : ShellProc \cup {None}, right : ShellProc \cup {None}]]
    BY <1>1 DEF Up, TypeOK
  <2> QED
    BY <1>2, <2>1, <2>2, <2>3 DEF Up, TypeOK
<1>8. \A k \in Job : k # j => Tree(k, 1) # t /\ Tree(k, 1) # Sh /\ Tree(k, 1) \in Proc
  BY <1>1, TreeNames, ShellNames, JobsAssumption
<1>9. TopOK'
  <2>1. fd'[Sh] = Terminal /\ at'[Sh] \in {"wait", "nohang", "wait_line"}
    BY <1>6 DEF Up, Goes, TopOK
  <2>2. ASSUME NEW k \in Job
        PROVE  /\ k \notin Typed' => state'[Tree(k, 1)] = "none"
               /\ k \in Typed' /\ ~ lines'[k].back =>
                    \/ state'[Tree(k, 1)] \in {"none", "gone"}
                    \/ at'[Sh] \in {"wait", "wait_line"} /\ k = Len(lines') /\ pid'[Sh].left = Tree(k, 1)
    <3>1. CASE k = j
      BY <3>1, <1>2, <1>5, <1>6
    <3>2. CASE k # j
      <4>1. state'[Tree(k, 1)] = state[Tree(k, 1)]
        BY <3>2, <1>6, <1>8
      <4>2. k \in Typed' => k \in Typed /\ lines'[k] = lines[k]
        BY <3>2, <1>2
      <4>3. k \notin Typed => state[Tree(k, 1)] = "none"
        BY DEF Up, Goes, TopOK
      <4> QED
        BY <1>2, <4>1, <4>2, <4>3, AtPrompt
    <3> QED
      BY <3>1, <3>2
  <2> QED
    BY <2>1, <2>2 DEF TopOK, Sh, Tree, Terminal
<1>10. TreeOK(t)' /\ TreeFd(t)'
  <2>1. NoneBelow(t)
    BY <1>1, <1>6 DEF Up, Goes, TreeOK
  <2>2. LeftOf(t)' = LeftOf(t) /\ After(t)' = After(t)
    BY DEF LeftOf, Left, After, UserProc, Tree
  <2>3. \A q \in After(t) : q \in Proc /\ q # Sh /\ q # t
    BY <1>1, ShellNames DEF After
  <2>4. LeftOf(t) \in Proc /\ LeftOf(t) # Sh /\ LeftOf(t) # t
    BY <1>1, LeftNames, ShellNames
  <2>5. NoneBelow(t)'
    BY <1>1, <1>4, <1>6, <2>1, <2>2, <2>3, <2>4 DEF NoneBelow, NoneAfter
  <2>6. t[1] \in Typed' /\ t[2] <= Len(Segments(t[1]))'
    <3>1. Len(line.segments) \in 1 .. MaxSegments
      BY JobsAssumption
    <3>2. Segments(j)' = line.segments
      BY <1>2 DEF Segments
    <3> HIDE DEF t
    <3> QED
      BY <1>1, <1>2, <3>1, <3>2, JobsAssumption
  <2>7. TreeOK(t)'
    BY <1>6, <2>5, <2>6 DEF TreeOK, TreeAt, TreePlaces, Early, Before, Building, Closing, Waiting, Ending
  <2>8. AsGiven(t, fd[t])'
    BY <1>1, <1>6 DEF AsGiven, In, Writes, ErrorsToTty, Up, Goes, TopOK, Terminal, Slot
  <2>9. TreeFd(t)'
    BY <1>6, <2>8 DEF TreeFd, TreeFdAt, Building
  <2> QED
    BY <2>7, <2>9
<1> HIDE DEF t
<1> QED
  BY <1>1, <1>2, <1>4, <1>6, <1>7, <1>9, <1>10, ShellStep DEF Forked

\* No process was started for the line.
LEMMA LineNotForked ==
  ASSUME Up, NEW j \in Job, NEW line \in Line[j], j = Len(lines) + 1, at[Sh] = "prompt",
         lines' = Append(lines, line), NEW next \in {"wait", "nohang"},
         Goto(Sh, next), pid' = [pid EXCEPT ![Sh] = NoPid], Fails(j),
         UNCHANGED <<state, fd, buf>>, jos' = jos
  PROVE  Up'
<1>1. Sh \in Proc /\ Sh \in ShellProc
  BY ShellNames
<1>2. /\ lines' \in Seq(UNION {Line[k] : k \in Job})
      /\ LinesOK'
      /\ j \notin Typed /\ Typed' = Typed \cup {j} /\ lines'[j] = line
      /\ \A k \in Typed : k \in Typed' /\ lines'[k] = lines[k]
      /\ Len(lines') = j
  BY LineTyped
<1>3. \A q \in ShellProc \ {Sh} : pid'[q] = pid[q]
  BY <1>1 DEF Up, TypeOK
<1>4. /\ state' = state /\ fd' = fd /\ at'[Sh] = next
      /\ \A q \in Proc \ {Sh} : at'[q] = at[q]
  BY <1>1 DEF Up, TypeOK, Goto
<1>5. TypeOK'
  <2>1. at' \in [Proc -> Places]
    BY <1>1 DEF Up, TypeOK, Goto, Places
  <2>2. pid' \in [ShellProc -> [left : ShellProc \cup {None}, right : ShellProc \cup {None}]]
    BY <1>1 DEF Up, TypeOK, NoPid
  <2>3. spoiled' \subseteq Job
    BY DEF Up, TypeOK, Fails
  <2> QED
    BY <1>2, <1>4, <2>1, <2>2, <2>3 DEF Up, TypeOK
<1>6. TopOK'
  <2>1. fd'[Sh] = Terminal /\ at'[Sh] \in {"wait", "nohang"}
    BY <1>4 DEF Up, Goes, TopOK
  <2>2. ASSUME NEW k \in Job
        PROVE  /\ k \notin Typed' => state'[Tree(k, 1)] = "none"
               /\ k \in Typed' /\ ~ lines'[k].back =>
                    \/ state'[Tree(k, 1)] \in {"none", "gone"}
                    \/ at'[Sh] \in {"wait", "wait_line"} /\ k = Len(lines') /\ pid'[Sh].left = Tree(k, 1)
    <3>1. k \notin Typed => state[Tree(k, 1)] = "none"
      BY DEF Up, Goes, TopOK
    <3> QED
      BY <1>2, <1>4, <3>1, AtPrompt
  <2> QED
    BY <2>1, <2>2 DEF TopOK, Sh, Tree, Terminal
<1>7. Sh \notin TreeProc /\ state'[Sh] = "run"
  BY <1>4, ShellNames, ProcNames DEF Up
<1> QED
  BY <1>1, <1>2, <1>3, <1>4, <1>5, <1>6, <1>7, ShellStep DEF Fails, Forked

\* The shell is back at the prompt, having waited for c if there was one.
LEMMA BackAtPrompt ==
  ASSUME Up, NEW c \in ShellProc, c = Sh \/ (\E j \in Job : c = Tree(j, 1)),
         c = Sh => Goto(Sh, "prompt") /\ UNCHANGED <<state, fd, buf>>,
         c # Sh => Reaps(Sh, c, "prompt"),
         UNCHANGED jobs,
         \A j \in Typed : ~ lines[j].back =>
           state[Tree(j, 1)] \in {"none", "gone"} \/ Tree(j, 1) = c
  PROVE  Up'
<1>1. /\ Sh \in Proc /\ Sh \in ShellProc /\ c \in Proc
      /\ Sh \notin TreeProc /\ Sh \notin LeftProc
  BY ShellNames, ProcNames
<1>2. c # Sh => c \in TreeProc /\ c \in UserProc /\ c[2] = 1
  BY TreeNames, JobsAssumption
<1>3. /\ jos' = jos /\ lines' = lines /\ pid' = pid /\ spoiled' = spoiled
      /\ Typed' = Typed
  BY DEF jobs, Typed
<1>4. /\ fd' = fd /\ at' = [at EXCEPT ![Sh] = "prompt"]
      /\ \A q \in Proc \ {c} : state'[q] = state[q]
      /\ c # Sh => state[c] = "zombie" /\ state'[c] = "gone"
      /\ state' \in [Proc -> {"none", "embryo", "run", "zombie", "gone", "stopped"}]
      /\ c = Sh => state' = state
  BY <1>1 DEF Up, TypeOK, Reaps, Goto
<1>5. TypeOK'
  <2>1. at' \in [Proc -> Places]
    BY <1>1, <1>4 DEF Up, TypeOK, Places
  <2> QED
    BY <1>3, <1>4, <2>1 DEF Up, TypeOK
<1>6. LinesOK'
  BY <1>3 DEF Up, LinesOK
<1>7. state'[Sh] = "run" /\ at'[Sh] = "prompt" /\ \A q \in Proc \ {Sh} : at'[q] = at[q]
  BY <1>1, <1>4 DEF Up, TypeOK
<1>8. TopOK'
  <2>1. ASSUME NEW j \in Job
        PROVE  /\ j \notin Typed => state'[Tree(j, 1)] = "none"
               /\ j \in Typed /\ ~ lines[j].back => state'[Tree(j, 1)] \in {"none", "gone"}
    <3>1. Tree(j, 1) \in Proc
      BY TreeNames, ShellNames, JobsAssumption
    <3>2. j \notin Typed => state[Tree(j, 1)] = "none"
      BY DEF Up, Goes, TopOK
    <3>3. Tree(j, 1) = c => state[c] = "zombie" /\ state'[c] = "gone"
      <4>1. Tree(j, 1) # Sh
        BY <1>1, TreeNames, JobsAssumption
      <4> QED
        BY <1>4, <4>1
    <3> QED
      BY <1>4, <3>1, <3>2, <3>3
  <2>2. fd'[Sh] = Terminal
    BY <1>4 DEF Up, Goes, TopOK
  <2> QED
    BY <1>3, <1>7, <2>1, <2>2 DEF TopOK, Sh, Tree, Terminal
<1>9. ASSUME c \in TreeProc
      PROVE  TreeOK(c)' /\ TreeFd(c)'
  <2>1. c # Sh
    BY <1>1, <1>9
  <2>2. AllOver(c)
    BY <1>4, <1>9, <2>1 DEF Up, Goes, TreeOK
  <2>3. \A q \in UserProc : (Over(q) => Over(q)') /\ (LeftBehind(q) => LeftBehind(q)')
    BY <1>3, <1>4, <2>1, ShellNames DEF Over, LeftBehind, Segments
  <2>4. After(c)' = After(c) /\ LeftOf(c)' = LeftOf(c)
    BY DEF After, LeftOf, Left, UserProc
  <2>5. After(c) \subseteq UserProc /\ LeftOf(c) \in UserProc
    BY <1>2, <2>1, LeftNames DEF After
  <2>6. AllOver(c)'
    BY <2>2, <2>3, <2>4, <2>5 DEF AllOver
  <2> QED
    BY <1>4, <2>1, <2>6 DEF TreeOK, TreeFd
<1>10. Forked(c) => Forked(c)'
  BY <1>4, <1>7 DEF Forked
<1> QED
  BY <1>1, <1>2, <1>3, <1>4, <1>5, <1>6, <1>7, <1>8, <1>9, <1>10, ShellStep

LEMMA RunCmdKept ==
  ASSUME Up, NEW j \in Job, NEW line \in Line[j], RunCmd(j, line)
  PROVE  Up'
<1>1. /\ at[Sh] = "prompt" /\ j = Len(lines) + 1 /\ lines' = Append(lines, line) /\ jos' = jos
  BY DEF RunCmd, Running
<1> DEFINE next == IF line.back THEN "nohang" ELSE "wait"
<1>2. next \in {"wait", "nohang"} /\ (next = "nohang" => line.back)
  OBVIOUS
<1>3. CASE /\ Forks(Sh, next, Tree(j, 1), "exec_cmd")
           /\ pid' = [pid EXCEPT ![Sh] = [left |-> Tree(j, 1), right |-> None]]
           /\ UNCHANGED spoiled
  <2> HIDE DEF next
  <2> QED
    BY <1>1, <1>2, <1>3, LineForked
<1>4. CASE /\ Goto(Sh, next)
           /\ pid' = [pid EXCEPT ![Sh] = NoPid]
           /\ Fails(j)
           /\ UNCHANGED <<state, fd, buf>>
  <2> HIDE DEF next
  <2> QED
    BY <1>1, <1>2, <1>4, LineNotForked
<1> QED
  BY <1>3, <1>4 DEF RunCmd

LEMMA WaitsKept ==
  ASSUME Up, Waits
  PROVE  Up'
<1>1. Sh \in ShellProc /\ None \notin ShellProc
  BY ShellNames
<1>2. /\ \A j \in Typed : ~ lines[j].back =>
           \/ state[Tree(j, 1)] \in {"none", "gone"}
           \/ at[Sh] \in {"wait", "wait_line"} /\ pid[Sh].left = Tree(j, 1)
      /\ \A j \in Typed : j \in Job /\ Tree(j, 1) \in ShellProc /\ Tree(j, 1) # Sh
  <2>1. \A j \in Typed : j \in Job
    BY DEF Up, LinesOK
  <2>2. \A j \in Job : Tree(j, 1) \in ShellProc /\ Tree(j, 1) # Sh
    BY TreeNames, ShellNames, JobsAssumption
  <2> QED
    BY <2>1, <2>2 DEF Up, Goes, TopOK
<1>3. ASSUME NEW c \in Children, pid[Sh].left \in {c, None}, Reaps(Sh, c, "prompt"), UNCHANGED jobs
      PROVE  Up'
  <2>1. c \in ShellProc /\ c # Sh /\ \E j \in Job : c = Tree(j, 1)
    BY TreeNames, ShellNames, JobsAssumption DEF Children
  <2>2. \A j \in Typed : ~ lines[j].back => state[Tree(j, 1)] \in {"none", "gone"} \/ Tree(j, 1) = c
    BY <1>1, <1>2, <1>3
  <2> QED
    BY <1>3, <2>1, <2>2, BackAtPrompt
<1>4. ASSUME at[Sh] = "nohang" \/ pid[Sh].left = None, Goto(Sh, "prompt"),
             UNCHANGED <<state, fd, buf>>, UNCHANGED jobs
      PROVE  Up'
  <2>1. \A j \in Typed : ~ lines[j].back => state[Tree(j, 1)] \in {"none", "gone"}
    BY <1>1, <1>2, <1>4
  <2> QED
    BY <1>1, <1>4, <2>1, BackAtPrompt
<1>5. CASE WaitForeground
  BY <1>3, <1>4, <1>5 DEF WaitForeground
<1>6. CASE WaitBackground
  BY <1>3, <1>4, <1>6 DEF WaitBackground, Running
<1> QED
  BY <1>5, <1>6 DEF Waits

-----------------------------------------------------------------------------
(* Processes of the line *)

\* Where a process that runs is, and what it has open.
LEMMA RunsTree ==
  ASSUME Up, NEW p \in TreeProc, state[p] = "run"
  PROVE  /\ p \in UserProc /\ p \in Proc /\ p \in ShellProc /\ p \notin LeftProc
         /\ TreeAt(p, at[p]) /\ at[p] # "as_left" /\ at[p] # "end"
         /\ Sound(p) => TreeFdAt(p, at[p], fd[p])
         /\ fd[p] \in Fds
         /\ p[1] \in Job /\ p[2] \in 1 .. MaxSegments /\ PipeOf(p[1], p[2]) \in PipeId
         /\ p[1] \in Typed /\ p[2] <= Len(Segments(p[1]))
<1>1. p \in UserProc /\ p \in Proc /\ p \in ShellProc /\ p \notin LeftProc
  BY ProcNames, ShellNames
<1>2. TreeAt(p, at[p]) /\ (Sound(p) => TreeFdAt(p, at[p], fd[p]))
  BY DEF Up, Goes, TreeOK, TreeFd
<1>3. at[p] # "as_left" /\ at[p] # "end"
  BY <1>2 DEF TreeAt, TreePlaces, Early, Before, Building, Closing, Waiting, Ending
<1>4. fd[p] \in Fds
  BY <1>1 DEF Up, TypeOK
<1>5. p[1] \in Job /\ p[2] \in 1 .. MaxSegments /\ PipeOf(p[1], p[2]) \in PipeId
  BY <1>1, ProcNames, JobsAssumption DEF PipeOf
<1> QED
  BY <1>1, <1>2, <1>3, <1>4, <1>5 DEF TreeAt

LEMMA RunsLeft ==
  ASSUME Up, NEW p \in LeftProc, state[p] = "run"
  PROVE  /\ p \in UserProc /\ p \in Proc /\ p \in ShellProc /\ p \notin TreeProc
         /\ LeftAt(p, at[p])
         /\ Sound(p) => LeftFdAt(p, at[p], fd[p])
         /\ fd[p] \in Fds
         /\ p[1] \in Typed
BY ProcNames, ShellNames DEF Up, Goes, LeftProcOK, LeftFd, TypeOK, LeftAt

\* A line in which nothing failed is one in which nothing had.
LEMMA StillSound ==
  ASSUME NEW p, p[1] \in Typed, lines' = lines, jos' = jos, spoiled \subseteq spoiled', Sound(p)'
  PROVE  Sound(p)
BY SameLine DEF Typed

LEMMA EndIsEnd ==
  ASSUME NEW k \in PipeId
  PROVE  /\ End(k, "r") \in PipeId \X {"r", "w"} /\ End(k, "w") \in PipeId \X {"r", "w"}
         /\ End(k, "r") # None /\ End(k, "w") # None
BY JobsAssumption DEF End

\* p goes on in its program, with the descriptors f.
LEMMA MoveKept ==
  ASSUME Up, NEW p \in UserProc, state[p] = "run", NEW f \in Fds, NEW next \in Places,
         Sets(p, f, next), lines' = lines, jos' = jos, pid' = pid,
         spoiled \subseteq spoiled', spoiled' \subseteq Job,
         p \in TreeProc => TreeAt(p, next),
         p \in TreeProc /\ Sound(p) /\ Sound(p)' => TreeFdAt(p, next, f) /\ next # "set_status",
         p \in LeftProc => LeftAt(p, next),
         p \in LeftProc /\ Sound(p) /\ Sound(p)' => LeftFdAt(p, next, f)
  PROVE  Up'
<1>1. ASSUME p \in TreeProc
      PROVE  TreeAt(p, next)'
  <2>1. Frame(p)
    BY <1>1, SameStates DEF Sets
  <2> QED
    BY <1>1, <2>1, SameAt DEF Up
<1>2. p \in TreeProc \cup LeftProc => p[1] \in Typed
  BY DEF TreeAt, LeftAt
<1>3. p \in TreeProc \cup LeftProc => (Sound(p)' => Sound(p))
  BY <1>2, StillSound
<1> QED
  BY <1>1, <1>3, SetsKept

LEMMA StandsStill ==
  ASSUME Up, NEW p \in UserProc, state[p] = "run", NEW next \in Places,
         Goto(p, next), UNCHANGED <<state, fd, buf>>,
         lines' = lines, jos' = jos, pid' = pid, spoiled' = spoiled,
         p \in TreeProc => TreeAt(p, next),
         p \in TreeProc /\ Sound(p) => TreeFdAt(p, next, fd[p]) /\ next # "set_status",
         p \in LeftProc => LeftAt(p, next),
         p \in LeftProc /\ Sound(p) => LeftFdAt(p, next, fd[p])
  PROVE  Up'
<1>1. fd[p] \in Fds /\ fd = [fd EXCEPT ![p] = fd[p]]
  BY ShellNames DEF Up, TypeOK
<1>2. Sets(p, fd[p], next)
  BY <1>1 DEF Sets
<1>3. spoiled' \subseteq Job
  BY DEF Up, TypeOK
<1> QED
  BY <1>1, <1>2, <1>3, MoveKept

LEMMA EndsOver ==
  ASSUME Up, NEW p \in UserProc, state[p] = "run", NEW remains \in {"zombie", "gone"},
         Ends(p, remains), lines' = lines, jos' = jos, pid' = pid,
         spoiled \subseteq spoiled', spoiled' \subseteq Job,
         p \in TreeProc => at[p] \in Early \cup Ending
  PROVE  Up'
<1>1. ASSUME p \in TreeProc
      PROVE  AllOver(p)
  <2>1. TreeAt(p, at[p])
    BY <1>1, RunsTree
  <2>2. NoneBelow(p) => AllOver(p)
    BY DEF NoneBelow, NoneAfter, AllOver, Over
  <2> QED
    BY <1>1, <2>1, <2>2 DEF TreeAt
<1> QED
  BY <1>1, EndsKept DEF Ends

\* One that fails spoils its line.
LEMMA Spoils ==
  ASSUME Up, NEW p \in UserProc, Fails(p[1])
  PROVE  spoiled \subseteq spoiled' /\ spoiled' \subseteq Job /\ ~ Sound(p)'
<1>1. p[1] \in Job
  BY ProcNames
<1> QED
  BY <1>1 DEF Up, TypeOK, Fails, Sound

-----------------------------------------------------------------------------
(* The shell of TP shell: exec_cmd and pipe_command *)

LEMMA MakePipeKept ==
  ASSUME Up, NEW p \in UserProc, MakePipe(p)
  PROVE  Up'
<1>1. p \in TreeProc /\ ~ IsLast(p) /\ state[p] = "run" /\ at[p] = "exec_cmd"
  BY ProcNames DEF MakePipe, Running, IsPipe
<1>2. /\ fd[p] \in Fds /\ PipeOf(p[1], p[2]) \in PipeId /\ TreeAt(p, "exec_cmd") /\ p \notin LeftProc
      /\ Sound(p) => TreeFdAt(p, "exec_cmd", fd[p])
  BY <1>1, RunsTree
<1>3. CASE Sets(p, WithPipe(fd[p], PipeOf(p[1], p[2])), "left") /\ UNCHANGED spoiled
  <2> DEFINE f == WithPipe(fd[p], PipeOf(p[1], p[2]))
  <2>1. f \in Fds
    BY <1>2, EndIsEnd DEF WithPipe, Fds, Slot
  <2>2. /\ f["in"] = fd[p]["in"] /\ f["out"] = fd[p]["out"] /\ f["err"] = fd[p]["err"]
        /\ f["r"] = End(PipeOf(p[1], p[2]), "r") /\ f["w"] = End(PipeOf(p[1], p[2]), "w")
    BY <1>2 DEF WithPipe, Fds, Slot
  <2> HIDE DEF f
  <2>3. Sound(p) => TreeFdAt(p, "left", f)
    BY <1>2, <2>2 DEF TreeFdAt, AsGiven, Writes, ErrorsToTty, BothEnds, Building
  <2>4. TreeAt(p, "left") /\ "left" \in Places
    BY <1>1, <1>2 DEF TreeAt, TreePlaces, Places, Early, Before, Building, Closing, Waiting, Ending
  <2>5. Sets(p, f, "left") /\ spoiled' = spoiled /\ spoiled' \subseteq Job
    BY <1>3 DEF f, Up, TypeOK
  <2> QED
    BY <1>1, <1>2, <2>1, <2>3, <2>4, <2>5, MoveKept DEF MakePipe
<1>4. CASE Exits(p) /\ Fails(p[1])
  BY <1>1, <1>4, Spoils, EndsOver DEF Exits, MakePipe, Early
<1> QED
  BY <1>3, <1>4 DEF MakePipe

LEMMA ForkFailsKept ==
  ASSUME Up, NEW p \in TreeProc, state[p] = "run", NEW next \in {"right", "close"},
         at[p] = IF next = "right" THEN "left" ELSE "right",
         Sets(p, Without(fd[p], {"r", "w"}), next), Fails(p[1]),
         pid' = pid, jos' = jos, lines' = lines
  PROVE  Up'
<1>1. p \in UserProc /\ fd[p] \in Fds /\ TreeAt(p, at[p]) /\ p \notin LeftProc
  BY RunsTree
<1>2. Without(fd[p], {"r", "w"}) \in Fds
  BY <1>1 DEF Without, Fds
<1>3. next \in Places
  BY DEF Places, TreePlaces, Closing
<1>4. TreeAt(p, next)
  <2>1. NoneBelow(p) => LeftOK(p) /\ pid[p].right = None /\ NoneAfter(p)
    BY DEF NoneBelow, LeftOK, NoPid, Over
  <2>2. pid[p].right = None /\ NoneAfter(p) => RightOK(p)
    BY DEF RightOK
  <2> QED
    BY <1>1, <2>1, <2>2 DEF TreeAt, TreePlaces, Early, Before, Building, Closing, Waiting, Ending
<1> QED
  BY <1>1, <1>2, <1>3, <1>4, Spoils, MoveKept

LEMMA ExecHijoIzqKept ==
  ASSUME Up, NEW p \in UserProc, ExecHijoIzq(p)
  PROVE  Up'
<1>1. p \in TreeProc /\ state[p] = "run" /\ at[p] = "left"
  BY ProcNames, RunsLeft DEF ExecHijoIzq, ForkSide, Running, LeftAt
<1>2. /\ p \in Proc /\ p \in ShellProc /\ TreeAt(p, "left") /\ p \notin LeftProc
      /\ Sound(p) => TreeFdAt(p, "left", fd[p])
      /\ p[1] \in Typed /\ p[2] <= Len(Segments(p[1]))
  BY <1>1, RunsTree DEF ExecHijoIzq, ForkSide
<1>3. ASSUME Forks(p, "right", Left(p[1], p[2]), "as_left"),
             pid' = [pid EXCEPT ![p]["left"] = Left(p[1], p[2])], spoiled' = spoiled
      PROVE  Up'
  <2> DEFINE c == LeftOf(p)
  <2>1. /\ c \in UserProc /\ c \in LeftProc /\ c # p /\ c[1] = p[1] /\ c[2] = p[2] /\ c[3] = "left"
        /\ c \in Proc /\ c \notin TreeProc
    BY <1>1, LeftNames, ProcNames, ShellNames
  <2>2. c = Left(p[1], p[2])
    BY DEF LeftOf
  <2> HIDE DEF c
  <2>3. /\ state'[c] = "run" /\ pid'[p] = [left |-> c, right |-> pid[p].right]
        /\ \A q \in Proc \ {c} : state'[q] = state[q]
    BY <1>2, <1>3, <2>1, <2>2 DEF Up, TypeOK, Forks
  <2>4. NoneBelow(p) /\ ~ IsLast(p)
    BY <1>2 DEF TreeAt, Early
  <2>5. TreeAt(p, "right")'
    <3>1. LeftOf(p)' = c /\ After(p)' = After(p)
      BY DEF LeftOf, Left, After, UserProc, c
    <3>2. LeftOK(p)'
      BY <2>3, <3>1 DEF LeftOK, Forked
    <3>3. \A q \in After(p) : q \in Proc /\ q # c
      BY <2>1, ShellNames, ProcNames DEF After
    <3>4. NoneAfter(p)' /\ pid'[p].right = None
      BY <2>3, <2>4, <3>1, <3>3 DEF NoneBelow, NoneAfter, NoPid
    <3>5. /\ p[1] \in Typed' /\ p[2] <= Len(Segments(p[1]))'
          /\ ~ IsLast(p)'
      BY <1>2, <2>4 DEF ExecHijoIzq, ForkSide, Typed, Segments, IsLast
    <3> QED
      BY <3>2, <3>4, <3>5 DEF TreeAt, TreePlaces, Early, Before, Building, Closing, Waiting, Ending
  <2>6. Sound(p) => TreeFdAt(p, "right", fd[p])
    BY <1>2 DEF TreeFdAt, AsGiven, BothEnds, Building
  <2>7. LeftAt(c, "as_left")
    BY <1>2, <2>1, <2>4 DEF LeftAt, IsLast
  <2>8. Sound(c) => LeftFdAt(c, "as_left", fd[p])
    BY <1>2, <2>1 DEF Sound, TreeFdAt, LeftFdAt, AsGiven, Writes, BothEnds, In
  <2>9. "right" \in Places /\ "as_left" \in Places
    BY DEF Places, TreePlaces
  <2>10. ChildOf(c, p)
    BY <1>1 DEF ChildOf, c
  <2>11. lines' = lines /\ jos' = jos
    BY DEF ExecHijoIzq, ForkSide
  <2> QED
    BY <1>1, <1>3, <2>1, <2>2, <2>5, <2>6, <2>7, <2>8, <2>9, <2>10, <2>11, ForksKept
<1>4. CASE Sets(p, Without(fd[p], {"r", "w"}), "right") /\ Fails(p[1]) /\ UNCHANGED pid
  BY <1>1, <1>4, ForkFailsKept DEF ExecHijoIzq, ForkSide
<1> QED
  BY <1>3, <1>4 DEF ExecHijoIzq, ForkSide

\* The process after p in the line, when it has just been forked.
LEMMA FreshNext ==
  ASSUME LinesOK, NEW p \in UserProc, p[1] \in Typed, p[2] <= Len(Segments(p[1])), ~ IsLast(p),
         NEW q \in UserProc
  PROVE  /\ q \in After(NextOf(p)) => q \in After(p) /\ q # NextOf(p)
         /\ LeftOf(NextOf(p)) \in After(p) /\ LeftOf(NextOf(p)) # NextOf(p)
         /\ NextOf(p) \in After(p)
         /\ q \in After(p) =>
              q = NextOf(p) \/ q = LeftOf(NextOf(p)) \/ q \in After(NextOf(p))
<1> DEFINE n == NextOf(p)
<1>1. /\ n \in TreeProc /\ n \in UserProc /\ n[1] = p[1] /\ n[2] = p[2] + 1 /\ n[3] = "tree"
      /\ p[2] \in Nat /\ q[2] \in Nat
  BY NextNames, ProcNames, JobsAssumption
<1>2. /\ LeftOf(n) \in UserProc /\ LeftOf(n)[1] = n[1] /\ LeftOf(n)[2] = n[2] /\ LeftOf(n) # n
  BY <1>1, LeftNames
<1>3. q[1] = n[1] /\ q[2] = n[2] => q = n \/ q = LeftOf(n)
  BY <1>1, ProcNames DEF LeftOf
<1> HIDE DEF n
<1>4. q \in After(n) => q \in After(p) /\ q # n
  BY <1>1 DEF After
<1>5. LeftOf(n) \in After(p) /\ n \in After(p)
  BY <1>1, <1>2 DEF After
<1>6. q \in After(p) => q = n \/ q = LeftOf(n) \/ q \in After(n)
  <2> HAVE q \in After(p)
  <2>1. q[1] = n[1] /\ q[2] > p[2]
    BY <1>1 DEF After
  <2>2. q[2] = n[2] \/ q[2] > n[2]
    BY <1>1, <2>1
  <2> QED
    BY <1>3, <2>1, <2>2 DEF After
<1> QED
  BY <1>2, <1>4, <1>5, <1>6 DEF n

\* What a child that runs the rest of the line finds.
LEMMA NextStarts ==
  ASSUME Up, NEW p \in TreeProc, p[1] \in Typed, p[2] <= Len(Segments(p[1])), ~ IsLast(p),
         state[NextOf(p)] = "none", lines' = lines,
         \A q \in Proc \ {NextOf(p)} : state'[q] = state[q],
         pid'[NextOf(p)] = pid[NextOf(p)], NEW where \in {"as_right", "rest"}
  PROVE  TreeAt(NextOf(p), where)'
<1> DEFINE c == NextOf(p)
<1>1. p \in UserProc
  BY ProcNames
<1>2. /\ c \in TreeProc /\ c \in UserProc /\ c[1] = p[1] /\ c[2] = p[2] + 1
      /\ p[2] + 1 <= Len(Segments(p[1]))
  BY <1>1, NextNames DEF Up
<1>3. NoneBelow(c)
  BY <1>2 DEF Up, Goes, TreeOK
<1>4. LeftOf(c)' = LeftOf(c) /\ After(c)' = After(c)
  BY DEF LeftOf, Left, After, UserProc, NextOf, Tree
<1>5. \A q \in After(c) : q \in Proc /\ q # c
  BY <1>1, FreshNext, ShellNames DEF After, Up
<1>6. LeftOf(c) \in Proc /\ LeftOf(c) # c
  BY <1>2, LeftNames, ShellNames
<1>7. NoneBelow(c)'
  BY <1>3, <1>4, <1>5, <1>6 DEF NoneBelow, NoneAfter
<1>8. c[1] \in Typed' /\ c[2] <= Len(Segments(c[1]))'
  BY <1>2 DEF Typed, Segments
<1> HIDE DEF c
<1>9. TreeAt(c, where)'
  BY <1>7, <1>8 DEF TreeAt, TreePlaces, Early, Before, Building, Closing, Waiting, Ending
<1> QED
  BY <1>9 DEF c

LEMMA ExecHijoDerKept ==
  ASSUME Up, NEW p \in UserProc, ExecHijoDer(p)
  PROVE  Up'
<1>1. p \in TreeProc /\ state[p] = "run" /\ at[p] = "right"
  BY ProcNames, RunsLeft DEF ExecHijoDer, ForkSide, Running, LeftAt
<1>2. /\ p \in Proc /\ p \in ShellProc /\ TreeAt(p, "right")
      /\ Sound(p) => TreeFdAt(p, "right", fd[p])
      /\ p[1] \in Typed /\ p[2] <= Len(Segments(p[1])) /\ p[2] \in 1 .. MaxSegments
  BY <1>1, RunsTree
<1>3. ASSUME Forks(p, "close", Tree(p[1], p[2] + 1), "as_right"),
             pid' = [pid EXCEPT ![p]["right"] = Tree(p[1], p[2] + 1)], spoiled' = spoiled
      PROVE  Up'
  <2> DEFINE c == NextOf(p)
  <2>1. LeftOK(p) /\ NoneAfter(p) /\ ~ IsLast(p)
    BY <1>2 DEF TreeAt
  <2>2. /\ c \in UserProc /\ c \in TreeProc /\ c # p /\ c[1] = p[1] /\ c[2] = p[2] + 1
        /\ c \in Proc /\ c \notin LeftProc
        /\ LeftOf(p) # c /\ LeftOf(p) \in Proc
    BY <1>1, <1>2, <2>1, NextNames, LeftNames, ProcNames, ShellNames DEF Up
  <2>3. c = Tree(p[1], p[2] + 1)
    BY DEF NextOf
  <2>4. lines' = lines /\ jos' = jos
    BY DEF ExecHijoDer, ForkSide
  <2>5. state[c] = "none"
    BY <1>3, <2>3 DEF Forks
  <2> HIDE DEF c
  <2>6. /\ state'[c] = "run" /\ pid'[p] = [left |-> pid[p].left, right |-> c]
        /\ \A q \in Proc \ {c} : state'[q] = state[q]
        /\ pid'[c] = pid[c]
    <3>1. state' = [state EXCEPT ![c] = "run"] /\ pid' = [pid EXCEPT ![p].right = c]
      BY <1>3, <2>3 DEF Forks
    <3>2. /\ state \in [Proc -> {"none", "embryo", "run", "zombie", "gone", "stopped"}]
          /\ pid \in [ShellProc -> [left : ShellProc \cup {None}, right : ShellProc \cup {None}]]
          /\ c \in Proc /\ c \in ShellProc /\ c # p /\ p \in ShellProc
      BY <1>2, <2>2, ShellNames DEF Up, TypeOK
    <3>3. state'[c] = "run" /\ \A q \in Proc \ {c} : state'[q] = state[q]
      BY <3>1, <3>2
    <3>4. pid'[p] = [left |-> pid[p].left, right |-> c] /\ pid'[c] = pid[c]
      BY <3>1, <3>2
    <3> QED
      BY <3>3, <3>4
  <2>7. TreeAt(p, "close")'
    <3>1. LeftOf(p)' = LeftOf(p) /\ NextOf(p)' = c
      BY DEF LeftOf, Left, NextOf, Tree, c
    <3>2. /\ p[1] \in Typed' /\ p[2] <= Len(Segments(p[1]))'
          /\ ~ IsLast(p)'
      BY <1>2, <2>1, <2>4 DEF Typed, Segments, IsLast
    <3>3. LeftOK(p)'
      BY <2>1, <2>2, <2>4, <2>6, <3>1, <1>3 DEF LeftOK, Forked, Over
    <3>4. RightOK(p)'
      BY <2>6, <3>1, <3>2 DEF RightOK, Forked
    <3> QED
      BY <3>2, <3>3, <3>4 DEF TreeAt, TreePlaces, Early, Before, Building, Closing, Waiting, Ending
  <2>8. TreeFdAt(p, "close", fd[p])
    BY DEF TreeFdAt, Building
  <2>9. TreeAt(c, "as_right")'
    BY <1>1, <1>2, <2>1, <2>4, <2>5, <2>6, NextStarts DEF c
  <2>10. Sound(c) => TreeFdAt(c, "as_right", fd[p])
    <3>1. c[2] > 1 /\ c[2] - 1 = p[2]
      BY <1>2, <2>2, JobsAssumption
    <3>2. Sound(c) => AsGiven(p, fd[p]) /\ BothEnds(p, fd[p])
      BY <1>2, <2>2 DEF Sound, TreeFdAt
    <3> QED
      BY <2>2, <3>1, <3>2 DEF TreeFdAt, AsGiven, Writes, BothEnds, Building
  <2>11. "close" \in Places /\ "as_right" \in Places
    BY DEF Places, TreePlaces, Closing, Early
  <2>12. ChildOf(c, p)
    BY <1>1, <2>2 DEF ChildOf
  <2> QED
    BY <1>1, <1>3, <2>2, <2>3, <2>4, <2>7, <2>8, <2>9, <2>10, <2>11, <2>12, ForksKept
<1>4. CASE Sets(p, Without(fd[p], {"r", "w"}), "close") /\ Fails(p[1]) /\ UNCHANGED pid
  BY <1>1, <1>4, ForkFailsKept DEF ExecHijoDer, ForkSide
<1> QED
  BY <1>3, <1>4 DEF ExecHijoDer, ForkSide

\* The child of exec_hijo_izq: it writes to the pipe.
LEMMA HijoIzqKept ==
  ASSUME Up, NEW p \in UserProc, HijoIzq(p)
  PROVE  Up'
<1>1. p \in LeftProc /\ state[p] = "run" /\ at[p] = "as_left"
  BY ProcNames, RunsTree DEF HijoIzq, Running
<1>2. /\ fd[p] \in Fds /\ LeftAt(p, "as_left") /\ p \notin TreeProc
      /\ Sound(p) => LeftFdAt(p, "as_left", fd[p])
  BY <1>1, RunsLeft
<1> DEFINE f == AsLeft(fd[p])
<1>3. f \in Fds
  BY <1>2 DEF AsLeft, Dup2, Without, Fds, Slot
<1>4. Sound(p) => LeftFdAt(p, "exec_cmd", f)
  <2> SUFFICES ASSUME Sound(p)
               PROVE  /\ f["in"] = In(p) /\ f["out"] = End(PipeOf(p[1], p[2]), "w")
                      /\ ErrorsToTty(f)
    BY DEF LeftFdAt
  <2>1. /\ fd[p]["in"] = In(p) /\ fd[p]["w"] = End(PipeOf(p[1], p[2]), "w")
        /\ ErrorsToTty(fd[p])
    BY <1>2 DEF LeftFdAt, AsGiven
  <2>2. fd[p]["w"] # None
    BY <2>1, EndIsEnd, ProcNames, JobsAssumption DEF PipeOf
  <2> QED
    BY <1>2, <2>1, <2>2 DEF AsLeft, Dup2, Without, ErrorsToTty, Fds, Slot
<1>5. LeftAt(p, "exec_cmd") /\ "exec_cmd" \in Places
  BY <1>2 DEF LeftAt, Places, TreePlaces, Early
<1> HIDE DEF f
<1>6. Sets(p, f, "exec_cmd") /\ UNCHANGED jobs
  BY DEF HijoIzq, f
<1>7. spoiled' \subseteq Job
  BY <1>6 DEF Up, TypeOK, jobs
<1> QED
  BY <1>1, <1>2, <1>3, <1>4, <1>5, <1>6, <1>7, MoveKept DEF jobs

\* That of exec_hijo_der: it reads from the pipe.
LEMMA HijoDerKept ==
  ASSUME Up, NEW p \in UserProc, HijoDer(p)
  PROVE  Up'
<1>1. p \in TreeProc /\ state[p] = "run" /\ at[p] = "as_right"
  BY ProcNames, RunsLeft DEF HijoDer, Running, LeftAt
<1>2. /\ fd[p] \in Fds /\ TreeAt(p, "as_right") /\ p \notin LeftProc
      /\ Sound(p) => TreeFdAt(p, "as_right", fd[p])
      /\ p[1] \in Job /\ p[2] \in 1 .. MaxSegments
  BY <1>1, RunsTree
<1> DEFINE f == AsRight(fd[p])
<1>3. f \in Fds
  BY <1>2 DEF AsRight, Dup2, Without, Fds, Slot
<1>4. Sound(p) => TreeFdAt(p, "exec_cmd", f)
  <2> SUFFICES ASSUME Sound(p)
               PROVE  AsGiven(p, f)
    BY DEF TreeFdAt, Building
  <2>1. /\ p[2] > 1 /\ fd[p]["r"] = End(PipeOf(p[1], p[2] - 1), "r")
        /\ Writes(p, fd[p], Tty) /\ ErrorsToTty(fd[p])
    BY <1>2 DEF TreeFdAt
  <2>2. PipeOf(p[1], p[2] - 1) \in PipeId
    <3>1. p[2] - 1 \in 1 .. MaxSegments
      BY <1>2, <2>1, JobsAssumption
    <3> QED
      BY <1>2, <3>1, JobsAssumption DEF PipeOf
  <2>3. fd[p]["r"] # None
    BY <2>1, <2>2, EndIsEnd
  <2>4. p[2] # 1
    BY <1>2, <2>1, JobsAssumption
  <2>5. f["in"] = fd[p]["r"] /\ f["out"] = fd[p]["out"] /\ f["err"] = fd[p]["err"]
    BY <1>2, <2>3 DEF AsRight, Dup2, Without, Fds, Slot
  <2> QED
    BY <2>1, <2>4, <2>5 DEF AsGiven, In, Writes, ErrorsToTty
<1>5. TreeAt(p, "exec_cmd") /\ "exec_cmd" \in Places
  BY <1>2 DEF TreeAt, Places, TreePlaces, Early, Before, Building, Closing, Waiting, Ending
<1> HIDE DEF f
<1>6. Sets(p, f, "exec_cmd") /\ UNCHANGED jobs
  BY DEF HijoDer, f
<1>7. spoiled' \subseteq Job
  BY <1>6 DEF Up, TypeOK, jobs
<1> QED
  BY <1>1, <1>2, <1>3, <1>4, <1>5, <1>6, <1>7, MoveKept DEF jobs

LEMMA CloseBothKept ==
  ASSUME Up, NEW p \in UserProc, CloseBoth(p)
  PROVE  Up'
<1>1. p \in TreeProc /\ state[p] = "run" /\ at[p] = "close"
  BY ProcNames, RunsLeft DEF CloseBoth, Running, LeftAt
<1>2. fd[p] \in Fds /\ TreeAt(p, "close") /\ p \notin LeftProc
  BY <1>1, RunsTree
<1> DEFINE f == ParentCloses(fd[p])
<1>3. f \in Fds
  BY <1>2 DEF ParentCloses, Without, Fds
<1>4. TreeFdAt(p, "wait_left", f)
  BY DEF TreeFdAt, Building
<1>5. TreeAt(p, "wait_left") /\ "wait_left" \in Places
  BY <1>2 DEF TreeAt, Places, TreePlaces, Early, Before, Building, Closing, Waiting, Ending
<1> HIDE DEF f
<1>6. Sets(p, f, "wait_left") /\ UNCHANGED jobs
  BY DEF CloseBoth, f
<1>7. spoiled' \subseteq Job
  BY <1>6 DEF Up, TypeOK, jobs
<1> QED
  BY <1>1, <1>2, <1>3, <1>4, <1>5, <1>6, <1>7, MoveKept DEF jobs

LEMMA WaitLeftKept ==
  ASSUME Up, NEW p \in UserProc, WaitLeft(p)
  PROVE  Up'
<1>1. p \in TreeProc /\ state[p] = "run" /\ at[p] = "wait_left"
  BY ProcNames, RunsLeft DEF WaitLeft, WaitSide, Running, LeftAt
<1>2. /\ p \in Proc /\ TreeAt(p, "wait_left") /\ p \in UserProc /\ p \notin LeftProc
      /\ p[1] \in Typed /\ p[2] <= Len(Segments(p[1]))
  BY <1>1, RunsTree
<1>3. LeftOK(p) /\ RightOK(p)
  BY <1>2 DEF TreeAt, Closing
<1>4. /\ LeftOf(p) \in LeftProc /\ LeftOf(p) \in UserProc /\ LeftOf(p) \in Proc
      /\ LeftOf(p) # p /\ LeftOf(p) # None
  BY <1>1, <1>2, LeftNames, ShellNames
<1>5. "wait_right" \in Places
  BY DEF Places, TreePlaces, Waiting
<1>6. CASE pid[p].left = None
  <2>1. Over(LeftOf(p))
    BY <1>3, <1>4, <1>6 DEF LeftOK
  <2>2. TreeAt(p, "wait_right")
    BY <1>2, <1>3, <2>1 DEF TreeAt, TreePlaces, Early, Before, Building, Closing, Waiting, Ending
  <2>3. TreeFdAt(p, "wait_right", fd[p])
    BY DEF TreeFdAt, Building
  <2> QED
    BY <1>1, <1>2, <1>5, <1>6, <2>2, <2>3, StandsStill DEF WaitLeft, WaitSide, jobs
<1>7. CASE pid[p].left # None
  <2> DEFINE c == LeftOf(p)
  <2>1. Reaps(p, c, "wait_right") /\ UNCHANGED jobs
    BY <1>3, <1>7 DEF LeftOK, WaitLeft, WaitSide
  <2> HIDE DEF c
  <2>2. state'[c] = "gone" /\ \A q \in Proc \ {c} : state'[q] = state[q]
    BY <1>4, <2>1 DEF Up, TypeOK, Reaps, c
  <2>3. LeftOf(p)' = c /\ NextOf(p)' = NextOf(p) /\ After(p)' = After(p)
    BY DEF LeftOf, Left, NextOf, Tree, After, UserProc, c
  <2>4. /\ p[1] \in Typed' /\ p[2] <= Len(Segments(p[1]))'
        /\ IsLast(p)' <=> IsLast(p)
    BY <1>2, <2>1 DEF jobs, Typed, Segments, IsLast
  <2>5. RightOK(p)'
    <3>1. \A q \in After(p) : q \in Proc /\ q # c
      BY <1>2, ShellNames, ProcNames, LeftNames DEF After, c
    <3>2. ~ IsLast(p) => NextOf(p) \in Proc /\ NextOf(p) # c
      BY <1>2, NextNames, ShellNames DEF c, Up
    <3>3. pid' = pid
      BY <2>1 DEF jobs
    <3>4. NoneAfter(p) => NoneAfter(p)'
      BY <2>2, <2>3, <3>1 DEF NoneAfter
    <3>5. ~ IsLast(p) /\ Forked(NextOf(p)) => Forked(NextOf(p))'
      BY <2>2, <2>3, <3>2 DEF Forked
    <3> QED
      BY <1>3, <2>3, <2>4, <3>3, <3>4, <3>5 DEF RightOK
  <2>6. Over(c)'
    BY <2>2 DEF Over
  <2>7. TreeAt(p, "wait_right")'
    BY <2>3, <2>4, <2>5, <2>6 DEF c, TreeAt, TreePlaces, Early, Before, Building, Closing, Waiting, Ending
  <2>8. c \in UserProc /\ c # p /\ ChildOf(c, p)
    BY <1>1, <1>4 DEF ChildOf, c
  <2> QED
    BY <1>1, <1>5, <2>1, <2>7, <2>8, ReapsKept DEF jobs
<1> QED
  BY <1>6, <1>7

LEMMA WaitRightKept ==
  ASSUME Up, NEW p \in UserProc, WaitRight(p)
  PROVE  Up'
<1>1. p \in TreeProc /\ state[p] = "run" /\ at[p] = "wait_right"
  BY ProcNames, RunsLeft DEF WaitRight, WaitSide, Running, LeftAt
<1>2. /\ p \in Proc /\ TreeAt(p, "wait_right") /\ p \in UserProc /\ p \notin LeftProc
      /\ p[1] \in Typed /\ p[2] <= Len(Segments(p[1]))
  BY <1>1, RunsTree
<1>3. Over(LeftOf(p)) /\ RightOK(p)
  BY <1>2 DEF TreeAt, Waiting
<1>4. ~ IsLast(p) => /\ NextOf(p) \in TreeProc /\ NextOf(p) \in UserProc /\ NextOf(p) \in Proc
                     /\ NextOf(p) # p /\ NextOf(p) # LeftOf(p) /\ NextOf(p) # None
                     /\ NextOf(p)[1] = p[1] /\ NextOf(p)[2] = p[2] + 1
  BY <1>2, NextNames, ShellNames DEF Up
<1>5. "exit" \in Places
  BY DEF Places, TreePlaces, Ending
<1>6. CASE pid[p].right = None
  <2>1. NoneAfter(p)
    BY <1>3, <1>4, <1>6 DEF RightOK
  <2>2. TreeAt(p, "exit")
    BY <1>2, <1>3, <2>1 DEF AllOver, NoneAfter, Over, TreeAt, TreePlaces, Early, Before, Building, Closing, Waiting, Ending
  <2>3. TreeFdAt(p, "exit", fd[p])
    BY DEF TreeFdAt, Building
  <2> QED
    BY <1>1, <1>2, <1>5, <1>6, <2>2, <2>3, StandsStill DEF WaitRight, WaitSide, jobs
<1>7. CASE pid[p].right # None
  <2> DEFINE c == NextOf(p)
  <2>1. ~ IsLast(p) /\ Reaps(p, c, "exit") /\ UNCHANGED jobs
    BY <1>3, <1>7 DEF RightOK, WaitRight, WaitSide
  <2>2. /\ c \in TreeProc /\ c \in UserProc /\ c \in Proc /\ c # p /\ c # LeftOf(p) /\ ChildOf(c, p)
    BY <1>1, <1>4, <2>1 DEF ChildOf
  <2> HIDE DEF c
  <2>3. /\ state[c] = "zombie" /\ state'[c] = "gone"
        /\ \A q \in Proc \ {c} : state'[q] = state[q]
    BY <2>1, <2>2 DEF Up, TypeOK, Reaps
  <2>4. AllOver(c)
    BY <2>2, <2>3 DEF Up, Goes, TreeOK
  <2>5. \A q \in After(p) : Over(q) \/ LeftBehind(q) \/ q = c
    <3>1. Over(LeftOf(c)) /\ \A q \in After(c) : Over(q) \/ LeftBehind(q)
      BY <2>4 DEF AllOver
    <3>2. \A q \in After(p) : q = c \/ q = LeftOf(c) \/ q \in After(c)
      BY <1>2, <2>1, FreshNext DEF After, c, Up
    <3> QED
      BY <3>1, <3>2
  <2>6. \A q \in UserProc : /\ Over(q) \/ q = c => Over(q)'
                            /\ LeftBehind(q) => LeftBehind(q)'
    BY <2>1, <2>3, ShellNames DEF Over, LeftBehind, Segments, jobs
  <2>7. LeftOf(p)' = LeftOf(p) /\ After(p)' = After(p) /\ After(p) \subseteq UserProc
    BY DEF LeftOf, Left, After, UserProc
  <2>8. AllOver(p)'
    BY <1>2, <1>3, <2>5, <2>6, <2>7, LeftNames DEF AllOver
  <2>9. p[1] \in Typed' /\ p[2] <= Len(Segments(p[1]))'
    BY <1>2, <2>1 DEF jobs, Typed, Segments
  <2>10. TreeAt(p, "exit")'
    BY <2>8, <2>9 DEF TreeAt, TreePlaces, Early, Before, Building, Closing, Waiting, Ending
  <2> QED
    BY <1>1, <1>5, <2>1, <2>2, <2>10, ReapsKept DEF jobs
<1> QED
  BY <1>6, <1>7

LEMMA ExitZeroKept ==
  ASSUME Up, NEW p \in UserProc, ExitZero(p)
  PROVE  Up'
BY EndsOver DEF ExitZero, Running, Exits, jobs, Up, TypeOK, Ending

LEMMA ExecKept ==
  ASSUME Up, ~ jos, NEW p \in UserProc, Exec(p)
  PROVE  Up'
<1>1. p \in TreeProc \cup LeftProc /\ state[p] = "run" /\ at[p] = "exec_cmd"
  BY ProcNames DEF Exec, Running
<1>2. fd[p] \in Fds
  BY <1>1, RunsTree, RunsLeft
<1> DEFINE f == Redirected(fd[p], SegmentOf(p))
<1>3. f \in Fds
  BY <1>2 DEF Redirected, Fds, Slot
<1>4. ASSUME p \in TreeProc
      PROVE  TreeAt(p, "program") /\ (Sound(p) => TreeFdAt(p, "program", f))
  <2>1. TreeAt(p, "exec_cmd") /\ (Sound(p) => AsGiven(p, fd[p])) /\ IsLast(p)
    BY <1>1, <1>4, RunsTree, ProcNames DEF TreeFdAt, Exec, IsPipe
  <2>2. AsGiven(p, fd[p]) => JoinedAs(p, f)
    BY <1>2, <2>1 DEF AsGiven, JoinedAs, ReadsAs, Writes, ErrorsToTty, Out, Err, InputIgnored,
       ErrorIgnored, Redirected, Fds, Slot
  <2> HIDE DEF f
  <2> QED
    BY <2>1, <2>2 DEF TreeAt, TreeFdAt, TreePlaces, Early, Before, Building, Closing, Waiting, Ending
<1>5. ASSUME p \in LeftProc
      PROVE  LeftAt(p, "program") /\ (Sound(p) => LeftFdAt(p, "program", f))
  <2>1. /\ LeftAt(p, "exec_cmd")
        /\ Sound(p) => /\ fd[p]["in"] = In(p) /\ fd[p]["out"] = End(PipeOf(p[1], p[2]), "w")
                       /\ ErrorsToTty(fd[p])
    BY <1>1, <1>5, RunsLeft DEF LeftFdAt
  <2>2. fd[p]["in"] = In(p) /\ fd[p]["out"] = End(PipeOf(p[1], p[2]), "w") /\ ErrorsToTty(fd[p])
          => JoinedAs(p, f)
    BY <1>2, <2>1 DEF JoinedAs, ReadsAs, Writes, ErrorsToTty, Out, Err, InputIgnored,
       ErrorIgnored, Redirected, Fds, Slot, LeftAt
  <2> HIDE DEF f
  <2> QED
    BY <2>1, <2>2 DEF LeftAt, LeftFdAt
<1> HIDE DEF f
<1>6. /\ Sets(p, f, "program") /\ lines' = lines /\ jos' = jos /\ pid' = pid
      /\ spoiled' = spoiled /\ spoiled' \subseteq Job
  BY DEF Exec, f, Up, TypeOK
<1>7. "program" \in Places
  BY DEF Places, TreePlaces, Early
<1> QED
  BY <1>1, <1>3, <1>4, <1>5, <1>6, <1>7, MoveKept

LEMMA ExecFailsKept ==
  ASSUME Up, NEW p \in UserProc, ExecFails(p)
  PROVE  Up'
BY EndsOver, Spoils DEF ExecFails, Running, Exits, Early

LEMMA OnceKept ==
  ASSUME Up, ~ jos, NEW p \in UserProc, Once(p)
  PROVE  Up'
BY MakePipeKept, ExecHijoIzqKept, ExecHijoDerKept, HijoIzqKept, HijoDerKept, CloseBothKept,
   WaitLeftKept, WaitRightKept, ExitZeroKept, ExecKept, ExecFailsKept DEF Once

-----------------------------------------------------------------------------
(* The programs, and a panic *)

\* What is in the pipes is not in the invariant.
LEMMA NothingSeen ==
  ASSUME Up, UNCHANGED <<state, fd, at, jos, lines, pid, spoiled>>
  PROVE  Up'
<1>1. TypeOK' /\ LinesOK' /\ state'[Sh] = "run"
  BY DEF Up, TypeOK, LinesOK, Typed
<1>2. TopOK'
  BY DEF Up, Goes, TopOK, Typed, Sh, Tree, Terminal
<1>3. /\ \A j \in Typed : j \in Typed' /\ lines'[j] = lines[j]
      /\ \A q \in Proc : state'[q] = state[q] /\ at'[q] = at[q] /\ fd'[q] = fd[q]
  BY DEF Typed
<1>4. ASSUME NEW q \in TreeProc
      PROVE  TreeOK(q)' /\ TreeFd(q)'
  <2>1. Frame(q)
    BY SameStates
  <2> QED
    BY <2>1, SameTree DEF Up, Goes
<1>5. ASSUME NEW q \in LeftProc
      PROVE  LeftProcOK(q)' /\ LeftFd(q)'
  BY <1>3, SameLeft DEF Up, Goes
<1> QED
  BY <1>1, <1>2, <1>4, <1>5 DEF Up, Goes

\* Nobody goes on.
Down ==
  /\ TypeOK /\ LinesOK /\ state[Sh] = "stopped"
  /\ \A p \in Proc : state[p] # "run"

LEMMA PanicsDown ==
  ASSUME TypeOK, state[Sh] = "run", NEW p, Panics(p), LinesOK', jos' = jos, spoiled' = spoiled,
         pid' = pid, lines' \in Seq(UNION {Line[k] : k \in Job})
  PROVE  Down'
<1>1. Sh \in Proc
  BY ShellNames
<1>2. state' = [q \in Proc |-> IF state[q] = "run" THEN "stopped" ELSE state[q]]
  BY DEF Panics
<1>3. TypeOK'
  BY <1>2 DEF TypeOK, Panics
<1> QED
  BY <1>1, <1>2, <1>3 DEF Down

LEMMA SameLines ==
  ASSUME Up, lines' = lines
  PROVE  LinesOK' /\ lines' \in Seq(UNION {Line[k] : k \in Job})
BY DEF Up, LinesOK, Typed, TypeOK

LEMMA ProgramsKept ==
  ASSUME Up, NEW p \in UserProc, Copies(p) \/ ProgramEndsOrBreaks(p)
  PROVE  Up' \/ Down'
<1>1. "program" \in Early
  BY DEF Early
<1>2. CASE Read(p)
  BY <1>2, NothingSeen DEF Read
<1>3. ASSUME ProgramEnds(p), UNCHANGED jobs, Running(p, "program")
      PROVE  Up'
  BY <1>1, <1>3, EndsOver DEF ProgramEnds, Running, jobs, Up, TypeOK
<1>4. CASE ReadEof(p)
  BY <1>3, <1>4 DEF ReadEof, Reads
<1>5. CASE BrokenPipe(p)
  <2>1. CASE jos
    <3>1. Panics(p) /\ UNCHANGED jobs
      BY <1>5, <2>1 DEF BrokenPipe
    <3> QED
      BY <3>1, PanicsDown, SameLines DEF jobs, Up
  <2>2. CASE ~ jos
    BY <1>3, <1>5, <2>2 DEF BrokenPipe
  <2> QED
    BY <2>1, <2>2
<1>6. CASE Write(p)
  <2>1. CASE SegmentOf(p).prog = "head"
    <3>1. AllOver(p) \/ p \notin TreeProc
      <4>1. p \in TreeProc => TreeAt(p, "program")
        BY <1>6, RunsTree DEF Write, Running
      <4>2. NoneBelow(p) => AllOver(p)
        BY DEF NoneBelow, NoneAfter, AllOver, Over
      <4> QED
        BY <1>1, <4>1, <4>2 DEF TreeAt
    <3>2. /\ state[p] = "run" /\ state' = [state EXCEPT ![p] = "zombie"]
          /\ fd' = [fd EXCEPT ![p] = Closed] /\ Goto(p, "end")
          /\ lines' = lines /\ jos' = jos /\ pid' = pid /\ spoiled' = spoiled
      BY <1>6, <2>1 DEF Write, Running
    <3>3. spoiled' \subseteq Job
      BY <3>2 DEF Up, TypeOK
    <3> QED
      BY <3>1, <3>2, <3>3, EndsKept
  <2>2. CASE SegmentOf(p).prog # "head"
    <3>1. UNCHANGED <<state, fd, at, jos, lines, pid, spoiled>>
      BY <1>6, <2>2 DEF Write
    <3> QED
      BY <3>1, NothingSeen
  <2> QED
    BY <2>1, <2>2
<1> QED
  BY <1>2, <1>4, <1>5, <1>6 DEF Copies, ProgramEndsOrBreaks

-----------------------------------------------------------------------------
(* The shell of JOS: umain and runcmd *)

LEMMA UmainForksKept ==
  ASSUME Up, NEW j \in Job, NEW line \in Line[j], UmainForks(j, line)
  PROVE  Up' \/ Down'
<1>1. /\ at[Sh] = "prompt" /\ j = Len(lines) + 1 /\ lines' = Append(lines, line)
      /\ jos' = jos /\ spoiled' = spoiled
  BY DEF UmainForks, Running
<1>2. CASE /\ Forks(Sh, "wait_line", Tree(j, 1), "runcmd")
           /\ pid' = [pid EXCEPT ![Sh]["left"] = Tree(j, 1)]
  <2>1. pid' = [pid EXCEPT ![Sh].left = Tree(j, 1)]
    BY <1>2
  <2> QED
    BY <1>1, <1>2, <2>1, LineForked
<1>3. CASE Panics(Sh) /\ UNCHANGED pid
  BY <1>1, <1>3, LineTyped, PanicsDown DEF Up
<1> QED
  BY <1>2, <1>3 DEF UmainForks, ForksOrPanics

LEMMA UmainWaitsKept ==
  ASSUME Up, UmainWaits
  PROVE  Up'
<1>1. Sh \in ShellProc /\ None \notin ShellProc
  BY ShellNames
<1>2. \A j \in Typed : ~ lines[j].back => state[Tree(j, 1)] \in {"none", "gone"}
  <2>1. \A j \in Typed : j \in Job /\ Tree(j, 1) \in ShellProc
    BY TreeNames, ShellNames, JobsAssumption DEF Up, LinesOK
  <2>2. \A j \in Typed : ~ lines[j].back =>
          state[Tree(j, 1)] \in {"none", "gone"} \/ pid[Sh].left = Tree(j, 1)
    BY <2>1 DEF Up, Goes, TopOK
  <2> QED
    BY <1>1, <2>1, <2>2 DEF UmainWaits, Polls
<1> QED
  BY <1>1, <1>2, BackAtPrompt DEF UmainWaits, Polls

\* A segment that is not the last has no '>' where the property is about outputs.
LEMMA NoFileAcross ==
  ASSUME Up, jos, NEW p \in TreeProc, state[p] = "run", ~ WritesAcross(p[1]), ~ IsLast(p)
  PROVE  ~ SegmentOf(p).out /\ Out(p) = End(PipeOf(p[1], p[2]), "w")
<1>1. p[1] \in Typed /\ p[2] <= Len(Segments(p[1])) /\ p[2] \in 1 .. MaxSegments
  BY RunsTree
<1>2. Segments(p[1]) \in Seq(Segment) /\ Len(Segments(p[1])) \in Nat
  BY <1>1, Length, JobsAssumption DEF Up
<1>3. p[2] \in DOMAIN Segments(p[1]) /\ p[2] < Len(Segments(p[1]))
  BY <1>1, <1>2, JobsAssumption DEF IsLast
<1>5. ~ SegmentOf(p).out
  BY <1>3 DEF WritesAcross, SegmentOf
<1> QED
  BY <1>5 DEF Out

LEMMA RedirectKept ==
  ASSUME Up, jos, NEW p \in UserProc, Redirect(p)
  PROVE  Up' \/ Down'
<1>1. p \in TreeProc /\ state[p] = "run" /\ at[p] = "runcmd"
  BY ProcNames, RunsLeft DEF Redirect, Running, LeftAt
<1>2. /\ fd[p] \in Fds /\ TreeAt(p, "runcmd") /\ p \notin LeftProc /\ p \in UserProc
      /\ Sound(p) => TreeFdAt(p, "runcmd", fd[p])
  BY <1>1, RunsTree
<1>3. lines' = lines /\ jos' = jos /\ pid' = pid
  BY DEF Redirect
<1> DEFINE f == WithFiles(fd[p], SegmentOf(p))
           next == IF IsLast(p) THEN "spawn" ELSE "pipe"
<1>4. CASE Sets(p, f, next) /\ UNCHANGED spoiled
  <2>1. f \in Fds
    BY <1>2 DEF WithFiles, Fds, Slot
  <2>2. Sound(p) => AsGiven(p, fd[p])
    BY <1>2 DEF TreeFdAt
  <2>3. Sound(p) => ReadsAs(p, f) /\ Writes(p, f, IF SegmentOf(p).out THEN File ELSE Tty)
    BY <1>2, <2>2 DEF AsGiven, ReadsAs, Writes, WithFiles, Fds, Slot
  <2>4. ~ WritesAcross(p[1]) /\ ~ IsLast(p) => ~ SegmentOf(p).out
    BY <1>1, NoFileAcross
  <2>5. IsLast(p) /\ Sound(p) => JoinedAs(p, f)
    BY <2>3 DEF JoinedAs, Writes, Out, ErrorIgnored
  <2> HIDE DEF f
  <2>6. Sound(p) => TreeFdAt(p, next, f) /\ next # "set_status"
    BY <2>3, <2>4, <2>5 DEF TreeFdAt, Writes, ErrorsToTty, Building
  <2>7. NoneBelow(p) => state[LeftOf(p)] = "none" /\ pid[p].left = None /\ RightOK(p)
    BY DEF NoneBelow, RightOK, NoPid
  <2>8. TreeAt(p, next) /\ next \in Places
    BY <1>2, <2>7 DEF TreeAt, TreePlaces, Places, Early, Before, Building, Closing, Waiting, Ending
  <2> HIDE DEF next
  <2>9. spoiled' = spoiled /\ spoiled' \subseteq Job
    BY <1>4 DEF Up, TypeOK
  <2> QED
    BY <1>1, <1>2, <1>3, <1>4, <2>1, <2>6, <2>8, <2>9, MoveKept
<1>5. CASE Panics(p) /\ UNCHANGED spoiled
  BY <1>3, <1>5, PanicsDown, SameLines DEF Up
<1>6. CASE JosExits(p) /\ Fails(p[1])
  BY <1>1, <1>3, <1>6, EndsOver, Spoils DEF JosExits, Early
<1> QED
  BY <1>4, <1>5, <1>6 DEF Redirect

LEMMA PipeToRestKept ==
  ASSUME Up, NEW p \in UserProc, PipeToRest(p)
  PROVE  Up'
<1>1. p \in TreeProc /\ state[p] = "run" /\ at[p] = "pipe"
  BY ProcNames, RunsLeft DEF PipeToRest, Running, LeftAt
<1>2. /\ fd[p] \in Fds /\ PipeOf(p[1], p[2]) \in PipeId /\ TreeAt(p, "pipe") /\ p \notin LeftProc
      /\ Sound(p) => TreeFdAt(p, "pipe", fd[p])
  BY <1>1, RunsTree
<1>3. lines' = lines /\ jos' = jos /\ pid' = pid
  BY DEF PipeToRest
<1>4. CASE Sets(p, WithPipe(fd[p], PipeOf(p[1], p[2])), "fork_rest") /\ UNCHANGED spoiled
  <2> DEFINE f == WithPipe(fd[p], PipeOf(p[1], p[2]))
  <2>1. f \in Fds
    BY <1>2, EndIsEnd DEF WithPipe, Fds, Slot
  <2>2. /\ f["in"] = fd[p]["in"] /\ f["out"] = fd[p]["out"] /\ f["err"] = fd[p]["err"]
        /\ f["r"] = End(PipeOf(p[1], p[2]), "r") /\ f["w"] = End(PipeOf(p[1], p[2]), "w")
    BY <1>2 DEF WithPipe, Fds, Slot
  <2> HIDE DEF f
  <2>3. Sound(p) => TreeFdAt(p, "fork_rest", f)
    BY <1>2, <2>2 DEF TreeFdAt, ReadsAs, Writes, ErrorsToTty, BothEnds, Building
  <2>4. TreeAt(p, "fork_rest") /\ "fork_rest" \in Places
    BY <1>1, <1>2 DEF TreeAt, TreePlaces, Places, Early, Before, Building, Closing, Waiting, Ending
  <2>5. Sets(p, f, "fork_rest") /\ spoiled' = spoiled /\ spoiled' \subseteq Job
    BY <1>4 DEF f, Up, TypeOK
  <2> QED
    BY <1>1, <1>2, <1>3, <2>1, <2>3, <2>4, <2>5, MoveKept
<1>5. CASE JosExits(p) /\ Fails(p[1])
  BY <1>1, <1>3, <1>5, EndsOver, Spoils DEF JosExits, Early
<1> QED
  BY <1>4, <1>5 DEF PipeToRest

LEMMA ForkRestKept ==
  ASSUME Up, NEW p \in UserProc, ForkRest(p)
  PROVE  Up' \/ Down'
<1>1. p \in TreeProc /\ state[p] = "run" /\ at[p] = "fork_rest"
  BY ProcNames, RunsLeft DEF ForkRest, Running, LeftAt
<1>2. /\ p \in Proc /\ p \in ShellProc /\ TreeAt(p, "fork_rest")
      /\ Sound(p) => TreeFdAt(p, "fork_rest", fd[p])
      /\ p[1] \in Typed /\ p[2] <= Len(Segments(p[1])) /\ p[2] \in 1 .. MaxSegments
  BY <1>1, RunsTree
<1>3. lines' = lines /\ jos' = jos /\ spoiled' = spoiled
  BY DEF ForkRest
<1>4. ASSUME Forks(p, "join", Tree(p[1], p[2] + 1), "rest"),
             pid' = [pid EXCEPT ![p]["right"] = Tree(p[1], p[2] + 1)]
      PROVE  Up'
  <2> DEFINE c == NextOf(p)
  <2>1. NoneBelow(p) /\ ~ IsLast(p)
    BY <1>2 DEF TreeAt, Early
  <2>2. /\ c \in UserProc /\ c \in TreeProc /\ c # p /\ c[1] = p[1] /\ c[2] = p[2] + 1
        /\ c \in Proc /\ c \notin LeftProc
        /\ LeftOf(p) # c /\ LeftOf(p) \in Proc
    BY <1>1, <1>2, <2>1, NextNames, LeftNames, ProcNames, ShellNames DEF Up
  <2>3. c = Tree(p[1], p[2] + 1)
    BY DEF NextOf
  <2>5. state[c] = "none"
    BY <1>4, <2>3 DEF Forks
  <2> HIDE DEF c
  <2>6. /\ state'[c] = "run" /\ pid'[p] = [left |-> pid[p].left, right |-> c]
        /\ \A q \in Proc \ {c} : state'[q] = state[q]
        /\ pid'[c] = pid[c]
    <3>1. state' = [state EXCEPT ![c] = "run"] /\ pid' = [pid EXCEPT ![p].right = c]
      BY <1>4, <2>3 DEF Forks
    <3>2. /\ state \in [Proc -> {"none", "embryo", "run", "zombie", "gone", "stopped"}]
          /\ pid \in [ShellProc -> [left : ShellProc \cup {None}, right : ShellProc \cup {None}]]
          /\ c \in Proc /\ c \in ShellProc /\ c # p /\ p \in ShellProc
      BY <1>2, <2>2, ShellNames DEF Up, TypeOK
    <3>3. state'[c] = "run" /\ \A q \in Proc \ {c} : state'[q] = state[q]
      BY <3>1, <3>2
    <3>4. pid'[p] = [left |-> pid[p].left, right |-> c] /\ pid'[c] = pid[c]
      BY <3>1, <3>2
    <3> QED
      BY <3>3, <3>4
  <2>7. TreeAt(p, "join")'
    <3>1. LeftOf(p)' = LeftOf(p) /\ NextOf(p)' = c
      BY DEF LeftOf, Left, NextOf, Tree, c
    <3>2. /\ p[1] \in Typed' /\ p[2] <= Len(Segments(p[1]))'
          /\ ~ IsLast(p)'
      BY <1>2, <1>3, <2>1 DEF Typed, Segments, IsLast
    <3>3. state'[LeftOf(p)] = "none" /\ pid'[p].left = None
      BY <2>1, <2>2, <2>6 DEF NoneBelow, NoPid
    <3>4. RightOK(p)'
      BY <2>6, <3>1, <3>2 DEF RightOK, Forked
    <3> QED
      BY <3>1, <3>2, <3>3, <3>4 DEF TreeAt, TreePlaces, Early, Before, Building, Closing, Waiting, Ending
  <2>8. Sound(p) => TreeFdAt(p, "join", fd[p])
    BY <1>2 DEF TreeFdAt, BothEnds, Building
  <2>9. TreeAt(c, "rest")'
    BY <1>1, <1>2, <1>3, <2>1, <2>5, <2>6, NextStarts DEF c
  <2>10. Sound(c) => TreeFdAt(c, "rest", fd[p])
    <3>1. c[2] > 1 /\ c[2] - 1 = p[2]
      BY <1>2, <2>2, JobsAssumption
    <3>2. Sound(c) => Writes(p, fd[p], Tty) /\ ErrorsToTty(fd[p]) /\ BothEnds(p, fd[p])
      BY <1>2, <2>2 DEF Sound, TreeFdAt
    <3> QED
      BY <2>2, <3>1, <3>2 DEF TreeFdAt, Writes, BothEnds, Building
  <2>11. "join" \in Places /\ "rest" \in Places
    BY DEF Places, TreePlaces, Before, Early
  <2>12. ChildOf(c, p)
    BY <1>1, <2>2 DEF ChildOf
  <2> QED
    BY <1>1, <1>3, <1>4, <2>2, <2>3, <2>7, <2>8, <2>9, <2>10, <2>11, <2>12, ForksKept
<1>5. CASE Panics(p) /\ UNCHANGED pid
  BY <1>3, <1>5, PanicsDown, SameLines DEF Up
<1> QED
  BY <1>4, <1>5 DEF ForkRest, ForksOrPanics

LEMMA RestKept ==
  ASSUME Up, NEW p \in UserProc, Rest(p)
  PROVE  Up'
<1>1. p \in TreeProc /\ state[p] = "run" /\ at[p] = "rest"
  BY ProcNames, RunsLeft DEF Rest, Running, LeftAt
<1>2. /\ fd[p] \in Fds /\ TreeAt(p, "rest") /\ p \notin LeftProc
      /\ Sound(p) => TreeFdAt(p, "rest", fd[p])
      /\ p[2] \in 1 .. MaxSegments
  BY <1>1, RunsTree
<1> DEFINE f == Without([fd[p] EXCEPT !["in"] = fd[p]["r"]], {"r", "w"})
<1>3. f \in Fds /\ f["in"] = fd[p]["r"] /\ f["out"] = fd[p]["out"] /\ f["err"] = fd[p]["err"]
  BY <1>2 DEF Without, Fds, Slot
<1> HIDE DEF f
<1>4. Sound(p) => TreeFdAt(p, "runcmd", f)
  <2>1. p[2] > 1 => p[2] # 1
    BY <1>2, JobsAssumption
  <2> QED
    BY <1>2, <1>3, <2>1 DEF TreeFdAt, AsGiven, In, Writes, ErrorsToTty, Building
<1>5. TreeAt(p, "runcmd") /\ "runcmd" \in Places
  BY <1>2 DEF TreeAt, Places, TreePlaces, Early, Before, Building, Closing, Waiting, Ending
<1>6. Sets(p, f, "runcmd") /\ UNCHANGED jobs
  BY DEF Rest, f
<1>7. spoiled' \subseteq Job
  BY <1>6 DEF Up, TypeOK, jobs
<1> QED
  BY <1>1, <1>2, <1>3, <1>4, <1>5, <1>6, <1>7, MoveKept DEF jobs

LEMMA JoinKept ==
  ASSUME Up, jos, NEW p \in UserProc, Join(p)
  PROVE  Up'
<1>1. p \in TreeProc /\ state[p] = "run" /\ at[p] = "join"
  BY ProcNames, RunsLeft DEF Join, Running, LeftAt
<1>2. /\ fd[p] \in Fds /\ TreeAt(p, "join") /\ p \notin LeftProc
      /\ Sound(p) => TreeFdAt(p, "join", fd[p])
  BY <1>1, RunsTree
<1> DEFINE f == Joined(fd[p])
<1>3. f \in Fds /\ f["in"] = fd[p]["in"] /\ f["out"] = fd[p]["w"]
  BY <1>2 DEF Joined, Without, Fds, Slot
<1> HIDE DEF f
<1>4. Sound(p) => TreeFdAt(p, "spawn", f)
  <2>1. ~ IsLast(p)
    BY <1>2 DEF TreeAt
  <2>2. ~ WritesAcross(p[1]) => Out(p) = End(PipeOf(p[1], p[2]), "w")
    BY <1>1, <2>1, NoFileAcross
  <2> QED
    BY <1>2, <1>3, <2>2 DEF TreeFdAt, JoinedAs, ReadsAs, Writes, ErrorIgnored, Building
<1>5. TreeAt(p, "spawn") /\ "spawn" \in Places
  BY <1>2 DEF TreeAt, Places, TreePlaces, Early, Before, Building, Closing, Waiting, Ending
<1>6. Sets(p, f, "spawn") /\ UNCHANGED jobs
  BY DEF Join, f
<1>7. spoiled' \subseteq Job
  BY <1>6 DEF Up, TypeOK, jobs
<1> QED
  BY <1>1, <1>2, <1>3, <1>4, <1>5, <1>6, <1>7, MoveKept DEF jobs

\* What is left of the line when an empty command ends is left behind.
LEMMA EmptyCommandKept ==
  ASSUME Up, jos, NEW p \in UserProc, EmptyCommand(p)
  PROVE  Up'
<1>1. p \in TreeProc /\ state[p] = "run" /\ at[p] = "spawn" /\ SegmentOf(p).prog = "none"
  BY ProcNames, RunsLeft DEF EmptyCommand, Running, LeftAt
<1>2. /\ TreeAt(p, "spawn") /\ p[1] \in Typed /\ p[2] <= Len(Segments(p[1]))
      /\ p[2] \in 1 .. MaxSegments
  BY <1>1, RunsTree
<1>3. p[2] \in DOMAIN Segments(p[1])
  BY <1>2, Length, JobsAssumption DEF Up
<1>4. \A q \in After(p) : LeftBehind(q)
  BY <1>1, <1>2, <1>3 DEF After, LeftBehind, SegmentOf, Segments, Typed
<1>5. AllOver(p)
  BY <1>2, <1>4 DEF AllOver, Over, TreeAt, Before
<1>6. JosExits(p) /\ UNCHANGED jobs /\ spoiled' \subseteq Job
  BY DEF EmptyCommand, jobs, Up, TypeOK
<1> QED
  BY <1>1, <1>5, <1>6, EndsKept DEF JosExits, Ends, jobs

-----------------------------------------------------------------------------
(* The shell of JOS: spawn and runit *)

\* spawn returns an error: the child, if there is one, never runs.
LEMMA SpawnReturnsKept ==
  ASSUME Up, jos, NEW p \in TreeProc, state[p] = "run", NEW f \in Fds, SpawnReturns(p, f),
         at[p] \in {"spawn", "exofork", "init_stack"}
  PROVE  Up'
<1>1. /\ p \in UserProc /\ TreeAt(p, at[p]) /\ p \notin LeftProc
      /\ p[1] \in Job
  BY RunsTree
<1>2. /\ Sets(p, f, "close_all") /\ Fails(p[1]) /\ jos' = jos /\ lines' = lines /\ pid' = pid
  BY DEF SpawnReturns
<1>3. spoiled \subseteq spoiled' /\ spoiled' \subseteq Job /\ ~ Sound(p)' /\ p[1] \in spoiled'
  BY <1>1, <1>2, Spoils DEF Fails
<1>4. TreeAt(p, "close_all")'
  <2>1. Frame(p) /\ state' = state
    BY <1>2, <1>3, SameStates DEF Sets
  <2>2. CASE at[p] \in {"spawn", "exofork"}
    <3>1. state[LeftOf(p)] = "none" /\ pid[p].left = None => LeftOK(p)
      BY DEF LeftOK, Over
    <3>2. TreeAt(p, "close_all")
      BY <1>1, <2>2, <3>1 DEF TreeAt, TreePlaces, Early, Before, Building, Closing, Waiting, Ending
    <3> QED
      BY <2>1, <3>2, SameAt DEF Up
  <2>3. CASE at[p] = "init_stack"
    <3>1. TreeAt(p, "init_stack")'
      BY <1>1, <2>1, <2>3, SameAt DEF Up
    <3>2. LeftOf(p)' = LeftOf(p) /\ LeftOf(p)[1] = p[1]
      BY <1>1, LeftNames DEF LeftOf, Left
    <3>3. state'[LeftOf(p)] = "embryo" /\ pid'[p].left = None
      BY <3>1, <3>2 DEF TreeAt, Building
    <3>4. LeftOK(p)'
      BY <1>2, <1>3, <3>2, <3>3 DEF LeftOK, Over
    <3> QED
      BY <3>1, <3>4 DEF TreeAt, TreePlaces, Early, Before, Building, Closing, Waiting, Ending
  <2> QED
    BY <2>2, <2>3
<1>5. "close_all" \in Places
  BY DEF Places, TreePlaces, Closing
<1> QED
  BY <1>1, <1>2, <1>3, <1>4, <1>5, SetsKept

LEMMA SpawnOpenKept ==
  ASSUME Up, jos, NEW p \in UserProc, SpawnOpen(p)
  PROVE  Up'
<1>1. p \in TreeProc /\ state[p] = "run" /\ at[p] = "spawn"
  BY ProcNames, RunsLeft DEF SpawnOpen, Running, LeftAt
<1>2. /\ fd[p] \in Fds /\ TreeAt(p, "spawn") /\ p \notin LeftProc
      /\ Sound(p) => TreeFdAt(p, "spawn", fd[p])
  BY <1>1, RunsTree
<1>3. CASE Sets(p, [fd[p] EXCEPT !["prog"] = File], "exofork") /\ UNCHANGED jobs
  <2> DEFINE f == [fd[p] EXCEPT !["prog"] = File]
  <2>1. f \in Fds /\ f["in"] = fd[p]["in"] /\ f["out"] = fd[p]["out"]
    BY <1>2 DEF Fds, Slot
  <2> HIDE DEF f
  <2>2. Sound(p) => TreeFdAt(p, "exofork", f)
    BY <1>2, <2>1 DEF TreeFdAt, JoinedAs, ReadsAs, Writes, ErrorIgnored, Building
  <2>3. TreeAt(p, "exofork") /\ "exofork" \in Places
    BY <1>2 DEF TreeAt, Places, TreePlaces, Early, Before, Building, Closing, Waiting, Ending
  <2>4. Sets(p, f, "exofork") /\ spoiled' \subseteq Job
    BY <1>3 DEF f, Up, TypeOK, jobs
  <2> QED
    BY <1>1, <1>2, <1>3, <2>1, <2>2, <2>3, <2>4, MoveKept DEF jobs
<1>4. CASE SpawnReturns(p, fd[p])
  BY <1>1, <1>2, <1>4, SpawnReturnsKept
<1> QED
  BY <1>3, <1>4 DEF SpawnOpen

\* A step of spawn that edits the child it makes.
LEMMA ChildStep ==
  ASSUME Up, NEW p \in TreeProc, state[p] = "run", NEW next \in Places, NEW f, NEW g,
         TypeOK', state'[p] = "run", at'[p] = next, fd'[p] = f, fd'[LeftOf(p)] = g,
         \A q \in Proc \ {p, LeftOf(p)} : state'[q] = state[q] /\ at'[q] = at[q] /\ fd'[q] = fd[q],
         \A q \in ShellProc \ {p} : pid'[q] = pid[q],
         pid'[p].right = pid[p].right,
         jos' = jos, lines' = lines, spoiled \subseteq spoiled',
         Forked(LeftOf(p)) => Forked(LeftOf(p))',
         at[p] \in Before \cup Building, next \in Building \cup {"close_all"},
         next \in Building => state'[LeftOf(p)] = "embryo" /\ pid'[p].left = None,
         next = "close_all" => LeftOK(p)',
         Sound(p) /\ Sound(p)' => /\ TreeFdAt(p, next, f)
                                  /\ next = "set_status" => JoinedAs(p, g),
         LeftProcOK(LeftOf(p))' /\ LeftFd(LeftOf(p))'
  PROVE  Up'
<1> DEFINE c == LeftOf(p)
<1>1. /\ p \in UserProc /\ TreeAt(p, at[p]) /\ p \notin LeftProc /\ p \in Proc
      /\ p[1] \in Typed /\ p[2] <= Len(Segments(p[1]))
  BY RunsTree
<1>2. /\ c \in UserProc /\ c \in LeftProc /\ c \notin TreeProc /\ c # p /\ c \in Proc
  BY <1>1, LeftNames, ProcNames, ShellNames
<1>3. LeftOf(p)' = c /\ NextOf(p)' = NextOf(p) /\ After(p)' = After(p)
  BY DEF LeftOf, Left, NextOf, Tree, After, UserProc
<1>4. RightOK(p)
  BY <1>1 DEF TreeAt, TreePlaces, Early, Before, Building, Closing, Waiting, Ending
<1>5. /\ p[1] \in Typed' /\ p[2] <= Len(Segments(p[1]))'
      /\ IsLast(p)' <=> IsLast(p)
  BY <1>1 DEF Typed, Segments, IsLast
<1>6. RightOK(p)'
  <2>1. \A q \in After(p) : q \in Proc /\ q # c /\ q # p
    BY <1>1, ShellNames, ProcNames, LeftNames DEF After
  <2>2. NoneAfter(p) => NoneAfter(p)'
    BY <1>3, <2>1 DEF NoneAfter
  <2>3. ~ IsLast(p) => NextOf(p) \in Proc /\ NextOf(p) # c /\ NextOf(p) # p
    BY <1>1, NextNames, ShellNames DEF Up
  <2>4. ~ IsLast(p) /\ Forked(NextOf(p)) => Forked(NextOf(p))'
    BY <1>3, <2>3 DEF Forked
  <2> QED
    BY <1>3, <1>4, <1>5, <2>2, <2>4 DEF RightOK
<1>7. TreeAt(p, next)'
  BY <1>3, <1>5, <1>6 DEF TreeAt, TreePlaces, Early, Before, Building, Closing, Waiting, Ending
<1>8. TreeOK(p)'
  BY <1>7 DEF TreeOK, TreeAt
<1>9. TreeFd(p)'
  <2> SUFFICES ASSUME Sound(p)'
               PROVE  /\ TreeFdAt(p, next, f)'
                      /\ next = "set_status" => JoinedAs(p, g)'
    BY <1>3 DEF TreeFd, TreeFdAt, JoinedAs
  <2>1. Sound(p)
    BY <1>1, StillSound
  <2>2. \A j \in Typed : j \in Typed' /\ lines'[j] = lines[j]
    BY DEF Typed
  <2> QED
    BY <1>1, <2>1, <2>2, SameFd
<1>10. Acts(p, c) /\ ChildOf(c, p)
  BY DEF Acts, ChildOf, Forked
<1> HIDE DEF c
<1>11. LeftProcOK(c)' /\ LeftFd(c)'
  BY DEF c
<1> QED
  BY <1>1, <1>2, <1>8, <1>9, <1>10, <1>11, UserStep

LEMMA SpawnExoforkKept ==
  ASSUME Up, jos, NEW p \in UserProc, SpawnExofork(p)
  PROVE  Up'
<1>1. p \in TreeProc /\ state[p] = "run" /\ at[p] = "exofork"
  BY ProcNames, RunsLeft DEF SpawnExofork, Running, LeftAt
<1>2. /\ fd[p] \in Fds /\ TreeAt(p, "exofork") /\ p \in Proc /\ p \in UserProc
      /\ Sound(p) => TreeFdAt(p, "exofork", fd[p])
  BY <1>1, RunsTree
<1> DEFINE c == LeftOf(p)
<1>3. /\ c \in LeftProc /\ c # p /\ c \in Proc /\ c = Left(p[1], p[2])
  BY <1>1, <1>2, LeftNames, ShellNames DEF LeftOf
<1>4. CASE /\ state[c] = "none"
           /\ state' = [state EXCEPT ![c] = "embryo"]
           /\ Goto(p, "init_stack")
           /\ UNCHANGED <<fd, buf, jobs>>
  <2> HIDE DEF c
  <2>1. /\ lines' = lines /\ jos' = jos /\ pid' = pid /\ spoiled' = spoiled /\ fd' = fd
    BY <1>4 DEF jobs
  <2>2. /\ state'[c] = "embryo" /\ state'[p] = "run" /\ at'[p] = "init_stack"
        /\ \A q \in Proc \ {p, c} : state'[q] = state[q] /\ at'[q] = at[q]
    BY <1>1, <1>2, <1>3, <1>4 DEF Up, TypeOK, Goto
  <2>3. "init_stack" \in Places /\ "init_stack" \in Building
    BY DEF Places, TreePlaces, Building
  <2>4. TypeOK'
    BY <1>3, <1>4, <2>1, <2>3 DEF Up, TypeOK, Goto
  <2>5. pid[p].left = None
    BY <1>2 DEF TreeAt, Before
  <2>6. Sound(p) => TreeFdAt(p, "init_stack", fd[p])
    BY <1>2 DEF TreeFdAt, Building
  <2>7. LeftProcOK(c)' /\ LeftFd(c)'
    BY <2>2 DEF LeftProcOK, LeftFd
  <2>8. Forked(c) => Forked(c)'
    BY <1>4 DEF Forked
  <2>9. "exofork" \in Before /\ "init_stack" # "close_all"
    BY DEF Before
  <2> QED
    BY <1>1, <2>1, <2>2, <2>3, <2>4, <2>5, <2>6, <2>7, <2>8, <2>9, ChildStep DEF c
<1>5. CASE SpawnReturns(p, fd[p])
  BY <1>1, <1>2, <1>5, SpawnReturnsKept
<1> QED
  BY <1>3, <1>4, <1>5 DEF SpawnExofork

LEMMA InitStackKept ==
  ASSUME Up, jos, NEW p \in UserProc, InitStack(p)
  PROVE  Up'
<1>1. p \in TreeProc /\ state[p] = "run" /\ at[p] = "init_stack"
  BY ProcNames, RunsLeft DEF InitStack, Running, LeftAt
<1>2. /\ fd[p] \in Fds /\ TreeAt(p, "init_stack") /\ p \notin LeftProc
      /\ Sound(p) => TreeFdAt(p, "init_stack", fd[p])
  BY <1>1, RunsTree
<1>3. CASE Goto(p, "map_segment") /\ UNCHANGED <<state, fd, buf, jobs>>
  <2>1. TreeAt(p, "map_segment") /\ "map_segment" \in Places
    BY <1>2 DEF TreeAt, Places, TreePlaces, Early, Before, Building, Closing, Waiting, Ending
  <2>2. Sound(p) => TreeFdAt(p, "map_segment", fd[p])
    BY <1>2 DEF TreeFdAt, Building
  <2> QED
    BY <1>1, <1>2, <1>3, <2>1, <2>2, StandsStill DEF jobs
<1>4. CASE SpawnReturns(p, fd[p])
  BY <1>1, <1>2, <1>4, SpawnReturnsKept
<1> QED
  BY <1>3, <1>4 DEF InitStack

LEMMA MapSegmentKept ==
  ASSUME Up, jos, NEW p \in UserProc, MapSegment(p)
  PROVE  Up' \/ Down'
<1>1. p \in TreeProc /\ state[p] = "run" /\ at[p] = "map_segment"
  BY ProcNames, RunsLeft DEF MapSegment, Running, LeftAt
<1>2. /\ fd[p] \in Fds /\ TreeAt(p, "map_segment") /\ p \notin LeftProc /\ p \in Proc
      /\ Sound(p) => TreeFdAt(p, "map_segment", fd[p])
  BY <1>1, RunsTree
<1> DEFINE f == Without(fd[p], {"prog"})
           c == LeftOf(p)
<1>3. f \in Fds /\ f["in"] = fd[p]["in"] /\ f["out"] = fd[p]["out"]
  BY <1>2 DEF Without, Fds, Slot
<1> HIDE DEF f
<1>4. c \in LeftProc /\ c # p /\ c \in Proc /\ c = Left(p[1], p[2])
  BY <1>1, <1>2, LeftNames, ShellNames DEF LeftOf
<1>5. CASE Sets(p, f, "copy_shared_pages") /\ UNCHANGED jobs
  <2>1. TreeAt(p, "copy_shared_pages") /\ "copy_shared_pages" \in Places
    BY <1>2 DEF TreeAt, Places, TreePlaces, Early, Before, Building, Closing, Waiting, Ending
  <2>2. Sound(p) => TreeFdAt(p, "copy_shared_pages", f)
    BY <1>2, <1>3 DEF TreeFdAt, JoinedAs, ReadsAs, Writes, ErrorIgnored, Building
  <2>3. spoiled' \subseteq Job
    BY <1>5 DEF Up, TypeOK, jobs
  <2> QED
    BY <1>1, <1>2, <1>3, <1>5, <2>1, <2>2, <2>3, MoveKept DEF jobs
<1>6. CASE /\ state' = [state EXCEPT ![c] = "gone"]
           /\ fd' = [fd EXCEPT ![p] = f]
           /\ Goto(p, "close_all")
           /\ Fails(p[1])
           /\ UNCHANGED <<buf, jos, lines, pid, bytes>>
  <2> HIDE DEF c
  <2>1. /\ state'[c] = "gone" /\ state'[p] = "run" /\ at'[p] = "close_all"
        /\ fd'[p] = f /\ fd'[c] = fd[c]
        /\ \A q \in Proc \ {p, c} : state'[q] = state[q] /\ at'[q] = at[q] /\ fd'[q] = fd[q]
    BY <1>1, <1>2, <1>4, <1>6 DEF Up, TypeOK, Goto
  <2>2. spoiled \subseteq spoiled' /\ spoiled' \subseteq Job /\ ~ Sound(p)'
    BY <1>6, Spoils
  <2>3. "close_all" \in Places /\ "map_segment" \in Building /\ "close_all" \notin Building
    BY DEF Places, TreePlaces, Building, Closing
  <2>4. TypeOK'
    BY <1>3, <1>4, <1>6, <2>2, <2>3 DEF Up, TypeOK, Goto
  <2>5. pid[p].left = None
    BY <1>2 DEF TreeAt, Building
  <2>6. LeftOK(p)'
    <3>1. LeftOf(p)' = c
      BY DEF LeftOf, Left, c
    <3>2. Over(c)'
      BY <2>1 DEF Over
    <3>3. Over(LeftOf(p))'
      BY <3>2 DEF c
    <3> QED
      BY <1>6, <2>5, <3>3 DEF LeftOK
  <2>7. LeftProcOK(c)' /\ LeftFd(c)'
    BY <2>1 DEF LeftProcOK, LeftFd
  <2>8. Forked(c)'
    BY <2>1 DEF Forked
  <2> QED
    BY <1>1, <1>6, <2>1, <2>2, <2>3, <2>4, <2>6, <2>7, <2>8, ChildStep DEF c
<1>7. CASE Panics(p) /\ UNCHANGED jobs
  BY <1>7, PanicsDown, SameLines DEF jobs, Up
<1> QED
  BY <1>4, <1>5, <1>6, <1>7 DEF MapSegment, f

LEMMA CopySharedPagesKept ==
  ASSUME Up, NEW p \in UserProc, CopySharedPages(p)
  PROVE  Up' \/ Down'
<1>1. p \in TreeProc /\ state[p] = "run" /\ at[p] = "copy_shared_pages"
  BY ProcNames, RunsLeft DEF CopySharedPages, Running, LeftAt
<1>2. /\ fd[p] \in Fds /\ TreeAt(p, "copy_shared_pages") /\ p \notin LeftProc /\ p \in Proc
      /\ Sound(p) => TreeFdAt(p, "copy_shared_pages", fd[p])
  BY <1>1, RunsTree
<1> DEFINE c == LeftOf(p)
<1>3. c \in LeftProc /\ c # p /\ c \in Proc /\ c = Left(p[1], p[2])
  BY <1>1, <1>2, LeftNames, ShellNames DEF LeftOf
<1>4. lines' = lines /\ jos' = jos /\ pid' = pid /\ spoiled' = spoiled
  BY DEF CopySharedPages, jobs
<1>5. CASE /\ fd' = [fd EXCEPT ![c] = fd[p]]
           /\ Goto(p, "set_status")
           /\ UNCHANGED <<state, buf>>
  <2> HIDE DEF c
  <2>1. /\ state' = state /\ at'[p] = "set_status" /\ fd'[p] = fd[p] /\ fd'[c] = fd[p]
        /\ \A q \in Proc \ {p, c} : at'[q] = at[q] /\ fd'[q] = fd[q]
    BY <1>2, <1>3, <1>5 DEF Up, TypeOK, Goto
  <2>2. /\ "set_status" \in Places /\ "set_status" \in Building /\ "copy_shared_pages" \in Building
        /\ "set_status" # "close_all"
    BY DEF Places, TreePlaces, Building
  <2>3. TypeOK'
    BY <1>2, <1>3, <1>4, <1>5, <2>2 DEF Up, TypeOK, Goto
  <2>4. pid[p].left = None /\ state[c] = "embryo"
    BY <1>2 DEF TreeAt, Building, c
  <2>5. Sound(p) => TreeFdAt(p, "set_status", fd[p]) /\ JoinedAs(p, fd[p])
    BY <1>2 DEF TreeFdAt, Building
  <2>6. LeftProcOK(c)' /\ LeftFd(c)'
    BY <2>1, <2>4 DEF LeftProcOK, LeftFd
  <2>7. Forked(c) => Forked(c)'
    BY <2>1 DEF Forked
  <2> QED
    BY <1>1, <1>4, <2>1, <2>2, <2>3, <2>4, <2>5, <2>6, <2>7, ChildStep DEF c
<1>6. CASE Panics(p)
  BY <1>4, <1>6, PanicsDown, SameLines DEF Up
<1> QED
  BY <1>3, <1>5, <1>6 DEF CopySharedPages

LEMMA SetStatusKept ==
  ASSUME Up, jos, NEW p \in UserProc, SetStatus(p)
  PROVE  Up'
<1>1. p \in TreeProc /\ state[p] = "run" /\ at[p] = "set_status"
  BY ProcNames, RunsLeft DEF SetStatus, Running, LeftAt
<1>2. /\ TreeAt(p, "set_status") /\ p \in Proc /\ p \in ShellProc
      /\ p[1] \in Typed /\ p[2] <= Len(Segments(p[1]))
  BY <1>1, RunsTree
<1> DEFINE c == LeftOf(p)
<1>3. /\ c \in LeftProc /\ c # p /\ c \in Proc /\ c \in ShellProc /\ c = Left(p[1], p[2])
      /\ c[1] = p[1] /\ c[2] = p[2]
  BY <1>1, <1>2, LeftNames, ShellNames, ProcNames DEF LeftOf
<1>4. /\ state' = [state EXCEPT ![c] = "run"]
      /\ at' = [at EXCEPT ![p] = "close_all", ![c] = "program"]
      /\ pid' = [pid EXCEPT ![p].left = c]
      /\ fd' = fd /\ jos' = jos /\ lines' = lines /\ spoiled' = spoiled
  BY <1>3 DEF SetStatus
<1>5. Sound(p) => JoinedAs(p, fd[c])
  BY <1>1 DEF Up, Goes, TreeFd
<1> HIDE DEF c
<1>6. /\ state'[c] = "run" /\ state'[p] = "run" /\ at'[p] = "close_all" /\ at'[c] = "program"
      /\ \A q \in Proc \ {p, c} : state'[q] = state[q] /\ at'[q] = at[q]
      /\ pid'[p] = [left |-> c, right |-> pid[p].right]
      /\ \A q \in ShellProc \ {p} : pid'[q] = pid[q]
  BY <1>1, <1>2, <1>3, <1>4 DEF Up, TypeOK
<1>7. /\ "close_all" \in Places /\ "program" \in Places /\ "set_status" \in Building
      /\ "close_all" \notin Building
  BY DEF Places, TreePlaces, Building, Closing, Early
<1>8. TypeOK'
  BY <1>2, <1>3, <1>4, <1>7 DEF Up, TypeOK
<1>9. LeftOK(p)'
  <2>1. LeftOf(p)' = c
    BY DEF LeftOf, Left, c
  <2> QED
    BY <1>6, <2>1 DEF LeftOK, Forked
<1>10. TreeFdAt(p, "close_all", fd[p])
  BY DEF TreeFdAt, Building
<1>11. LeftProcOK(c)'
  <2>1. c[1] \in Typed' /\ c[2] <= Len(Segments(c[1]))'
    BY <1>2, <1>3, <1>4 DEF Typed, Segments
  <2> QED
    BY <1>6, <2>1 DEF LeftProcOK, LeftAt
<1>12. LeftFd(c)'
  <2>1. JoinedAs(p, fd[c]) => JoinedAs(c, fd[c])'
    BY <1>2, <1>3, <1>4 DEF JoinedAs, ReadsAs, Writes, WritesAcross, Out, In, InputIgnored,
       ErrorIgnored, SegmentOf, IsLast, Segments
  <2>2. Sound(c)' => Sound(p)
    BY <1>3, <1>4 DEF Sound
  <2>3. fd'[c] = fd[c]
    BY <1>4
  <2>4. LeftFdAt(c, "program", fd[c])' <=> JoinedAs(c, fd[c])'
    BY <1>6, <2>3 DEF LeftFdAt
  <2> QED
    BY <1>5, <1>6, <2>1, <2>2, <2>4 DEF LeftFd, LeftFdAt
<1>13. Forked(c)'
  BY <1>6 DEF Forked
<1>14. /\ fd'[p] = fd[p] /\ fd'[c] = fd[c] /\ \A q \in Proc \ {p, c} : fd'[q] = fd[q]
       /\ pid'[p].right = pid[p].right /\ spoiled \subseteq spoiled'
       /\ "close_all" # "set_status"
  BY <1>4, <1>6
<1> QED
  BY <1>1, <1>4, <1>6, <1>7, <1>8, <1>9, <1>10, <1>11, <1>12, <1>13, <1>14, ChildStep DEF c

LEMMA CloseAllOfKept ==
  ASSUME Up, NEW p \in UserProc, CloseAllOf(p)
  PROVE  Up'
<1>1. p \in TreeProc /\ state[p] = "run" /\ at[p] = "close_all"
  BY ProcNames, RunsLeft DEF CloseAllOf, Running, LeftAt
<1>2. TreeAt(p, "close_all") /\ p \notin LeftProc
  BY <1>1, RunsTree
<1>3. Closed \in Fds
  BY DEF Closed, Fds
<1>4. TreeFdAt(p, "wait_spawned", Closed)
  BY DEF TreeFdAt, Building
<1>5. TreeAt(p, "wait_spawned") /\ "wait_spawned" \in Places
  BY <1>2 DEF TreeAt, Places, TreePlaces, Early, Before, Building, Closing, Waiting, Ending
<1>6. Sets(p, Closed, "wait_spawned") /\ UNCHANGED jobs
  BY DEF CloseAllOf
<1>7. spoiled' \subseteq Job
  BY <1>6 DEF Up, TypeOK, jobs
<1> QED
  BY <1>1, <1>2, <1>3, <1>4, <1>5, <1>6, <1>7, MoveKept DEF jobs

LEMMA WaitSpawnedKept ==
  ASSUME Up, NEW p \in UserProc, WaitSpawned(p)
  PROVE  Up'
<1>1. p \in TreeProc /\ state[p] = "run" /\ at[p] = "wait_spawned"
  BY ProcNames, RunsLeft DEF WaitSpawned, Polls, Running, LeftAt
<1>2. TreeAt(p, "wait_spawned") /\ p \notin LeftProc
  BY <1>1, RunsTree
<1>3. LeftOK(p) /\ RightOK(p)
  BY <1>2 DEF TreeAt, Closing
<1>4. LeftOf(p) # None
  BY LeftNames, ShellNames
<1>5. Over(LeftOf(p))
  BY <1>3, <1>4 DEF LeftOK, Over, WaitSpawned, Polls
<1>6. TreeFdAt(p, "wait_pipe_child", fd[p])
  BY DEF TreeFdAt, Building
<1>7. TreeAt(p, "wait_pipe_child") /\ "wait_pipe_child" \in Places
  BY <1>2, <1>3, <1>5 DEF TreeAt, Places, TreePlaces, Early, Before, Building, Closing, Waiting, Ending
<1> QED
  BY <1>1, <1>2, <1>6, <1>7, StandsStill DEF WaitSpawned, Polls, jobs

LEMMA WaitPipeChildKept ==
  ASSUME Up, NEW p \in UserProc, WaitPipeChild(p)
  PROVE  Up'
<1>1. p \in TreeProc /\ state[p] = "run" /\ at[p] = "wait_pipe_child"
  BY ProcNames, RunsLeft DEF WaitPipeChild, Polls, Running, LeftAt
<1>2. /\ TreeAt(p, "wait_pipe_child") /\ p \notin LeftProc
      /\ p[1] \in Typed /\ p[2] <= Len(Segments(p[1]))
  BY <1>1, RunsTree
<1>3. Over(LeftOf(p)) /\ RightOK(p)
  BY <1>2 DEF TreeAt, Waiting
<1>4. \A q \in After(p) : Over(q) \/ LeftBehind(q)
  <2>1. CASE NoneAfter(p)
    BY <2>1 DEF NoneAfter, Over
  <2>2. CASE pid[p].right = NextOf(p) /\ ~ IsLast(p)
    <3>1. NextOf(p) \in TreeProc /\ NextOf(p) # None
      BY <1>2, <2>2, NextNames, ShellNames DEF Up
    <3>2. state[NextOf(p)] = "gone"
      BY <2>2, <3>1 DEF WaitPipeChild, Polls
    <3>3. AllOver(NextOf(p)) /\ Over(NextOf(p))
      BY <3>1, <3>2 DEF Up, Goes, TreeOK, Over
    <3>4. \A q \in After(p) :
            q = NextOf(p) \/ q = LeftOf(NextOf(p)) \/ q \in After(NextOf(p))
      BY <1>2, <2>2, FreshNext DEF After, Up
    <3> QED
      BY <3>3, <3>4 DEF AllOver
  <2> QED
    BY <1>3, <2>1, <2>2 DEF RightOK
<1>5. TreeFdAt(p, "done", fd[p])
  BY DEF TreeFdAt, Building
<1>6. TreeAt(p, "done") /\ "done" \in Places
  BY <1>2, <1>3, <1>4 DEF AllOver, TreeAt, Places, TreePlaces, Early, Before, Building, Closing, Waiting, Ending
<1> QED
  BY <1>1, <1>2, <1>5, <1>6, StandsStill DEF WaitPipeChild, Polls, jobs

LEMMA DoneKept ==
  ASSUME Up, NEW p \in UserProc, Done(p)
  PROVE  Up'
BY EndsOver DEF Done, Running, JosExits, jobs, Up, TypeOK, Ending

LEMMA JosOnceKept ==
  ASSUME Up, jos, NEW p \in UserProc, JosOnce(p)
  PROVE  Up' \/ Down'
<1>1. CASE Redirect(p) \/ PipeToRest(p) \/ ForkRest(p) \/ Rest(p) \/ Join(p)
  BY <1>1, RedirectKept, PipeToRestKept, ForkRestKept, RestKept, JoinKept
<1>2. CASE \/ SpawnOpen(p) \/ SpawnExofork(p) \/ InitStack(p) \/ MapSegment(p)
           \/ CopySharedPages(p) \/ SetStatus(p)
  BY <1>2, SpawnOpenKept, SpawnExoforkKept, InitStackKept, MapSegmentKept, CopySharedPagesKept,
     SetStatusKept
<1>3. CASE EmptyCommand(p) \/ CloseAllOf(p) \/ WaitSpawned(p) \/ WaitPipeChild(p) \/ Done(p)
  BY <1>3, EmptyCommandKept, CloseAllOfKept, WaitSpawnedKept, WaitPipeChildKept, DoneKept
<1> QED
  BY <1>1, <1>2, <1>3 DEF JosOnce

-----------------------------------------------------------------------------
(* The theorems *)

LEMMA InitIInv == JobsInit => IInv
<1> SUFFICES ASSUME JobsInit
             PROVE  IInv
  OBVIOUS
<1>1. Sh \in Proc /\ Sh \in ShellProc /\ Sh \notin UserProc
  BY ShellNames
<1>2. /\ state = [p \in Proc |-> IF p = Sh THEN "run" ELSE "none"]
      /\ fd = [p \in Proc |-> IF p = Sh THEN Terminal ELSE Closed]
      /\ at = [p \in Proc |-> "prompt"] /\ jos \in BOOLEAN /\ lines = <<>>
      /\ pid = [p \in ShellProc |-> NoPid] /\ spoiled = {}
  BY DEF JobsInit
<1>3. TypeOK
  <2>1. Terminal \in Fds /\ Closed \in Fds /\ "prompt" \in Places
    BY DEF Terminal, Closed, Fds, Slot, Places
  <2>2. NoPid \in [left : ShellProc \cup {None}, right : ShellProc \cup {None}]
    BY DEF NoPid
  <2>3. lines \in Seq(UNION {Line[j] : j \in Job})
    BY <1>2
  <2> QED
    BY <1>2, <2>1, <2>2, <2>3 DEF TypeOK
<1>4. Typed = {}
  BY <1>2 DEF Typed
<1>5. LinesOK
  BY <1>4 DEF LinesOK
<1>6. \A q \in UserProc : state[q] = "none" /\ pid[q] = NoPid
  BY <1>1, <1>2, ShellNames
<1>7. TopOK
  <2>1. \A j \in Job : state[Tree(j, 1)] = "none"
    BY <1>6, TreeNames, JobsAssumption
  <2> QED
    BY <1>1, <1>2, <1>4, <2>1 DEF TopOK
<1>8. ASSUME NEW q \in TreeProc
      PROVE  TreeOK(q) /\ TreeFd(q)
  <2>1. q \in UserProc /\ LeftOf(q) \in UserProc /\ After(q) \subseteq UserProc
    BY ProcNames, LeftNames DEF After
  <2> QED
    BY <1>6, <2>1 DEF TreeOK, TreeFd, NoneBelow, NoneAfter
<1>9. ASSUME NEW q \in LeftProc
      PROVE  LeftProcOK(q) /\ LeftFd(q)
  <2>1. q \in UserProc
    BY ProcNames
  <2> QED
    BY <1>6, <2>1 DEF LeftProcOK, LeftFd
<1> QED
  BY <1>1, <1>2, <1>3, <1>5, <1>7, <1>8, <1>9 DEF IInv, Goes

LEMMA NextIInv == IInv /\ [JobsNext]_vars => IInv'
<1> SUFFICES ASSUME IInv, [JobsNext]_vars
             PROVE  Up' \/ Down'
  BY DEF IInv, Up, Down
<1>1. Up \/ Down
  BY DEF IInv, Up, Down
<1>2. CASE Down
  <2>1. Sh \in Proc /\ UserProc \subseteq Proc
    BY ShellNames
  <2>2. \A p \in Proc : \A where : ~ Running(p, where)
    BY <1>2 DEF Down, Running
  <2>3. ~ ShellNext
    <3>1. \A j \in Job : \A line \in Line[j] : ~ RunCmd(j, line)
      BY <2>1, <2>2 DEF RunCmd
    <3>2. ~ Waits
      BY <2>1, <2>2 DEF Waits, WaitForeground, WaitBackground
    <3>3. \A p \in UserProc : ~ Once(p)
      BY <2>1, <2>2 DEF Once, MakePipe, ExecHijoIzq, ExecHijoDer, ForkSide, HijoIzq, HijoDer,
         CloseBoth, WaitLeft, WaitRight, WaitSide, ExitZero, Exec, ExecFails
    <3>4. \A p \in UserProc : ~ Copies(p) /\ ~ ProgramEndsOrBreaks(p)
      BY <2>1, <2>2 DEF Copies, Read, Write, Reads, ProgramEndsOrBreaks, ReadEof, BrokenPipe
    <3> QED
      BY <3>1, <3>2, <3>3, <3>4, ShellNames DEF ShellNext
  <2>4. ~ JosNext
    <3>1. \A j \in Job : \A line \in Line[j] : ~ UmainForks(j, line)
      BY <2>1, <2>2 DEF UmainForks
    <3>2. ~ UmainWaits
      BY <2>1, <2>2 DEF UmainWaits, Polls
    <3>3. \A p \in UserProc : ~ JosOnce(p)
      BY <2>1, <2>2 DEF JosOnce, Redirect, PipeToRest, ForkRest, Rest, Join, EmptyCommand, SpawnOpen,
         SpawnExofork, InitStack, MapSegment, CopySharedPages, SetStatus, CloseAllOf,
         WaitSpawned, WaitPipeChild, Polls, Done
    <3>4. \A p \in UserProc : ~ Copies(p) /\ ~ ProgramEndsOrBreaks(p)
      BY <2>1, <2>2 DEF Copies, Read, Write, Reads, ProgramEndsOrBreaks, ReadEof, BrokenPipe
    <3> QED
      BY <3>1, <3>2, <3>3, <3>4, ShellNames DEF JosNext
  <2>5. UNCHANGED vars
    BY <2>3, <2>4 DEF JobsNext
  <2> QED
    BY <1>2, <2>5 DEF Down, vars, unix, jobs, TypeOK, LinesOK, Typed
<1>3. CASE Up
  <2>1. ShellProc \ {Sh} = UserProc
    BY ShellNames
  <2>2. CASE ShellNext
    BY <1>3, <2>1, <2>2, RunCmdKept, WaitsKept, OnceKept, ProgramsKept DEF ShellNext
  <2>3. CASE JosNext
    BY <1>3, <2>1, <2>3, UmainForksKept, UmainWaitsKept, JosOnceKept, ProgramsKept DEF JosNext
  <2>4. CASE UNCHANGED vars
    BY <1>3, <2>4, NothingSeen DEF vars, unix, jobs
  <2> QED
    BY <2>2, <2>3, <2>4 DEF JobsNext
<1> QED
  BY <1>1, <1>2, <1>3

\* The invariant holds of both shells, whatever fails (runcmd.c, exec.c;
\* user/sh.c, lib/spawn.c).
THEOREM ShellsIInv == JobsSpec => []IInv
<1> QED
  BY InitIInv, NextIInv, PTL DEF JobsSpec

\* At the prompt every process of a line that was run in the foreground has ended
\* and been waited for (runcmd.c:61, exec.c:237-244; user/sh.c:164, 176, 330),
\* except, in JOS, the segments after an empty command (user/sh.c:129-133).
THEOREM LinesAreOver == JobsSpec => []ForegroundIsOver
<1>1. IInv => ForegroundIsOver
  <2> SUFFICES ASSUME IInv, Running(Sh, "prompt"), NEW p \in ShellProc \ {Sh},
                      p[1] \in DOMAIN lines, ~ lines[p[1]].back
               PROVE  \/ state[p] \in {"none", "gone"}
                      \/ jos /\ state[p] = "embryo" /\ p[1] \in spoiled
                      \/ LeftBehind(p)
    BY DEF ForegroundIsOver
  <2>1. Up /\ at[Sh] = "prompt" /\ p \in UserProc /\ p[1] \in Typed
    BY ShellNames DEF IInv, Up, Running, Typed
  <2>2. state[Tree(p[1], 1)] \in {"none", "gone"} /\ p[1] \in Job
    BY <2>1, AtPrompt
  <2> DEFINE t == Tree(p[1], 1)
  <2>3. t \in TreeProc /\ t \in UserProc /\ t[1] = p[1] /\ t[2] = 1
    BY <2>2, TreeNames, JobsAssumption
  <2>4. AllOver(t)
    <3>1. NoneBelow(t) => AllOver(t)
      BY DEF NoneBelow, NoneAfter, AllOver, Over
    <3> QED
      BY <2>1, <2>2, <2>3, <3>1 DEF Up, Goes, TreeOK
  <2>5. p = t \/ p = LeftOf(t) \/ p \in After(t)
    <3>1. p[2] = 1 \/ p[2] > 1
      BY <2>1, ProcNames, JobsAssumption
    <3>2. p[2] = 1 => p = t \/ p = LeftOf(t)
      BY <2>1, <2>3, ProcNames DEF LeftOf
    <3> QED
      BY <2>1, <2>3, <3>1, <3>2 DEF After
  <2> QED
    BY <2>2, <2>4, <2>5 DEF AllOver, Over
<1> QED
  BY <1>1, ShellsIInv, PTL

\* In a line in which nothing failed, what a segment writes is what the next one
\* reads, the ends of the line and errors go to the terminal, and what is named a
\* file goes there (exec.c:119-163, 187-191, 210-214; user/sh.c:42-84, 98-111).
\* Nothing is said of outputs in a line with a '>' before a '|' in JOS, of a '<'
\* beside a '>' and of a '2>' without a '>' in TP shell.
THEOREM LinesAreJoined == JobsSpec => []JoinedAsTyped
<1>1. IInv => JoinedAsTyped
  <2> SUFFICES ASSUME IInv, NEW p \in ShellProc, Running(p, "program"), Sound(p)
               PROVE  JoinedAs(p, fd[p])
    BY DEF JoinedAsTyped, Sound, JoinedAs, ReadsAs, Writes, In, Out, Err
  <2>1. Up
    BY ShellNames DEF IInv, Up, Running
  <2>2. p # Sh
    BY <2>1 DEF Running, Up, Goes, TopOK
  <2>3. p \in TreeProc \cup LeftProc
    BY <2>2, ShellNames, ProcNames
  <2> QED
    BY <2>1, <2>3, RunsTree, RunsLeft DEF Running, TreeFdAt, LeftFdAt
<1> QED
  BY <1>1, ShellsIInv, PTL
=============================================================================
