--------------------------------- MODULE Unix ---------------------------------
(***************************************************************************)
(* Processes, descriptors and pipes of the system the shell and the fork   *)
(* exercises run on (not part of the repository): fork(2), exit(3),        *)
(* waitpid(2), pipe(2), read(2) and write(2), as far as they use them. The *)
(* library of JOS gives its shell the same in these terms; how it does is  *)
(* in modules Kernel, Fork, Pipe and Serv.                                 *)
(***************************************************************************)
EXTENDS Integers, Sequences

CONSTANTS
  Proc,      \* processes
  PipeId,    \* pipes
  Capacity,  \* what a pipe holds
  Tty, File, \* what a descriptor is for, other than a pipe
  None       \* a descriptor that is closed

\* The descriptors a process keeps, named for what it uses them for.
Slot == {"in", "out", "err", "r", "w", "prog"}

End(k, side) == <<k, side>>

VARIABLES
  state,  \* none, embryo (in JOS), run, zombie, gone
  fd,     \* the pipe end, the terminal or the file each descriptor is for
  buf,    \* what is in each pipe
  at      \* where in its program each process is

unix == <<state, fd, buf, at>>

Closed == [s \in Slot |-> None]

Running(p, where) == state[p] = "run" /\ at[p] = where

Goto(p, where) == at' = [at EXCEPT ![p] = where]

IsOpen(end) == \E p \in Proc, s \in Slot : fd[p][s] = end

\* pipe(2): both ends of k.
WithPipe(f, k) == [f EXCEPT !["r"] = End(k, "r"), !["w"] = End(k, "w")]

Without(f, slots) == [s \in Slot |-> IF s \in slots THEN None ELSE f[s]]

\* Process p forks c, which starts at where; p goes on at next.
Forks(p, next, c, where) ==
  /\ state[c] = "none"
  /\ state' = [state EXCEPT ![c] = "run"]
  /\ fd' = [fd EXCEPT ![c] = fd[p]]
  /\ at' = [at EXCEPT ![p] = next, ![c] = where]
  /\ UNCHANGED buf

\* p ends; what is left of it is a zombie, or nothing.
Ends(p, remains) ==
  /\ state' = [state EXCEPT ![p] = remains]
  /\ fd' = [fd EXCEPT ![p] = Closed]
  /\ Goto(p, "end")
  /\ UNCHANGED buf

Exits(p) == Ends(p, "zombie")

\* waitpid finds that c has ended, and p goes on at next.
Reaps(p, c, next) ==
  /\ state[c] = "zombie"
  /\ state' = [state EXCEPT ![c] = "gone"]
  /\ Goto(p, next)
  /\ UNCHANGED <<fd, buf>>

\* p changes its descriptors and goes on at next.
Sets(p, f, next) ==
  /\ fd' = [fd EXCEPT ![p] = f]
  /\ Goto(p, next)
  /\ UNCHANGED <<state, buf>>

\* What read(2) finds in a pipe, and when it says there is nothing to come.
Readable(k) == buf[k] # <<>>
AtEnd(k) == buf[k] = <<>> /\ ~ IsOpen(End(k, "w"))

\* write(2) has room, or raises SIGPIPE.
Writable(k) == IsOpen(End(k, "r")) /\ Len(buf[k]) < Capacity
Broken(k) == ~ IsOpen(End(k, "r"))
=============================================================================
