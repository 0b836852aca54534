-------------------------------- MODULE Primes --------------------------------
(***************************************************************************)
(* The sieve of TP fork/primes.c: a chain of processes joined by pipes,    *)
(* each of which prints the first number it reads, a prime, and passes on  *)
(* those that are not its multiples to a child it forks.                   *)
(***************************************************************************)
EXTENDS Unix

CONSTANTS
  N,     \* numero_max
  Chain  \* bounds the length of the chain: more than there are primes up to N

\* The processes of the chain, main first; each writes to a pipe of its own.
Sieve == {<<i>> : i \in 0 .. Chain}
Main == <<0>>
Child(p) == <<p[1] + 1>>
Parent(p) == <<p[1] - 1>>

ASSUME PrimesAssumption ==
  /\ N \in Nat /\ N >= 2 /\ Chain \in 1 .. N /\ Capacity \in Nat \ {0}
  /\ Sieve \subseteq Proc /\ Sieve \subseteq PipeId
  /\ \A p \in Sieve : End(p, "w") # None

VARIABLES
  base,    \* numero_base of each process, 0 before it has read it
  held,    \* i of main, or the number a process has read and not yet passed on
  primes,  \* what was printed
  forkFailed, \* a fork failed
  pipeFailed  \* a pipe failed

failed == <<forkFailed, pipeFailed>>

sieve == <<base, held, primes, failed>>

\* main has made its pipe and is about to fork.
PrimesInit ==
  /\ state = [p \in Proc |-> IF p = Main THEN "run" ELSE "none"]
  /\ fd = [p \in Proc |-> IF p = Main THEN WithPipe(Closed, Main) ELSE Closed]
  /\ buf = [k \in PipeId |-> <<>>]
  /\ at = [p \in Proc |-> "fork"]
  /\ base = [p \in Sieve |-> 0]
  /\ held = [p \in Sieve |-> 0]
  /\ primes = <<>>
  /\ forkFailed = FALSE /\ pipeFailed = FALSE

\* slip: the child keeps pipe_izq[ESCRITURA]
AsChildKeepsWriting(f) == [f EXCEPT !["in"] = f["r"], !["r"] = None]

\* The descriptors of hago_de_hijo: the reading end of its parent's pipe is now
\* pipe_izq, the writing end and the parent's own pipe_izq are closed.
AsChild(f) == [s \in Slot |-> IF s = "in" THEN f["r"] ELSE None]

\* fork() in main and in primes.
ForkChild(p) ==
  /\ Running(p, "fork") /\ p[1] < Chain
  /\ Forks(p, "filter", Child(p), "child")
  /\ held' = [held EXCEPT ![p] = IF p = Main THEN 2 ELSE 0]
  /\ UNCHANGED <<base, primes, failed>>

\* fork() fails: main and primes return, and the process ends.
ForkFails(p) ==
  /\ Running(p, "fork")
  /\ Exits(p)
  /\ forkFailed' = TRUE
  /\ UNCHANGED <<base, held, primes, pipeFailed>>

HagoDeHijo(p) ==
  /\ Running(p, "child")
  /\ Sets(p, AsChild(fd[p]), "base")
  /\ UNCHANGED sieve

\* primes: the first number read is printed, and a pipe made for the others. When
\* pipe() fails primes says so and goes on with a pipe_der nothing was stored in,
\* whose numbers are those of no pipe.
ReadBase(p) ==
  /\ Running(p, "base") /\ Readable(Parent(p))
  /\ base' = [base EXCEPT ![p] = Head(buf[Parent(p)])]
  /\ primes' = Append(primes, Head(buf[Parent(p)]))
  /\ buf' = [buf EXCEPT ![Parent(p)] = Tail(@)]
  /\ \/ fd' = [fd EXCEPT ![p] = WithPipe(@, p)] /\ UNCHANGED pipeFailed
     \/ pipeFailed' = TRUE /\ UNCHANGED fd
  /\ Goto(p, "fork")
  /\ UNCHANGED <<state, held, forkFailed>>

\* There is none, or no pipe to read from: this process was one too many.
NoMorePrimes(p) ==
  /\ Running(p, "base") /\ AtEnd(Parent(p))
  /\ Exits(p)
  /\ UNCHANGED sieve

\* slip: only numero_base itself is dropped
PassesOthers(p, n) == n # base[p]

Passes(p, n) == n % base[p] # 0

\* filtro reads a number; a multiple of numero_base is dropped.
FiltroRead(p) ==
  /\ Running(p, "filter") /\ p # Main /\ held[p] = 0 /\ Readable(Parent(p))
  /\ buf' = [buf EXCEPT ![Parent(p)] = Tail(@)]
  /\ held' = [held EXCEPT ![p] = IF Passes(p, Head(buf[Parent(p)]))
                                THEN Head(buf[Parent(p)]) ELSE 0]
  /\ UNCHANGED <<state, fd, at, base, primes, failed>>

\* filtro writes the number on; hago_de_padre writes the next one. Where there is
\* no pipe to write to, the number is lost.
FiltroWrite(p) ==
  /\ Running(p, "filter") /\ held[p] \in 1 .. N
  /\ \/ fd[p]["w"] = None /\ UNCHANGED buf
     \/ fd[p]["w"] # None /\ Writable(p) /\ buf' = [buf EXCEPT ![p] = Append(@, held[p])]
  /\ held' = [held EXCEPT ![p] = IF p = Main THEN @ + 1 ELSE 0]
  /\ UNCHANGED <<state, fd, at, base, primes, failed>>

\* The end of both loops: every descriptor is closed, and the child awaited.
CloseAll(p) ==
  /\ Running(p, "filter")
  /\ IF p = Main THEN held[p] > N ELSE held[p] = 0 /\ AtEnd(Parent(p))
  /\ Sets(p, Closed, "wait")
  /\ UNCHANGED sieve

\* slip: the process ends without wait(NULL)
WaitChildNot(p) == Running(p, "wait") /\ Exits(p) /\ UNCHANGED sieve

WaitChild(p) == Running(p, "wait") /\ Reaps(p, Child(p), "exit") /\ UNCHANGED sieve

Return(p) == Running(p, "exit") /\ Exits(p) /\ UNCHANGED sieve

PrimesStep(p) ==
  \/ ForkChild(p) \/ ForkFails(p) \/ HagoDeHijo(p)
  \/ ReadBase(p) \/ NoMorePrimes(p)
  \/ FiltroRead(p) \/ FiltroWrite(p) \/ CloseAll(p)
  \/ WaitChild(p) \/ Return(p)

PrimesNext == \E p \in Sieve : PrimesStep(p)

-----------------------------------------------------------------------------
(* Properties *)

IsPrime(n) == n > 1 /\ \A d \in 2 .. n - 1 : n % d # 0

\* Whatever the processes' speeds and whatever fails, the k-th number printed is
\* the k-th prime (TP fork/primes.c:66-71, 46-47): none is missing, doubled, or
\* out of turn.
PrimesInOrder ==
  /\ \A i \in DOMAIN primes : IsPrime(primes[i])
  /\ \A i, j \in DOMAIN primes : i < j => primes[i] < primes[j]
  /\ \A i \in DOMAIN primes, n \in 2 .. N :
       IsPrime(n) /\ n < primes[i] => \E j \in 1 .. i : primes[j] = n

\* When main has ended, every process of the chain has ended and been waited
\* for, and all primes up to N were printed, unless a fork or a pipe failed.
MainEndsLast ==
  state[Main] = "zombie" =>
    /\ \A p \in Sieve \ {Main} : state[p] \in {"none", "gone"}
    /\ \/ forkFailed \/ pipeFailed
       \/ \A n \in 2 .. N : IsPrime(n) => \E i \in DOMAIN primes : primes[i] = n

\* The chain ends, whichever pipe fails, unless a fork failed: a filter holds the
\* reading end of its own pipe, and without a child to read it waits for room in
\* it for ever.
SieveEnds == <>(state[Main] # "run" \/ forkFailed)
=============================================================================
