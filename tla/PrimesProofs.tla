----------------------------- MODULE PrimesProofs -----------------------------
(***************************************************************************)
(* The sieve of TP fork/primes.c, for any numero_max, any capacity of the  *)
(* pipes and any length of the chain: what is printed are the primes, in   *)
(* order, and when main ends everything has ended and been printed.        *)
(***************************************************************************)
EXTENDS Primes, TLAPS

PrimesSpec == PrimesInit /\ [][PrimesNext]_<<unix, sieve>>
-----------------------------------------------------------------------------
(* The inductive invariant *)

\* The numbers on their way in a sequence, and those that p has sent on or is
\* about to; main's include the next one it will send.
Elems(s) == {s[k] : k \in 1 .. Len(s)}
Fly(p) == Elems(buf[p]) \cup ({held[p]} \ {0})

Increasing(s) == \A k, l \in 1 .. Len(s) : k < l => s[k] < s[l]

TypeOK ==
  /\ state \in [Proc -> {"none", "run", "zombie", "gone"}]
  /\ fd \in [Proc -> [Slot -> {None} \cup (PipeId \X {"r", "w"})]]
  /\ at \in [Proc -> {"fork", "child", "base", "filter", "wait", "exit", "end"}]
  /\ buf \in [PipeId -> Seq(2 .. N)]
  /\ base \in [Sieve -> {0} \cup 2 .. N]
  /\ held \in [Sieve -> {0} \cup 2 .. N + 1]
  /\ primes \in Seq(2 .. N)
  /\ forkFailed \in BOOLEAN /\ pipeFailed \in BOOLEAN

\* Where a process is, and the processes after it in the chain.
ChainOK ==
  /\ state[Main] # "none" /\ at[Main] \notin {"child", "base"}
  /\ \A p \in Sieve :
       /\ state[p] = "none" => at[p] = "fork"
       /\ at[p] = "end" <=> state[p] \in {"zombie", "gone"}
       /\ at[p] \in {"fork", "child", "base"} =>
            \A q \in Sieve : q[1] > p[1] => state[q] = "none"
       /\ at[p] \in {"filter", "wait"} => p[1] < Chain /\ state[Child(p)] \in {"run", "zombie"}
       /\ at[p] = "exit" => p[1] < Chain /\ state[Child(p)] = "gone"
       /\ at[p] \in {"exit", "end"} =>
            \A q \in Sieve : q[1] > p[1] => state[q] \in {"none", "gone"}

\* Until a process is done, it can write to its own pipe, or could not make it.
CanWrite ==
  \A p \in Sieve :
    state[p] = "run" /\ at[p] \in {"fork", "filter"} =>
      fd[p]["w"] = End(p, "w") \/ (pipeFailed /\ p # Main)

\* A process has printed its numero_base before it passes anything on.
Started ==
  /\ base[Main] = 0
  /\ \A p \in Sieve \ {Main} :
       /\ state[p] = "none" \/ at[p] \in {"child", "base"} => base[p] = 0
       /\ state[p] = "run" /\ at[p] \notin {"child", "base"} => base[p] # 0
       /\ base[p] = 0 => buf[p] = <<>> /\ held[p] = 0
  /\ \A p \in Sieve : at[p] = "fork" => buf[p] = <<>> /\ held[p] = 0

\* What is left behind when a process is past its loop, if no pipe failed.
Over(p) == at[p] \in {"wait", "exit"} \/ (at[p] = "end" /\ ~ forkFailed)

Ended ==
  ~ pipeFailed =>
    /\ Over(Main) => held[Main] = N + 1
    /\ \A p \in Sieve \ {Main} :
         Over(p) => held[p] = 0 /\ buf[Parent(p)] = <<>> /\ at[Parent(p)] \in {"wait", "exit", "end"}
    /\ \A p \in Sieve :
         at[p] = "end" /\ ~ forkFailed /\ (p = Main \/ base[p] # 0) =>
           p[1] < Chain /\ state[Child(p)] = "gone"

\* The k-th number printed is numero_base of the k-th process.
Printed ==
  /\ Len(primes) <= Chain
  /\ \A p \in Sieve \ {Main} :
       base[p] = IF p[1] <= Len(primes) THEN primes[p[1]] ELSE 0

\* The numbers on their way are in order, and behind those printed.
InOrder ==
  /\ \A p \in Sieve : /\ Increasing(buf[p])
                      /\ \A n \in Elems(buf[p]) : held[p] # 0 => n < held[p]
  /\ \A p, q \in Sieve : p[1] < q[1] => \A m \in Fly(p), n \in Fly(q) : n < m
  /\ \A p, q \in Sieve : \A n \in Fly(p) : base[q] < n
  /\ held[Main] = 0 => \A p \in Sieve : Fly(p) = {}

\* What p has passed on is no multiple of its numero_base or an earlier one.
Filtered ==
  \A p, q \in Sieve :
    base[q] # 0 /\ q[1] <= p[1] => \A n \in Fly(p) : n % base[q] # 0

\* Every number main has sent is a multiple of one that was printed, or on its
\* way, or a pipe failed.
Accounted ==
  \A n \in 2 .. N :
    n < held[Main] =>
      \/ \E q \in Sieve : base[q] # 0 /\ n % base[q] = 0
      \/ \E p \in Sieve : n \in Fly(p)
      \/ pipeFailed

Flow ==
  /\ TypeOK /\ ChainOK /\ CanWrite /\ Started /\ Ended
  /\ Printed /\ InOrder /\ Filtered /\ Accounted /\ PrimesInOrder

\* The pipe that failed is that of the last process that printed, and nothing
\* comes through it: the numbers that are lost are behind all that is printed.
Cut ==
  /\ \A p \in Sieve : at[p] = "base" => fd[p]["w"] = None
  /\ pipeFailed =>
       \E p \in Sieve \ {Main} : p[1] = Len(primes) /\ fd[p]["w"] = None /\ buf[p] = <<>>

IInv == Flow /\ Cut

-----------------------------------------------------------------------------
(* Numbers, sequences and the chain                                         *)

\* What divides a divisor divides the number.
LEMMA DividesTransitive ==
  ASSUME NEW a \in Nat \ {0}, NEW b \in Nat \ {0}, NEW c \in Nat,
         c % b = 0, b % a = 0
  PROVE  c % a = 0
<1> DEFINE q == c \div b
           r == b \div a
           s == c \div a
<1>1. q \in Int /\ r \in Int /\ s \in Int
  OBVIOUS
<1>2. c = b * q
  OBVIOUS
<1>3. b = a * r
  OBVIOUS
<1>4. c = a * s + (c % a) /\ c % a \in 0 .. a - 1
  OBVIOUS
<1> HIDE DEF q, r, s
<1>5. c = a * (r * q)
  BY <1>1, <1>2, <1>3
<1>6. c % a = a * (r * q - s)
  BY <1>1, <1>4, <1>5
<1>7. r * q - s \in Int
  BY <1>1
<1>8. \A d \in Int : d >= 1 => a * d >= a
  OBVIOUS
<1>9. \A d \in Int : d <= 0 => a * d <= 0
  OBVIOUS
<1> QED
  BY <1>4, <1>6, <1>7, <1>8, <1>9

\* A number less than another is its own remainder.
LEMMA SmallRemainder ==
  ASSUME NEW n \in Nat, NEW b \in Nat, n < b
  PROVE  n % b = n
OBVIOUS

\* A prime is a multiple of no other number but 1.
LEMMA OnlyItself ==
  ASSUME NEW n \in Nat, IsPrime(n), NEW b \in Nat, b > 1, n % b = 0
  PROVE  b = n
<1>1. b \notin 2 .. n - 1
  BY DEF IsPrime
<1>2. ~ (n < b)
  BY SmallRemainder DEF IsPrime
<1> QED
  BY <1>1, <1>2

LEMMA SieveFacts ==
  /\ Main \in Sieve /\ Main[1] = 0
  /\ Sieve \subseteq Proc /\ Sieve \subseteq PipeId
  /\ \A p \in Sieve : p[1] \in 0 .. Chain
  /\ \A p, q \in Sieve : p[1] = q[1] => p = q
  /\ \A p \in Sieve \ {Main} : Parent(p) \in Sieve /\ Parent(p)[1] = p[1] - 1
  /\ \A p \in Sieve : p[1] < Chain => Child(p) \in Sieve /\ Child(p)[1] = p[1] + 1
<1>1. Chain \in Nat /\ N \in Nat /\ N >= 2 /\ Chain >= 1
  BY PrimesAssumption
<1>2. \A i : <<i>>[1] = i
  OBVIOUS
<1>3. \A p \in Sieve : p = <<p[1]>> /\ p[1] \in 0 .. Chain
  BY <1>2 DEF Sieve
<1>4. \A i \in 0 .. Chain : <<i>> \in Sieve
  BY DEF Sieve
<1>5. Main \in Sieve /\ Main[1] = 0
  BY <1>1, <1>4 DEF Main
<1>6. \A p, q \in Sieve : p[1] = q[1] => p = q
  BY <1>3
<1>7. ASSUME NEW p \in Sieve \ {Main}
      PROVE  Parent(p) \in Sieve /\ Parent(p)[1] = p[1] - 1
  <2>1. p[1] # 0
    BY <1>3 DEF Main
  <2>2. p[1] - 1 \in 0 .. Chain
    BY <1>1, <1>3, <2>1
  <2> QED
    BY <1>4, <2>2 DEF Parent
<1>8. ASSUME NEW p \in Sieve, p[1] < Chain
      PROVE  Child(p) \in Sieve /\ Child(p)[1] = p[1] + 1
  <2>1. p[1] + 1 \in 0 .. Chain
    BY <1>1, <1>3, <1>8
  <2> QED
    BY <1>4, <2>1 DEF Child
<1> QED
  BY <1>3, <1>5, <1>6, <1>7, <1>8, PrimesAssumption

LEMMA ElemsType ==
  ASSUME NEW S, NEW s \in Seq(S)
  PROVE  Elems(s) \subseteq S /\ (s = <<>> <=> Elems(s) = {})
<1>1. Len(s) \in Nat /\ \A k \in 1 .. Len(s) : s[k] \in S
  OBVIOUS
<1>2. Elems(s) = {} => Len(s) = 0
  <2> SUFFICES ASSUME Len(s) # 0 PROVE Elems(s) # {}
    OBVIOUS
  <2>1. 1 \in 1 .. Len(s)
    BY <1>1
  <2>2. s[1] \in Elems(s)
    BY <2>1 DEF Elems
  <2> QED
    BY <2>2
<1>3. s = <<>> => Elems(s) = {}
  BY DEF Elems
<1> QED
  BY <1>1, <1>2, <1>3 DEF Elems

LEMMA Appended ==
  ASSUME NEW S, NEW s \in Seq(S), NEW x \in S
  PROVE  Append(s, x) \in Seq(S) /\ Elems(Append(s, x)) = Elems(s) \cup {x}
<1> DEFINE t == Append(s, x)
<1>1. t \in Seq(S) /\ Len(t) = Len(s) + 1 /\ Len(s) \in Nat
      /\ t[Len(s) + 1] = x /\ \A k \in 1 .. Len(s) : t[k] = s[k]
  OBVIOUS
<1> HIDE DEF t
<1>2. 1 .. Len(t) = (1 .. Len(s)) \cup {Len(s) + 1}
  BY <1>1
<1>3. Elems(t) = Elems(s) \cup {x}
  BY <1>1, <1>2 DEF Elems
<1> QED
  BY <1>1, <1>3 DEF t

LEMMA AppendedIncreasing ==
  ASSUME NEW s \in Seq(Nat), NEW x \in Nat, Increasing(s), \A n \in Elems(s) : n < x
  PROVE  Increasing(Append(s, x))
<1> DEFINE t == Append(s, x)
<1>1. Len(t) = Len(s) + 1 /\ Len(s) \in Nat
      /\ t[Len(s) + 1] = x /\ \A k \in 1 .. Len(s) : t[k] = s[k]
  OBVIOUS
<1> HIDE DEF t
<1>2. \A k \in 1 .. Len(s) : s[k] < x
  BY DEF Elems
<1>3. Increasing(t)
  BY <1>1, <1>2 DEF Increasing
<1> QED
  BY <1>3 DEF t

LEMMA Taken ==
  ASSUME NEW S, NEW s \in Seq(S), s # <<>>
  PROVE  /\ Tail(s) \in Seq(S) /\ Head(s) \in S
         /\ Elems(s) = Elems(Tail(s)) \cup {Head(s)}
<1> DEFINE t == Tail(s)
<1>1. t \in Seq(S) /\ Len(t) = Len(s) - 1 /\ Len(s) \in Nat \ {0} /\ Head(s) = s[1]
      /\ s[1] \in S
  OBVIOUS
<1>2. \A k \in 1 .. Len(t) : t[k] = s[k + 1]
  OBVIOUS
<1> HIDE DEF t
<1>3. Elems(t) \cup {s[1]} \subseteq Elems(s)
  BY <1>1, <1>2 DEF Elems
<1>4. ASSUME NEW k \in 1 .. Len(s)
      PROVE  s[k] \in Elems(t) \cup {s[1]}
  <2>1. CASE k = 1
    BY <2>1
  <2>2. CASE k # 1
    <3>1. k - 1 \in 1 .. Len(t) /\ t[k - 1] = s[k]
      BY <1>1, <1>2, <2>2
    <3> QED
      BY <3>1 DEF Elems
  <2> QED
    BY <2>1, <2>2
<1>5. Elems(s) \subseteq Elems(t) \cup {s[1]}
  BY <1>4 DEF Elems
<1> QED
  BY <1>1, <1>3, <1>5 DEF t

LEMMA TakenIncreasing ==
  ASSUME NEW s \in Seq(Nat), s # <<>>, Increasing(s)
  PROVE  Increasing(Tail(s)) /\ \A n \in Elems(Tail(s)) : Head(s) < n
<1> DEFINE t == Tail(s)
<1>1. Len(t) = Len(s) - 1 /\ Len(s) \in Nat \ {0} /\ Head(s) = s[1]
  OBVIOUS
<1>2. \A k \in 1 .. Len(t) : t[k] = s[k + 1]
  OBVIOUS
<1> HIDE DEF t
<1>5. \A k \in 1 .. Len(t) : k \in 1 .. Len(s) /\ k + 1 \in 1 .. Len(s)
  BY <1>1
<1>6. \A k \in 1 .. Len(t) : s[1] < s[k + 1]
  BY <1>1, <1>5 DEF Increasing
<1>7. \A k, l \in 1 .. Len(t) : k < l => s[k + 1] < s[l + 1]
  BY <1>1, <1>5 DEF Increasing
<1>3. Increasing(t)
  BY <1>2, <1>7 DEF Increasing
<1>4. \A n \in Elems(t) : s[1] < n
  BY <1>2, <1>6 DEF Elems
<1> QED
  BY <1>1, <1>3, <1>4 DEF t

-----------------------------------------------------------------------------
(* What every step needs                                                    *)

LEMMA Numbers == N \in Nat /\ N >= 2 /\ Chain \in 1 .. N /\ Capacity \in Nat \ {0}
BY PrimesAssumption

\* The processes before one that is there all run, and are past their start.
LEMMA Before ==
  ASSUME ChainOK, TypeOK, NEW p \in Sieve, state[p] \notin {"none", "gone"},
         NEW q \in Sieve, q[1] < p[1]
  PROVE  state[q] = "run" /\ at[q] \in {"filter", "wait"}
<1>1. q \in Proc /\ at[q] \in {"fork", "child", "base", "filter", "wait", "exit", "end"}
  BY SieveFacts DEF TypeOK
<1>2. at[q] \notin {"fork", "child", "base"}
  BY DEF ChainOK
<1>3. at[q] \notin {"exit", "end"}
  BY DEF ChainOK
<1>4. state[q] \notin {"none", "zombie", "gone"}
  BY <1>2, <1>3 DEF ChainOK
<1> QED
  BY <1>1, <1>2, <1>3, <1>4 DEF TypeOK

\* What is on its way are numbers from 2 to N, and the next that main sends.
LEMMA FlyType ==
  ASSUME TypeOK
  PROVE  \A p \in Sieve :
           /\ buf[p] \in Seq(2 .. N) /\ Elems(buf[p]) \subseteq 2 .. N
           /\ Fly(p) \subseteq 2 .. N + 1
           /\ base[p] \in {0} \cup 2 .. N /\ held[p] \in {0} \cup 2 .. N + 1
<1> SUFFICES ASSUME NEW p \in Sieve
    PROVE  /\ buf[p] \in Seq(2 .. N) /\ Elems(buf[p]) \subseteq 2 .. N
           /\ Fly(p) \subseteq 2 .. N + 1
           /\ base[p] \in {0} \cup 2 .. N /\ held[p] \in {0} \cup 2 .. N + 1
  OBVIOUS
<1>1. buf[p] \in Seq(2 .. N) /\ base[p] \in {0} \cup 2 .. N /\ held[p] \in {0} \cup 2 .. N + 1
  BY SieveFacts DEF TypeOK
<1>2. Elems(buf[p]) \subseteq 2 .. N
  BY <1>1, ElemsType
<1>3. Fly(p) \subseteq 2 .. N + 1
  BY <1>1, <1>2, Numbers DEF Fly
<1> QED
  BY <1>1, <1>2, <1>3

LEMMA Neighbours ==
  ASSUME NEW i \in Int, NEW j \in Int
  PROVE  i < j \/ i > j + 1 \/ i = j \/ i = j + 1
OBVIOUS

LEMMA NextOne ==
  ASSUME NEW i \in Int, NEW j \in Int, i > j
  PROVE  i > j + 1 \/ i = j + 1
OBVIOUS

LEMMA PastTheLast ==
  ASSUME NEW n \in Nat, NEW h \in {0} \cup 2 .. n + 1, h > n
  PROVE  h = n + 1
OBVIOUS

LEMMA NotBetween ==
  ASSUME NEW i \in Int, NEW j \in Int
  PROVE  /\ i < j + 1 /\ i # j => i < j
         /\ i <= j + 1 /\ i # j + 1 => i <= j
OBVIOUS

\* The part of the invariant that is about the numbers.
Numeric == Printed /\ InOrder /\ Filtered /\ Accounted /\ PrimesInOrder

LEMMA NumbersUntouched ==
  ASSUME Numeric, UNCHANGED <<buf, base, held, primes, pipeFailed>>
  PROVE  Numeric'
<1>1. \A p : Fly(p)' = Fly(p)
  BY DEF Fly
<1>2. Printed'
  BY DEF Numeric, Printed
<1>3. InOrder'
  BY <1>1 DEF Numeric, InOrder
<1>4. Filtered'
  BY <1>1 DEF Numeric, Filtered
<1>5. Accounted'
  BY <1>1 DEF Numeric, Accounted
<1>6. PrimesInOrder'
  BY DEF Numeric, PrimesInOrder
<1> QED
  BY <1>2, <1>3, <1>4, <1>5, <1>6 DEF Numeric

\* The same numbers may be on their way elsewhere: p has passed one on.
LEMMA NumbersMoved ==
  ASSUME Numeric, TypeOK, UNCHANGED <<base, primes, pipeFailed>>,
         \A p \in Sieve : Fly(p)' = Fly(p),
         held'[Main] = held[Main],
         \A p \in Sieve : /\ Increasing(buf'[p])
                          /\ \A n \in Elems(buf'[p]) : held'[p] # 0 => n < held'[p]
  PROVE  Numeric'
<1>2. Printed'
  BY DEF Numeric, Printed
<1>3. InOrder'
  BY DEF Numeric, InOrder
<1>4. Filtered'
  BY DEF Numeric, Filtered
<1>5. Accounted'
  BY DEF Numeric, Accounted
<1>6. PrimesInOrder'
  BY DEF Numeric, PrimesInOrder
<1> QED
  BY <1>2, <1>3, <1>4, <1>5, <1>6 DEF Numeric

-----------------------------------------------------------------------------
(* The steps                                                                *)

\* main starts with 2; what a child gets is a process of its own.
LEMMA ForkChildNumbers ==
  ASSUME Flow, NEW p \in Sieve, ForkChild(p)
  PROVE  Numeric'
<1> USE SieveFacts, Numbers DEF Flow
<1>1. Running(p, "fork") /\ buf' = buf /\ base' = base /\ primes' = primes
      /\ held' = [held EXCEPT ![p] = IF p = Main THEN 2 ELSE 0] /\ pipeFailed' = pipeFailed
  BY DEF ForkChild, Forks, failed
<1>2. at[p] = "fork" /\ buf[p] = <<>> /\ held[p] = 0
  BY <1>1 DEF Running, Started
<1>3. CASE p # Main
  <2>1. held' = held
    BY <1>1, <1>2, <1>3 DEF TypeOK
  <2> QED
    BY <1>1, <2>1, NumbersUntouched DEF Numeric
<1>4. CASE p = Main
  <2>1. \A q \in Sieve \ {Main} : q[1] > p[1] /\ state[q] = "none"
    <3> TAKE q \in Sieve \ {Main}
    <3>1. q[1] \in Nat /\ q[1] # 0
      OBVIOUS
    <3> QED
      BY <1>2, <1>4, <3>1 DEF ChainOK
  <2>2. \A q \in Sieve : base[q] = 0
    BY <2>1 DEF Started
  <2>3. \A q \in Sieve \ {Main} : buf[q] = <<>> /\ held'[q] = 0
    BY <1>1, <1>4, <2>1, <2>2 DEF Started, TypeOK
  <2>4. held'[Main] = 2
    BY <1>1, <1>4 DEF TypeOK
  <2>5. Elems(<<>>) = {}
    BY DEF Elems
  <2>6. \A q \in Sieve \ {Main} : Fly(q)' = {}
    BY <1>1, <2>3, <2>5 DEF Fly
  <2>7. Fly(Main)' = {2}
    BY <1>1, <1>2, <1>4, <2>4, <2>5 DEF Fly
  <2>8. Printed'
    BY <1>1 DEF Printed
  <2>9. InOrder'
    <3>1. \A q \in Sieve : buf'[q] = <<>>
      BY <1>1, <1>2, <1>4, <2>3
    <3>2. Increasing(<<>>)
      BY DEF Increasing
    <3>3. \A q \in Sieve : Increasing(buf'[q]) /\ Elems(buf'[q]) = {}
      BY <2>5, <3>1, <3>2
    <3>4. \A q, r \in Sieve : q[1] < r[1] => Fly(r)' = {}
      BY <2>6
    <3>5. \A q \in Sieve : \A n \in Fly(q)' : n = 2
      BY <2>6, <2>7
    <3> QED
      BY <1>1, <2>2, <2>4, <3>3, <3>4, <3>5 DEF InOrder
  <2>10. Filtered'
    BY <1>1, <2>2 DEF Filtered
  <2>11. Accounted'
    BY <2>4 DEF Accounted
  <2>12. PrimesInOrder'
    BY <1>1 DEF PrimesInOrder
  <2> QED
    BY <2>8, <2>9, <2>10, <2>11, <2>12 DEF Numeric
<1> QED
  BY <1>3, <1>4

LEMMA ForkChildStep ==
  ASSUME Flow, NEW p \in Sieve, ForkChild(p)
  PROVE  Flow'
<1> SUFFICES ASSUME TypeOK, ChainOK, CanWrite, Started, Ended
    PROVE  Flow'
  BY DEF Flow
<1> USE SieveFacts, Numbers
<1> DEFINE c == Child(p)
<1>1. /\ state[p] = "run" /\ at[p] = "fork" /\ p[1] < Chain
      /\ state[c] = "none"
      /\ state' = [state EXCEPT ![c] = "run"]
      /\ fd' = [fd EXCEPT ![c] = fd[p]]
      /\ at' = [at EXCEPT ![p] = "filter", ![c] = "child"]
      /\ buf' = buf /\ base' = base /\ primes' = primes
      /\ forkFailed' = forkFailed /\ pipeFailed' = pipeFailed
      /\ held' = [held EXCEPT ![p] = IF p = Main THEN 2 ELSE 0]
  BY DEF ForkChild, Forks, Running, failed
<1>2. c \in Sieve /\ c[1] = p[1] + 1 /\ c # p /\ c # Main /\ at[c] = "fork"
  BY <1>1 DEF ChainOK
<1> HIDE DEF c
<1>3. \A q \in Sieve : q[1] > p[1] => state[q] = "none" /\ at[q] = "fork"
  BY <1>1 DEF ChainOK
<1>4. buf[p] = <<>> /\ held[p] = 0 /\ buf[c] = <<>> /\ held[c] = 0
  BY <1>1, <1>2 DEF Started
<1>5. \A q \in Sieve : q[1] < p[1] => state[q] = "run" /\ at[q] \in {"filter", "wait"}
  BY <1>1, Before
<1>6. /\ \A q \in Proc : state'[q] = IF q = c THEN "run" ELSE state[q]
      /\ \A q \in Proc : at'[q] = IF q = c THEN "child" ELSE IF q = p THEN "filter" ELSE at[q]
      /\ \A q \in Proc : fd'[q] = IF q = c THEN fd[p] ELSE fd[q]
      /\ \A q \in Sieve : q # p => held'[q] = held[q]
      /\ held'[p] = IF p = Main THEN 2 ELSE 0
  BY <1>1, <1>2 DEF TypeOK
<1>7. TypeOK'
  <2>1. state' \in [Proc -> {"none", "run", "zombie", "gone"}]
    BY <1>1 DEF TypeOK
  <2>2. fd' \in [Proc -> [Slot -> {None} \cup (PipeId \X {"r", "w"})]]
    BY <1>1 DEF TypeOK
  <2>3. at' \in [Proc -> {"fork", "child", "base", "filter", "wait", "exit", "end"}]
    BY <1>1 DEF TypeOK
  <2>4. held' \in [Sieve -> {0} \cup 2 .. N + 1]
    BY <1>1 DEF TypeOK
  <2> QED
    BY <1>1, <2>1, <2>2, <2>3, <2>4 DEF TypeOK
<1>8. ChainOK'
  <2>1. ASSUME NEW q \in Sieve, q[1] < p[1]
        PROVE  /\ q # p /\ q # c /\ at'[q] = at[q] /\ state'[q] = state[q]
               /\ state[q] = "run" /\ at[q] \in {"filter", "wait"}
               /\ q[1] < Chain /\ Child(q) \in Sieve /\ Child(q) # c
    BY <1>2, <1>5, <1>6, <2>1 DEF ChainOK
  <2>2. \A q \in Sieve : q[1] < p[1] =>
          at'[q] \in {"filter", "wait"} /\ state'[q] = "run"
          /\ q[1] < Chain /\ state'[Child(q)] \in {"run", "zombie"}
    BY <1>6, <2>1 DEF ChainOK
  <2>3. \A q \in Sieve : q[1] > c[1] =>
          at'[q] = "fork" /\ state'[q] = "none"
    BY <1>2, <1>3, <1>6
  <2>4. at'[p] = "filter" /\ state'[p] = "run" /\ at'[c] = "child" /\ state'[c] = "run"
    BY <1>1, <1>2, <1>6
  <2>5. \A q \in Sieve : q[1] < p[1] \/ q[1] > c[1] \/ q = p \/ q = c
    <3> TAKE q \in Sieve
    <3>1. q[1] \in Int /\ p[1] \in Int /\ c[1] = p[1] + 1
      BY <1>2
    <3>2. q[1] < p[1] \/ q[1] > c[1] \/ q[1] = p[1] \/ q[1] = c[1]
      BY <3>1, Neighbours
    <3> QED
      BY <1>2, <3>2
  <2>6. state'[Main] # "none" /\ at'[Main] \notin {"child", "base"}
    BY <1>2, <1>6 DEF ChainOK
  <2>7. ASSUME NEW q \in Sieve
        PROVE  /\ state'[q] = "none" => at'[q] = "fork"
               /\ at'[q] = "end" <=> state'[q] \in {"zombie", "gone"}
               /\ at'[q] \in {"fork", "child", "base"} =>
                    \A r \in Sieve : r[1] > q[1] => state'[r] = "none"
               /\ at'[q] \in {"filter", "wait"} => q[1] < Chain /\ state'[Child(q)] \in {"run", "zombie"}
               /\ at'[q] # "exit" /\ at'[q] # "end"
    <3>1. CASE q[1] < p[1]
      BY <2>2, <3>1
    <3>2. CASE q = p
      BY <1>1, <2>4, <3>2 DEF c
    <3>3. CASE q = c
      BY <2>3, <2>4, <3>3
    <3>4. CASE q[1] > c[1]
      BY <1>2, <2>3, <3>4
    <3> QED
      BY <2>5, <3>1, <3>2, <3>3, <3>4
  <2> QED
    BY <2>6, <2>7 DEF ChainOK
<1>9. CanWrite'
  BY <1>1, <1>2, <1>6 DEF CanWrite
<1>10. Started'
  <2>1. ASSUME NEW q \in Sieve, q # p, q # c
        PROVE  state'[q] = state[q] /\ at'[q] = at[q] /\ held'[q] = held[q]
    BY <1>6, <2>1
  <2>2. ASSUME NEW q \in Sieve \ {Main}
        PROVE  /\ state'[q] = "none" \/ at'[q] \in {"child", "base"} => base[q] = 0
               /\ state'[q] = "run" /\ at'[q] \notin {"child", "base"} => base[q] # 0
               /\ base[q] = 0 => buf[q] = <<>> /\ held'[q] = 0
    <3>1. CASE q = p
      <4>1. state'[p] = "run" /\ at'[p] = "filter" /\ held'[p] = 0
        BY <1>1, <1>2, <1>6, <3>1
      <4>2. base[p] # 0 /\ buf[p] = <<>>
        BY <1>1, <1>4, <3>1 DEF Started
      <4> QED
        BY <3>1, <4>1, <4>2
    <3>2. CASE q = c
      <4>1. state'[c] = "run" /\ at'[c] = "child" /\ held'[c] = held[c]
        BY <1>2, <1>6
      <4>2. base[c] = 0
        BY <1>1, <1>2 DEF Started
      <4> QED
        BY <1>4, <3>2, <4>1, <4>2
    <3>3. CASE q # p /\ q # c
      BY <2>1, <3>3 DEF Started
    <3> QED
      BY <3>1, <3>2, <3>3
  <2>3. \A q \in Sieve : at'[q] = "fork" => buf[q] = <<>> /\ held'[q] = 0
    BY <1>2, <1>6, <2>1 DEF Started
  <2> QED
    BY <1>1, <2>2, <2>3 DEF Started
<1>11. Ended'
  <2> SUFFICES ASSUME ~ pipeFailed PROVE Ended'
    BY <1>1 DEF Ended
  <2>1. ASSUME NEW q \in Sieve, Over(q)'
        PROVE  q # p /\ q # c /\ Over(q) /\ q[1] < p[1]
    BY <1>1, <1>2, <1>3, <1>6, <2>1 DEF Over
  <2>2. \A q \in Sieve : at'[q] # "end"
    <3> TAKE q \in Sieve
    <3>1. q[1] < p[1] \/ q = p \/ q[1] > p[1]
      OBVIOUS
    <3> QED
      BY <1>2, <1>3, <1>5, <1>6, <3>1
  <2>3. Over(Main)' => held'[Main] = N + 1
    BY <1>6, <2>1 DEF Ended
  <2>4. ASSUME NEW q \in Sieve \ {Main}, Over(q)'
        PROVE  held'[q] = 0 /\ buf'[Parent(q)] = <<>> /\ at'[Parent(q)] \in {"wait", "exit", "end"}
    <3>1. q # p /\ q # c /\ Over(q) /\ q[1] < p[1]
      BY <2>1, <2>4
    <3>2. Parent(q) \in Sieve /\ Parent(q) # p /\ Parent(q) # c
      BY <1>2, <3>1
    <3>3. held'[q] = held[q] /\ at'[Parent(q)] = at[Parent(q)]
      BY <1>6, <3>1, <3>2
    <3> QED
      BY <1>1, <3>1, <3>3 DEF Ended
  <2> QED
    BY <2>2, <2>3, <2>4 DEF Ended
<1>12. Numeric'
  BY ForkChildNumbers
<1> QED
  BY <1>7, <1>8, <1>9, <1>10, <1>11, <1>12 DEF Numeric, Flow

\* A process goes on within its part of the program.
LEMMA GoesOnInChain ==
  ASSUME TypeOK, ChainOK, NEW p \in Sieve, NEW next,
         state[p] = "run", state' = state, Goto(p, next),
         \/ at[p] = "child" /\ next = "base"
         \/ at[p] = "base" /\ next = "fork"
         \/ at[p] = "filter" /\ next = "wait"
  PROVE  ChainOK'
<1> USE SieveFacts
<1>1. \A q \in Sieve : at'[q] = IF q = p THEN next ELSE at[q]
  BY DEF Goto, TypeOK
<1>2. state'[Main] # "none" /\ at'[Main] \notin {"child", "base"}
  BY <1>1 DEF ChainOK
<1>3. ASSUME NEW q \in Sieve
      PROVE  /\ state'[q] = "none" => at'[q] = "fork"
             /\ at'[q] = "end" <=> state'[q] \in {"zombie", "gone"}
             /\ at'[q] \in {"fork", "child", "base"} =>
                  \A r \in Sieve : r[1] > q[1] => state'[r] = "none"
             /\ at'[q] \in {"filter", "wait"} => q[1] < Chain /\ state'[Child(q)] \in {"run", "zombie"}
             /\ at'[q] = "exit" => q[1] < Chain /\ state'[Child(q)] = "gone"
             /\ at'[q] \in {"exit", "end"} =>
                  \A r \in Sieve : r[1] > q[1] => state'[r] \in {"none", "gone"}
  <2>1. CASE q = p
    BY <1>1, <2>1 DEF ChainOK
  <2>2. CASE q # p
    BY <1>1, <2>2 DEF ChainOK
  <2> QED
    BY <2>1, <2>2
<1> QED
  BY <1>2, <1>3 DEF ChainOK

\* A process ends that has no child, or none any more.
LEMMA ExitsInChain ==
  ASSUME TypeOK, ChainOK, NEW p \in Sieve,
         state[p] = "run", Exits(p), at[p] \in {"fork", "base", "exit"}
  PROVE  ChainOK'
<1> USE SieveFacts
<1>1. \A q \in Sieve : /\ at'[q] = IF q = p THEN "end" ELSE at[q]
                       /\ state'[q] = IF q = p THEN "zombie" ELSE state[q]
  BY DEF Exits, Ends, Goto, TypeOK
<1>2. state'[Main] # "none" /\ at'[Main] \notin {"child", "base"}
  BY <1>1 DEF ChainOK
<1>3. \A r \in Sieve : r[1] > p[1] => r # p /\ state[r] \in {"none", "gone"}
  BY DEF ChainOK
<1>4. \A q \in Sieve : q[1] < p[1] => at[q] \in {"filter", "wait"}
  BY Before
<1>5. ASSUME NEW q \in Sieve
      PROVE  /\ state'[q] = "none" => at'[q] = "fork"
             /\ at'[q] = "end" <=> state'[q] \in {"zombie", "gone"}
             /\ at'[q] \in {"fork", "child", "base"} =>
                  \A r \in Sieve : r[1] > q[1] => state'[r] = "none"
             /\ at'[q] \in {"filter", "wait"} => q[1] < Chain /\ state'[Child(q)] \in {"run", "zombie"}
             /\ at'[q] = "exit" => q[1] < Chain /\ state'[Child(q)] = "gone"
             /\ at'[q] \in {"exit", "end"} =>
                  \A r \in Sieve : r[1] > q[1] => state'[r] \in {"none", "gone"}
  <2>1. CASE q = p
    <3>1. at'[p] = "end" /\ state'[p] = "zombie"
      BY <1>1
    <3>2. \A r \in Sieve : r[1] > p[1] => state'[r] \in {"none", "gone"}
      BY <1>1, <1>3
    <3> QED
      BY <2>1, <3>1, <3>2
  <2>2. CASE q[1] < p[1]
    <3>1. q # p /\ at'[q] = at[q] /\ state'[q] = state[q] /\ at[q] \in {"filter", "wait"}
      BY <1>1, <1>4, <2>2
    <3>2. q[1] < Chain /\ Child(q) \in Sieve /\ state[Child(q)] \in {"run", "zombie"}
      BY <3>1 DEF ChainOK
    <3>3. state'[Child(q)] \in {"run", "zombie"}
      BY <1>1, <3>2
    <3> QED
      BY <3>1, <3>2, <3>3 DEF ChainOK
  <2>3. CASE q[1] > p[1]
    <3>1. /\ q # p /\ at'[q] = at[q] /\ state'[q] = state[q]
          /\ \A r \in Sieve : r[1] > q[1] => r # p /\ state'[r] = state[r]
      BY <1>1, <2>3
    <3>2. q[1] < Chain => Child(q) \in Sieve /\ Child(q) # p /\ state'[Child(q)] = state[Child(q)]
      BY <1>1, <2>3
    <3> QED
      BY <3>1, <3>2 DEF ChainOK
  <2>4. q[1] < p[1] \/ q[1] > p[1] \/ q[1] = p[1]
    OBVIOUS
  <2> QED
    BY <2>1, <2>2, <2>3, <2>4
<1> QED
  BY <1>2, <1>5 DEF ChainOK

\* A process waits for its child.
LEMMA WaitsInChain ==
  ASSUME TypeOK, ChainOK, NEW p \in Sieve, WaitChild(p)
  PROVE  ChainOK'
<1> USE SieveFacts
<1>1. state[p] = "run" /\ at[p] = "wait" /\ p[1] < Chain /\ state[Child(p)] = "zombie"
  BY DEF WaitChild, Running, Reaps, ChainOK
<1> DEFINE c == Child(p)
<1>2. c \in Sieve /\ c # p /\ c[1] = p[1] + 1
  BY <1>1
<1>3. \A q \in Sieve : /\ at'[q] = IF q = p THEN "exit" ELSE at[q]
                       /\ state'[q] = IF q = c THEN "gone" ELSE state[q]
  BY DEF WaitChild, Reaps, Goto, TypeOK
<1>4. state[c] = "zombie" /\ at[c] = "end"
  BY <1>1, <1>2 DEF ChainOK
<1>5. state'[c] = "gone" /\ at'[c] = "end" /\ state'[p] = "run" /\ at'[p] = "exit"
  BY <1>1, <1>2, <1>3, <1>4
<1> HIDE DEF c
<1>6. state'[Main] # "none" /\ at'[Main] \notin {"child", "base"}
  BY <1>3 DEF ChainOK
<1>7. \A r \in Sieve : r[1] > c[1] => r # p /\ r # c /\ state[r] \in {"none", "gone"}
  BY <1>2, <1>4 DEF ChainOK
<1>8. \A q \in Sieve : q[1] < p[1] => at[q] \in {"filter", "wait"}
  BY <1>1, Before
<1>9. ASSUME NEW q \in Sieve
      PROVE  /\ state'[q] = "none" => at'[q] = "fork"
             /\ at'[q] = "end" <=> state'[q] \in {"zombie", "gone"}
             /\ at'[q] \in {"fork", "child", "base"} =>
                  \A r \in Sieve : r[1] > q[1] => state'[r] = "none"
             /\ at'[q] \in {"filter", "wait"} => q[1] < Chain /\ state'[Child(q)] \in {"run", "zombie"}
             /\ at'[q] = "exit" => q[1] < Chain /\ state'[Child(q)] = "gone"
             /\ at'[q] \in {"exit", "end"} =>
                  \A r \in Sieve : r[1] > q[1] => state'[r] \in {"none", "gone"}
  <2>1. CASE q = p
    <3>1. ASSUME NEW r \in Sieve, r[1] > p[1]
          PROVE  state'[r] \in {"none", "gone"}
      <4>1. r[1] \in Int /\ p[1] \in Int /\ c[1] = p[1] + 1
        BY <1>2
      <4>2. r[1] > c[1] \/ r[1] = c[1]
        BY <3>1, <4>1, NextOne
      <4> QED
        BY <1>2, <1>3, <1>5, <1>7, <4>2
    <3> QED
      BY <1>1, <1>5, <2>1, <3>1 DEF c
  <2>2. CASE q[1] < p[1]
    <3>1. q # p /\ q # c /\ at'[q] = at[q] /\ state'[q] = state[q] /\ at[q] \in {"filter", "wait"}
      BY <1>2, <1>3, <1>8, <2>2
    <3>2. q[1] < Chain /\ Child(q) \in Sieve /\ state[Child(q)] \in {"run", "zombie"}
      BY <3>1 DEF ChainOK
    <3>3. Child(q) # c
      BY <1>2, <2>2, <3>2
    <3>4. state'[Child(q)] \in {"run", "zombie"}
      BY <1>3, <3>2, <3>3
    <3> QED
      BY <3>1, <3>2, <3>4 DEF ChainOK
  <2>3. CASE q = c
    <3>1. \A r \in Sieve : r[1] > c[1] => state'[r] \in {"none", "gone"}
      BY <1>3, <1>7
    <3> QED
      BY <1>5, <2>3, <3>1
  <2>4. CASE q[1] > c[1]
    <3>1. /\ q # p /\ q # c /\ at'[q] = at[q] /\ state'[q] = state[q]
          /\ \A r \in Sieve : r[1] > q[1] => r # c /\ state'[r] = state[r]
      BY <1>2, <1>3, <2>4
    <3>2. q[1] < Chain => Child(q) \in Sieve /\ Child(q) # c /\ state'[Child(q)] = state[Child(q)]
      BY <1>2, <1>3, <2>4
    <3> QED
      BY <3>1, <3>2 DEF ChainOK
  <2>5. q[1] < p[1] \/ q[1] > c[1] \/ q[1] = p[1] \/ q[1] = c[1]
    <3>1. q[1] \in Int /\ p[1] \in Int /\ c[1] = p[1] + 1
      BY <1>2
    <3> QED
      BY <3>1, Neighbours
  <2> QED
    BY <1>2, <2>1, <2>2, <2>3, <2>4, <2>5
<1> QED
  BY <1>6, <1>9 DEF ChainOK

\* When a process finds the end of its input, its parent is past its loop, if no
\* pipe failed.
LEMMA EndOfInput ==
  ASSUME TypeOK, ChainOK, CanWrite, ~ pipeFailed, NEW p \in Sieve \ {Main},
         state[p] = "run", AtEnd(Parent(p))
  PROVE  at[Parent(p)] = "wait" /\ buf[Parent(p)] = <<>>
<1>1. Parent(p) \in Sieve /\ Parent(p)[1] < p[1]
  BY SieveFacts
<1>2. state[Parent(p)] = "run" /\ at[Parent(p)] \in {"filter", "wait"}
  BY <1>1, Before
<1>3. at[Parent(p)] # "filter"
  <2> SUFFICES ASSUME at[Parent(p)] = "filter" PROVE FALSE
    OBVIOUS
  <2>1. fd[Parent(p)]["w"] = End(Parent(p), "w")
    BY <1>1, <1>2 DEF CanWrite
  <2>2. "w" \in Slot /\ Parent(p) \in Proc
    BY <1>1, SieveFacts DEF Slot
  <2> QED
    BY <2>1, <2>2 DEF AtEnd, IsOpen
<1> QED
  BY <1>2, <1>3 DEF AtEnd

\* The steps in which no number moves.
LEMMA QuietType ==
  ASSUME TypeOK, NEW p \in Sieve,
         \/ ForkFails(p) \/ HagoDeHijo(p) \/ NoMorePrimes(p)
         \/ CloseAll(p) \/ WaitChild(p) \/ Return(p)
  PROVE  TypeOK' /\ UNCHANGED <<buf, base, held, primes, pipeFailed>> /\ (forkFailed => forkFailed')
<1> USE SieveFacts
<1>1. Closed \in [Slot -> {None} \cup (PipeId \X {"r", "w"})]
  BY DEF Closed
<1>2. AsChild(fd[p]) \in [Slot -> {None} \cup (PipeId \X {"r", "w"})]
  BY DEF AsChild, TypeOK, Slot
<1>3. CASE ForkFails(p) \/ NoMorePrimes(p) \/ Return(p)
  <2>1. /\ state' = [state EXCEPT ![p] = "zombie"] /\ fd' = [fd EXCEPT ![p] = Closed]
        /\ at' = [at EXCEPT ![p] = "end"]
        /\ UNCHANGED <<buf, base, held, primes, pipeFailed>> /\ forkFailed' \in {forkFailed, TRUE}
    BY <1>3 DEF ForkFails, NoMorePrimes, Return, Exits, Ends, Goto, sieve, failed
  <2> QED
    BY <1>1, <2>1 DEF TypeOK
<1>4. CASE HagoDeHijo(p) \/ CloseAll(p)
  <2>1. /\ state' = state /\ UNCHANGED <<buf, base, held, primes, forkFailed, pipeFailed>>
        /\ \E f \in {Closed, AsChild(fd[p])} : fd' = [fd EXCEPT ![p] = f]
        /\ \E w \in {"base", "wait"} : at' = [at EXCEPT ![p] = w]
    BY <1>4 DEF HagoDeHijo, CloseAll, Sets, Goto, sieve, failed
  <2>2. fd' \in [Proc -> [Slot -> {None} \cup (PipeId \X {"r", "w"})]]
    BY <1>1, <1>2, <2>1 DEF TypeOK
  <2>3. at' \in [Proc -> {"fork", "child", "base", "filter", "wait", "exit", "end"}]
    BY <2>1 DEF TypeOK
  <2> QED
    BY <2>1, <2>2, <2>3 DEF TypeOK
<1>5. CASE WaitChild(p)
  <2>1. /\ state' = [state EXCEPT ![Child(p)] = "gone"] /\ at' = [at EXCEPT ![p] = "exit"]
        /\ UNCHANGED <<fd, buf, base, held, primes, forkFailed, pipeFailed>>
    BY <1>5 DEF WaitChild, Reaps, Goto, sieve, failed
  <2> QED
    BY <2>1 DEF TypeOK
<1> QED
  BY <1>3, <1>4, <1>5

LEMMA ExitsStep ==
  ASSUME TypeOK, ChainOK, CanWrite, Started, Ended, NEW p \in Sieve,
         ForkFails(p) \/ NoMorePrimes(p) \/ Return(p)
  PROVE  ChainOK' /\ CanWrite' /\ Started' /\ Ended'
<1> USE SieveFacts
<1>1. /\ state[p] = "run" /\ at[p] \in {"fork", "base", "exit"} /\ Exits(p)
      /\ UNCHANGED <<buf, base, held, pipeFailed>>
      /\ forkFailed' = IF ForkFails(p) THEN TRUE ELSE forkFailed
  BY DEF ForkFails, NoMorePrimes, Return, Running, Exits, Ends, sieve, failed
<1>2. /\ \A q \in Sieve : at'[q] = IF q = p THEN "end" ELSE at[q]
      /\ \A q \in Sieve : state'[q] = IF q = p THEN "zombie" ELSE state[q]
      /\ \A q \in Sieve : q # p => fd'[q] = fd[q]
  BY <1>1 DEF Exits, Ends, Goto, TypeOK
<1>3. ChainOK'
  BY <1>1, ExitsInChain
<1>4. CanWrite'
  BY <1>1, <1>2 DEF CanWrite
<1>5. Started'
  BY <1>1, <1>2 DEF Started
<1>6. Ended'
  <2> SUFFICES ASSUME ~ pipeFailed PROVE Ended'
    BY <1>1 DEF Ended
  <2>1. \A q \in Sieve : q # p /\ Over(q)' => Over(q)
    BY <1>1, <1>2 DEF Over
  <2>2. \A q \in Sieve \ {Main} :
          at[Parent(q)] \in {"wait", "exit", "end"} => at'[Parent(q)] \in {"wait", "exit", "end"}
    BY <1>1, <1>2
  <2>3. ASSUME Over(p)'
        PROVE  /\ p = Main => held[p] = N + 1
               /\ p # Main => held[p] = 0 /\ buf[Parent(p)] = <<>>
                              /\ at[Parent(p)] \in {"wait", "exit", "end"}
               /\ p = Main \/ base[p] # 0 => p[1] < Chain /\ state[Child(p)] = "gone"
    <3>1. ~ ForkFails(p)
      BY <1>1, <1>2, <2>3 DEF Over
    <3>2. CASE NoMorePrimes(p)
      <4>1. at[p] = "base" /\ AtEnd(Parent(p))
        BY <3>2 DEF NoMorePrimes, Running
      <4>2. p # Main
        BY <4>1 DEF ChainOK
      <4>3. base[p] = 0 /\ held[p] = 0
        BY <4>1, <4>2 DEF Started
      <4> QED
        BY <1>1, <4>1, <4>2, <4>3, EndOfInput
    <3>3. CASE Return(p)
      <4>1. at[p] = "exit" /\ Over(p)
        BY <3>3 DEF Return, Running, Over
      <4> QED
        BY <4>1 DEF Ended, ChainOK
    <3> QED
      BY <3>1, <3>2, <3>3
  <2>4. Over(Main)' => held'[Main] = N + 1
    BY <1>1, <2>1, <2>3 DEF Ended
  <2>5. ASSUME NEW q \in Sieve \ {Main}, Over(q)'
        PROVE  held'[q] = 0 /\ buf'[Parent(q)] = <<>> /\ at'[Parent(q)] \in {"wait", "exit", "end"}
    <3>1. CASE q = p
      BY <1>1, <2>2, <2>3, <2>5, <3>1
    <3>2. CASE q # p
      BY <1>1, <2>1, <2>2, <2>5, <3>2 DEF Ended
    <3> QED
      BY <3>1, <3>2
  <2>6. ASSUME NEW q \in Sieve, at'[q] = "end", ~ forkFailed', q = Main \/ base'[q] # 0
        PROVE  q[1] < Chain /\ state'[Child(q)] = "gone"
    <3>1. q[1] < Chain /\ state[Child(q)] = "gone"
      <4>1. CASE q = p
        BY <1>1, <2>3, <2>6, <4>1 DEF Over
      <4>2. CASE q # p
        BY <1>1, <1>2, <2>6, <4>2 DEF Ended
      <4> QED
        BY <4>1, <4>2
    <3> QED
      BY <1>1, <1>2, <3>1
  <2> QED
    BY <2>4, <2>5, <2>6 DEF Ended
<1> QED
  BY <1>3, <1>4, <1>5, <1>6

LEMMA HagoDeHijoStep ==
  ASSUME TypeOK, ChainOK, CanWrite, Started, Ended, NEW p \in Sieve, HagoDeHijo(p)
  PROVE  ChainOK' /\ CanWrite' /\ Started' /\ Ended'
<1> USE SieveFacts
<1>1. /\ state[p] = "run" /\ at[p] = "child" /\ state' = state /\ Goto(p, "base")
      /\ UNCHANGED <<buf, base, held, forkFailed, pipeFailed>>
  BY DEF HagoDeHijo, Running, Sets, sieve, failed
<1>2. /\ \A q \in Sieve : at'[q] = IF q = p THEN "base" ELSE at[q]
      /\ \A q \in Sieve : q # p => fd'[q] = fd[q]
  BY DEF HagoDeHijo, Sets, Goto, TypeOK
<1>3. ChainOK'
  BY <1>1, GoesOnInChain
<1>4. CanWrite'
  BY <1>1, <1>2 DEF CanWrite
<1>5. Started'
  BY <1>1, <1>2 DEF Started
<1>6. Ended'
  <2> SUFFICES ASSUME ~ pipeFailed PROVE Ended'
    BY <1>1 DEF Ended
  <2>1. \A q \in Sieve : Over(q)' => q # p /\ Over(q)
    BY <1>1, <1>2 DEF Over
  <2>2. \A q \in Sieve \ {Main} :
          at[Parent(q)] \in {"wait", "exit", "end"} => at'[Parent(q)] \in {"wait", "exit", "end"}
    BY <1>1, <1>2
  <2>3. \A q \in Sieve : at'[q] = "end" => at[q] = "end"
    BY <1>2
  <2> QED
    BY <1>1, <2>1, <2>2, <2>3 DEF Ended
<1> QED
  BY <1>3, <1>4, <1>5, <1>6

LEMMA CloseAllStep ==
  ASSUME TypeOK, ChainOK, CanWrite, Started, Ended, NEW p \in Sieve, CloseAll(p)
  PROVE  ChainOK' /\ CanWrite' /\ Started' /\ Ended'
<1> USE SieveFacts, Numbers
<1>1. /\ state[p] = "run" /\ at[p] = "filter" /\ state' = state /\ Goto(p, "wait")
      /\ UNCHANGED <<buf, base, held, forkFailed, pipeFailed>>
  BY DEF CloseAll, Running, Sets, sieve, failed
<1>2. /\ \A q \in Sieve : at'[q] = IF q = p THEN "wait" ELSE at[q]
      /\ \A q \in Sieve : q # p => fd'[q] = fd[q]
  BY DEF CloseAll, Sets, Goto, TypeOK
<1>3. ChainOK'
  BY <1>1, GoesOnInChain
<1>4. CanWrite'
  BY <1>1, <1>2 DEF CanWrite
<1>5. Started'
  BY <1>1, <1>2 DEF Started
<1>6. Ended'
  <2> SUFFICES ASSUME ~ pipeFailed PROVE Ended'
    BY <1>1 DEF Ended
  <2>1. \A q \in Sieve : q # p /\ Over(q)' => Over(q)
    BY <1>1, <1>2 DEF Over
  <2>2. \A q \in Sieve \ {Main} :
          at[Parent(q)] \in {"wait", "exit", "end"} => at'[Parent(q)] \in {"wait", "exit", "end"}
    BY <1>1, <1>2
  <2>3. \A q \in Sieve : at'[q] = "end" => at[q] = "end"
    BY <1>2
  <2>4. CASE p = Main
    <3>1. held[Main] = N + 1
      <4>1. held[Main] > N /\ held[Main] \in {0} \cup 2 .. N + 1
        BY <2>4 DEF CloseAll, TypeOK
      <4> QED
        BY <4>1, PastTheLast
    <3>2. \A q \in Sieve \ {Main} : q # p
      BY <2>4
    <3> QED
      BY <1>1, <2>1, <2>2, <2>3, <2>4, <3>1, <3>2 DEF Ended
  <2>5. CASE p # Main
    <3>1. held[p] = 0 /\ AtEnd(Parent(p))
      BY <2>5 DEF CloseAll
    <3>2. at[Parent(p)] = "wait" /\ buf[Parent(p)] = <<>>
      BY <1>1, <2>5, <3>1, EndOfInput
    <3>3. ASSUME NEW q \in Sieve \ {Main}, Over(q)'
          PROVE  held[q] = 0 /\ buf[Parent(q)] = <<>> /\ at'[Parent(q)] \in {"wait", "exit", "end"}
      <4>1. CASE q = p
        BY <2>2, <3>1, <3>2, <4>1
      <4>2. CASE q # p
        BY <2>1, <2>2, <3>3, <4>2 DEF Ended
      <4> QED
        BY <4>1, <4>2
    <3>4. Over(Main)' => held[Main] = N + 1
      BY <2>1, <2>5 DEF Ended
    <3> QED
      BY <1>1, <2>3, <3>3, <3>4 DEF Ended
  <2> QED
    BY <2>4, <2>5
<1> QED
  BY <1>3, <1>4, <1>5, <1>6

LEMMA WaitChildStep ==
  ASSUME TypeOK, ChainOK, CanWrite, Started, Ended, NEW p \in Sieve, WaitChild(p)
  PROVE  ChainOK' /\ CanWrite' /\ Started' /\ Ended'
<1> USE SieveFacts
<1>1. /\ state[p] = "run" /\ at[p] = "wait" /\ p[1] < Chain /\ state[Child(p)] = "zombie"
      /\ UNCHANGED <<fd, buf, base, held, forkFailed, pipeFailed>>
  BY DEF WaitChild, Running, Reaps, sieve, failed, ChainOK
<1> DEFINE c == Child(p)
<1>2. c \in Sieve /\ c # p
  BY <1>1
<1>3. \A q \in Sieve : /\ at'[q] = IF q = p THEN "exit" ELSE at[q]
                       /\ state'[q] = IF q = c THEN "gone" ELSE state[q]
  BY DEF WaitChild, Reaps, Goto, TypeOK
<1>4. state[c] = "zombie"
  BY <1>1
<1> HIDE DEF c
<1>5. ChainOK'
  BY WaitsInChain
<1>6. CanWrite'
  BY <1>1, <1>3 DEF CanWrite
<1>7. Started'
  <2>1. \A q \in Sieve : /\ state'[q] = "none" => state[q] = "none"
                         /\ state'[q] = "run" => state[q] = "run"
                         /\ q # p => at'[q] = at[q]
    BY <1>3
  <2>2. at'[p] = "exit"
    BY <1>3
  <2>3. \A q \in Sieve \ {Main} :
          /\ state'[q] = "none" \/ at'[q] \in {"child", "base"} => base[q] = 0
          /\ state'[q] = "run" /\ at'[q] \notin {"child", "base"} => base[q] # 0
    BY <1>1, <2>1, <2>2 DEF Started
  <2> QED
    BY <1>1, <2>1, <2>2, <2>3 DEF Started
<1>8. Ended'
  <2> SUFFICES ASSUME ~ pipeFailed PROVE Ended'
    BY <1>1 DEF Ended
  <2>1. \A q \in Sieve : Over(q)' => Over(q)
    BY <1>1, <1>3 DEF Over
  <2>2. \A q \in Sieve \ {Main} :
          at[Parent(q)] \in {"wait", "exit", "end"} => at'[Parent(q)] \in {"wait", "exit", "end"}
    BY <1>1, <1>3
  <2>3. \A q \in Sieve : at'[q] = "end" => at[q] = "end"
    BY <1>3
  <2>4. \A q \in Sieve : q[1] < Chain /\ state[Child(q)] = "gone" => state'[Child(q)] = "gone"
    BY <1>3
  <2>5. Over(Main)' => held'[Main] = N + 1
    BY <1>1, <2>1 DEF Ended
  <2>6. \A q \in Sieve \ {Main} :
          Over(q)' => held'[q] = 0 /\ buf'[Parent(q)] = <<>> /\ at'[Parent(q)] \in {"wait", "exit", "end"}
    BY <1>1, <2>1, <2>2 DEF Ended
  <2>7. \A q \in Sieve :
          at'[q] = "end" /\ ~ forkFailed' /\ (q = Main \/ base'[q] # 0) =>
            q[1] < Chain /\ state'[Child(q)] = "gone"
    BY <1>1, <2>3, <2>4 DEF Ended
  <2> QED
    BY <2>5, <2>6, <2>7 DEF Ended
<1> QED
  BY <1>5, <1>6, <1>7, <1>8

\* A number is read from the pipe of the parent: what is left in it.
LEMMA OneTaken ==
  ASSUME TypeOK, NEW p \in Sieve \ {Main}, Readable(Parent(p))
  PROVE  LET o == Parent(p) IN
         /\ Head(buf[o]) \in 2 .. N /\ Tail(buf[o]) \in Seq(2 .. N)
         /\ Elems(buf[o]) = Elems(Tail(buf[o])) \cup {Head(buf[o])}
         /\ Head(buf[o]) \in Fly(o)
         /\ Increasing(buf[o]) =>
              Increasing(Tail(buf[o])) /\ \A n \in Elems(Tail(buf[o])) : Head(buf[o]) < n
<1> DEFINE o == Parent(p)
<1>1. buf[o] \in Seq(2 .. N) /\ buf[o] # <<>>
  BY SieveFacts DEF TypeOK, Readable
<1> HIDE DEF o
<1>2. /\ Head(buf[o]) \in 2 .. N /\ Tail(buf[o]) \in Seq(2 .. N)
      /\ Elems(buf[o]) = Elems(Tail(buf[o])) \cup {Head(buf[o])}
  BY <1>1, Taken
<1>3. Head(buf[o]) \in Fly(o)
  BY <1>2 DEF Fly
<1>4. buf[o] \in Seq(Nat)
  BY <1>1, Numbers
<1>5. Increasing(buf[o]) =>
        Increasing(Tail(buf[o])) /\ \A n \in Elems(Tail(buf[o])) : Head(buf[o]) < n
  BY <1>1, <1>4, TakenIncreasing
<1> QED
  BY <1>2, <1>3, <1>5 DEF o

\* Only numbers move.
LEMMA OnlyNumbersMove ==
  ASSUME TypeOK, ChainOK, CanWrite, Started, Ended,
         UNCHANGED <<state, fd, at, base, forkFailed, pipeFailed>>,
         NEW p \in Sieve, state[p] = "run", at[p] = "filter",
         \A q \in Sieve \ {p} : held'[q] = held[q],
         \A q \in Sieve \ {p} : buf[q] = <<>> => buf'[q] = <<>>
  PROVE  ChainOK' /\ CanWrite' /\ Started' /\ Ended'
<1> USE SieveFacts
<1>1. ChainOK'
  BY DEF ChainOK
<1>2. CanWrite'
  BY DEF CanWrite
<1>3. Started'
  <2>1. p # Main => base[p] # 0
    BY DEF Started
  <2>2. ASSUME NEW q \in Sieve, q # p, buf[q] = <<>>, held[q] = 0
        PROVE  buf'[q] = <<>> /\ held'[q] = 0
    BY <2>2
  <2> QED
    BY <2>1, <2>2 DEF Started
<1>4. Ended'
  <2> SUFFICES ASSUME ~ pipeFailed PROVE Ended'
    BY DEF Ended
  <2>1. \A q \in Sieve : Over(q)' => q # p /\ Over(q)
    BY DEF Over
  <2>2. \A q \in Sieve \ {Main} : Over(q)' => Parent(q) \in Sieve \ {p}
    BY <2>1 DEF Ended
  <2> QED
    BY <2>1, <2>2 DEF Ended
<1> QED
  BY <1>1, <1>2, <1>3, <1>4

LEMMA FiltroReadStep ==
  ASSUME Flow, NEW p \in Sieve, FiltroRead(p)
  PROVE  Flow'
<1> SUFFICES ASSUME TypeOK, ChainOK, CanWrite, Started, Ended, Numeric
    PROVE  Flow'
  BY DEF Flow, Numeric
<1> USE SieveFacts
<1> DEFINE o == Parent(p)
           x == Head(buf[o])
<1>1. /\ state[p] = "run" /\ at[p] = "filter" /\ p # Main /\ held[p] = 0 /\ Readable(o)
      /\ buf' = [buf EXCEPT ![o] = Tail(buf[o])]
      /\ held' = [held EXCEPT ![p] = IF Passes(p, x) THEN x ELSE 0]
      /\ UNCHANGED <<state, fd, at, base, primes, forkFailed, pipeFailed>>
  BY DEF FiltroRead, Running, failed
<1>2. o \in Sieve /\ o[1] < p[1] /\ o[1] = p[1] - 1 /\ o # p
  BY <1>1
<1>3. /\ x \in 2 .. N /\ Tail(buf[o]) \in Seq(2 .. N)
      /\ Elems(buf[o]) = Elems(Tail(buf[o])) \cup {x}
      /\ x \in Fly(o)
      /\ Increasing(buf[o]) =>
           Increasing(Tail(buf[o])) /\ \A n \in Elems(Tail(buf[o])) : x < n
  BY <1>1, OneTaken
<1> HIDE DEF o, x
<1>4. TypeOK'
  <2>1. buf' \in [PipeId -> Seq(2 .. N)]
    BY <1>1, <1>3 DEF TypeOK
  <2>2. held' \in [Sieve -> {0} \cup 2 .. N + 1]
    <3>1. x \in 2 .. N + 1
      BY <1>3, Numbers
    <3> QED
      BY <1>1, <3>1 DEF TypeOK
  <2> QED
    BY <1>1, <2>1, <2>2 DEF TypeOK
<1>5. /\ \A q \in Sieve : q # o => buf'[q] = buf[q]
      /\ \A q \in Sieve : q # p => held'[q] = held[q]
      /\ buf'[o] = Tail(buf[o]) /\ held'[p] = IF Passes(p, x) THEN x ELSE 0
  BY <1>1, <1>2 DEF TypeOK
<1>6. \A q \in Sieve : buf[q] = <<>> => q # o
  BY <1>1 DEF Readable
<1>7. ChainOK' /\ CanWrite' /\ Started' /\ Ended'
  BY <1>1, <1>5, <1>6, OnlyNumbersMove
<1>8. /\ \A q \in Sieve : q # o /\ q # p => Fly(q)' = Fly(q)
      /\ Fly(o)' \subseteq Fly(o) /\ Fly(o) \subseteq Fly(o)' \cup {x}
      /\ Fly(p)' = IF Passes(p, x) THEN Fly(p) \cup {x} ELSE Fly(p)
  <2>1. \A q \in Sieve : q # o /\ q # p => Fly(q)' = Fly(q)
    BY <1>5 DEF Fly
  <2>2. Fly(o)' \subseteq Fly(o) /\ Fly(o) \subseteq Fly(o)' \cup {x}
    BY <1>2, <1>3, <1>5 DEF Fly
  <2>3. x # 0
    BY <1>3
  <2>4. Fly(p)' = IF Passes(p, x) THEN Fly(p) \cup {x} ELSE Fly(p)
    BY <1>1, <1>2, <1>5, <2>3 DEF Fly
  <2> QED
    BY <2>1, <2>2, <2>4
<1>9. base[p] # 0
  BY <1>1 DEF Started
<1>10. Printed' /\ PrimesInOrder'
  BY <1>1 DEF Numeric, Printed, PrimesInOrder
<1>11. InOrder'
  <2>1. ASSUME NEW q \in Sieve
        PROVE  Increasing(buf'[q]) /\ \A n \in Elems(buf'[q]) : held'[q] # 0 => n < held'[q]
    <3>1. CASE q = o
      BY <1>2, <1>3, <1>5, <3>1 DEF Numeric, InOrder
    <3>2. CASE q = p
      <4>1. Increasing(buf[p]) /\ \A n \in Fly(p) : n < x
        BY <1>2, <1>3 DEF Numeric, InOrder
      <4>2. Elems(buf[p]) \subseteq Fly(p)
        BY DEF Fly
      <4> QED
        BY <1>2, <1>5, <3>2, <4>1, <4>2
    <3>3. CASE q # o /\ q # p
      BY <1>5, <3>3 DEF Numeric, InOrder
    <3> QED
      BY <3>1, <3>2, <3>3
  <2>2. \A q \in Sieve : \A n \in Fly(q)' : n \in Fly(q) \/ (q = p /\ n = x /\ Passes(p, x))
    BY <1>8
  <2>3. ASSUME NEW q \in Sieve, NEW r \in Sieve, q[1] < r[1],
               NEW m \in Fly(q)', NEW n \in Fly(r)'
        PROVE  n < m
    <3>1. CASE m \in Fly(q) /\ n \in Fly(r)
      BY <2>3, <3>1 DEF Numeric, InOrder
    <3>2. CASE q = p /\ m = x
      <4>1. o[1] < r[1] /\ r # p
        BY <1>2, <2>3, <3>2
      <4>2. n \in Fly(r)
        BY <2>2, <4>1
      <4> QED
        BY <1>2, <1>3, <3>2, <4>1, <4>2 DEF Numeric, InOrder
    <3>3. CASE r = p /\ n = x /\ m \in Fly(q)
      <4>1. CASE q = o
        <5>1. m \in Fly(o)' /\ m \in Elems(Tail(buf[o])) \cup ({held[o]} \ {0})
          BY <1>2, <1>5, <4>1 DEF Fly
        <5>2. m \in Elems(Tail(buf[o])) => x < m
          BY <1>2, <1>3 DEF Numeric, InOrder
        <5>3. x \in Elems(buf[o]) /\ (held[o] # 0 => x < held[o])
          BY <1>2, <1>3 DEF Numeric, InOrder
        <5> QED
          BY <3>3, <5>1, <5>2, <5>3
      <4>2. CASE q # o
        <5>1. q[1] < o[1]
          <6>1. q[1] \in Int /\ o[1] \in Int /\ p[1] = o[1] + 1 /\ q[1] # o[1]
            BY <1>2, <4>2
          <6> QED
            BY <2>3, <3>3, <6>1, NotBetween
        <5> QED
          BY <1>2, <1>3, <3>3, <5>1 DEF Numeric, InOrder
      <4> QED
        BY <4>1, <4>2
    <3> QED
      BY <2>2, <3>1, <3>2, <3>3
  <2>4. ASSUME NEW q \in Sieve, NEW r \in Sieve, NEW n \in Fly(q)'
        PROVE  base[r] < n
    <3>1. n \in Fly(q) \/ n \in Fly(o)
      BY <1>3, <2>2
    <3> QED
      BY <1>2, <3>1 DEF Numeric, InOrder
  <2>5. \A q, r \in Sieve : q[1] < r[1] => \A m \in Fly(q)', n \in Fly(r)' : n < m
    BY <2>3
  <2>6. \A q, r \in Sieve : \A n \in Fly(q)' : base'[r] < n
    BY <1>1, <2>4
  <2>7. held'[Main] # 0
    BY <1>1, <1>2, <1>3, <1>5 DEF Numeric, InOrder
  <2> QED
    BY <2>1, <2>5, <2>6, <2>7 DEF InOrder
<1>12. Filtered'
  <2>1. ASSUME NEW q \in Sieve, NEW r \in Sieve, base[r] # 0, r[1] <= q[1], NEW n \in Fly(q)'
        PROVE  n % base[r] # 0
    <3>1. CASE n \in Fly(q)
      BY <2>1, <3>1 DEF Numeric, Filtered
    <3>2. CASE q = p /\ n = x /\ Passes(p, x)
      <4>1. CASE r = p
        BY <3>2, <4>1 DEF Passes
      <4>2. CASE r # p
        <5>1. r[1] <= o[1]
          <6>1. r[1] \in Int /\ o[1] \in Int /\ p[1] = o[1] + 1 /\ r[1] # p[1]
            BY <1>2, <4>2
          <6> QED
            BY <2>1, <3>2, <6>1, NotBetween
        <5> QED
          BY <1>2, <1>3, <2>1, <3>2, <5>1 DEF Numeric, Filtered
      <4> QED
        BY <4>1, <4>2
    <3> QED
      BY <1>8, <3>1, <3>2
  <2> QED
    BY <1>1, <2>1 DEF Filtered
<1>13. Accounted'
  <2>1. ASSUME NEW n \in 2 .. N, n < held'[Main]
        PROVE  \/ \E q \in Sieve : base[q] # 0 /\ n % base[q] = 0
               \/ \E q \in Sieve : n \in Fly(q)'
               \/ pipeFailed
    <3>1. n < held[Main]
      BY <1>1, <1>5, <2>1
    <3>2. CASE \E q \in Sieve : base[q] # 0 /\ n % base[q] = 0
      BY <3>2
    <3>3. CASE n = x
      <4>1. CASE Passes(p, x)
        BY <1>8, <3>3, <4>1
      <4>2. CASE ~ Passes(p, x)
        BY <1>9, <3>3, <4>2 DEF Passes
      <4> QED
        BY <4>1, <4>2
    <3>4. CASE \E q \in Sieve : n \in Fly(q) /\ n # x
      BY <1>8, <3>4
    <3> QED
      BY <3>1, <3>2, <3>3, <3>4 DEF Numeric, Accounted
  <2> QED
    BY <1>1, <2>1 DEF Accounted
<1> QED
  BY <1>4, <1>7, <1>10, <1>11, <1>12, <1>13 DEF Flow

\* There was no pipe to write to: a number is on its way no more.
LEMMA FiltroLosesStep ==
  ASSUME Flow, NEW p \in Sieve, FiltroWrite(p), fd[p]["w"] = None
  PROVE  Flow'
<1> SUFFICES ASSUME TypeOK, ChainOK, CanWrite, Started, Ended, Numeric
    PROVE  Flow'
  BY DEF Flow, Numeric
<1> USE SieveFacts
<1>1. /\ state[p] = "run" /\ at[p] = "filter" /\ held[p] \in 1 .. N /\ buf' = buf
      /\ held' = [held EXCEPT ![p] = IF p = Main THEN held[p] + 1 ELSE 0]
      /\ UNCHANGED <<state, fd, at, base, primes, forkFailed, pipeFailed>>
  BY DEF FiltroWrite, Running, failed
<1>2. p # Main /\ pipeFailed
  <2>1. End(p, "w") # None
    BY PrimesAssumption
  <2> QED
    BY <1>1, <2>1 DEF CanWrite
<1>3. \A q \in Sieve : held'[q] = IF q = p THEN 0 ELSE held[q]
  BY <1>1, <1>2 DEF TypeOK
<1>4. TypeOK'
  <2>1. held' \in [Sieve -> {0} \cup 2 .. N + 1]
    BY <1>1, <1>2 DEF TypeOK
  <2> QED
    BY <1>1, <2>1 DEF TypeOK
<1>5. ChainOK' /\ CanWrite' /\ Started' /\ Ended'
  BY <1>1, <1>3, OnlyNumbersMove
<1>6. \A q \in Sieve : Fly(q)' \subseteq Fly(q)
  BY <1>1, <1>3 DEF Fly
<1>7. held'[Main] = held[Main]
  BY <1>2, <1>3
<1>8. Printed' /\ PrimesInOrder'
  BY <1>1 DEF Numeric, Printed, PrimesInOrder
<1>9. InOrder'
  <2>1. \A q \in Sieve : /\ Increasing(buf'[q])
                         /\ \A n \in Elems(buf'[q]) : held'[q] # 0 => n < held'[q]
    BY <1>1, <1>3 DEF Numeric, InOrder
  <2>2. \A q, r \in Sieve : q[1] < r[1] => \A m \in Fly(q)', n \in Fly(r)' : n < m
    BY <1>6 DEF Numeric, InOrder
  <2>3. \A q, r \in Sieve : \A n \in Fly(q)' : base'[r] < n
    BY <1>1, <1>6 DEF Numeric, InOrder
  <2>4. held'[Main] = 0 => \A q \in Sieve : Fly(q)' = {}
    <3>1. \A q \in Sieve : Fly(q) = {} => Fly(q)' = {}
      BY <1>6
    <3> QED
      BY <1>7, <3>1 DEF Numeric, InOrder
  <2> QED
    BY <2>1, <2>2, <2>3, <2>4 DEF InOrder
<1>10. Filtered'
  BY <1>1, <1>6 DEF Numeric, Filtered
<1>11. Accounted'
  BY <1>1, <1>2 DEF Accounted
<1> QED
  BY <1>4, <1>5, <1>8, <1>9, <1>10, <1>11 DEF Flow

LEMMA FiltroWriteStep ==
  ASSUME Flow, NEW p \in Sieve, FiltroWrite(p), fd[p]["w"] # None
  PROVE  Flow'
<1> SUFFICES ASSUME TypeOK, ChainOK, CanWrite, Started, Ended, Numeric
    PROVE  Flow'
  BY DEF Flow, Numeric
<1> USE SieveFacts
<1> DEFINE h == held[p]
<1>1. /\ state[p] = "run" /\ at[p] = "filter" /\ h \in 2 .. N
      /\ buf' = [buf EXCEPT ![p] = Append(buf[p], h)]
      /\ held' = [held EXCEPT ![p] = IF p = Main THEN h + 1 ELSE 0]
      /\ UNCHANGED <<state, fd, at, base, primes, forkFailed, pipeFailed>>
  <2>1. h \in 1 .. N /\ h \in {0} \cup 2 .. N + 1
    BY DEF FiltroWrite, TypeOK
  <2>2. h \in 2 .. N
    BY <2>1, Numbers
  <2> QED
    BY <2>2 DEF FiltroWrite, Running, failed
<1> HIDE DEF h
<1>2. buf[p] \in Seq(2 .. N)
  BY DEF TypeOK
<1>3. Increasing(buf[p]) /\ \A n \in Elems(buf[p]) : n < h
  BY <1>1 DEF Numeric, InOrder, h
<1>4. /\ Append(buf[p], h) \in Seq(2 .. N)
      /\ Elems(Append(buf[p], h)) = Elems(buf[p]) \cup {h}
      /\ Increasing(Append(buf[p], h))
  <2>1. buf[p] \in Seq(Nat) /\ h \in Nat
    BY <1>1, <1>2, Numbers
  <2>2. Increasing(Append(buf[p], h))
    BY <1>3, <2>1, AppendedIncreasing
  <2>3. /\ Append(buf[p], h) \in Seq(2 .. N)
        /\ Elems(Append(buf[p], h)) = Elems(buf[p]) \cup {h}
    <3> DEFINE S == 2 .. N
    <3>1. buf[p] \in Seq(S) /\ h \in S
      BY <1>1, <1>2
    <3> HIDE DEF S
    <3>2. Append(buf[p], h) \in Seq(S) /\ Elems(Append(buf[p], h)) = Elems(buf[p]) \cup {h}
      BY <3>1, Appended
    <3> QED
      BY <3>2 DEF S
  <2> QED
    BY <2>2, <2>3
<1>5. h \in Fly(p) /\ h + 1 \in 2 .. N + 1 /\ h < h + 1 /\ h # 0 /\ h + 1 # 0
  <2>1. h \in Fly(p)
    BY <1>1 DEF Fly, h
  <2> QED
    BY <1>1, <2>1, Numbers
<1>6. TypeOK'
  <2>1. buf' \in [PipeId -> Seq(2 .. N)]
    BY <1>1, <1>4 DEF TypeOK
  <2>2. held' \in [Sieve -> {0} \cup 2 .. N + 1]
    BY <1>1, <1>5 DEF TypeOK
  <2> QED
    BY <1>1, <2>1, <2>2 DEF TypeOK
<1>7. /\ \A q \in Sieve : q # p => buf'[q] = buf[q] /\ held'[q] = held[q]
      /\ buf'[p] = Append(buf[p], h) /\ held'[p] = IF p = Main THEN h + 1 ELSE 0
  BY <1>1 DEF TypeOK
<1>8. ChainOK' /\ CanWrite' /\ Started' /\ Ended'
  BY <1>1, <1>7, OnlyNumbersMove
<1>9. \A q \in Sieve : q # p => Fly(q)' = Fly(q)
  BY <1>7 DEF Fly
<1>10. Fly(p)' = IF p = Main THEN Fly(p) \cup {h + 1} ELSE Fly(p)
  <2>1. Fly(p)' = Elems(buf[p]) \cup {h} \cup ({held'[p]} \ {0})
    BY <1>4, <1>7 DEF Fly
  <2>2. Fly(p) = Elems(buf[p]) \cup {h}
    BY <1>5 DEF Fly, h
  <2> QED
    BY <1>5, <1>7, <2>1, <2>2
<1>11. ASSUME NEW q \in Sieve
       PROVE  Increasing(buf'[q]) /\ \A n \in Elems(buf'[q]) : held'[q] # 0 => n < held'[q]
  <2>1. CASE q # p
    BY <1>7, <2>1 DEF Numeric, InOrder
  <2>2. CASE q = p /\ p # Main
    BY <1>4, <1>7, <2>2
  <2>3. CASE q = p /\ p = Main
    <3>1. \A n \in Elems(buf[p]) \cup {h} : n < h + 1
      <4>1. Elems(buf[p]) \subseteq 2 .. N
        BY <1>2, ElemsType
      <4> QED
        BY <1>1, <1>3, <4>1, Numbers
    <3> QED
      BY <1>4, <1>7, <2>3, <3>1
  <2> QED
    BY <2>1, <2>2, <2>3
<1>12. Numeric'
  <2>1. CASE p # Main
    <3>1. \A q \in Sieve : Fly(q)' = Fly(q)
      BY <1>9, <1>10, <2>1
    <3>2. held'[Main] = held[Main]
      BY <1>7, <2>1
    <3> QED
      BY <1>1, <1>11, <3>1, <3>2, NumbersMoved
  <2>2. CASE p = Main
    <3>1. \A q \in Sieve : \A n \in Fly(q)' : n \in Fly(q) \/ (q = Main /\ n = h + 1)
      BY <1>9, <1>10, <2>2
    <3>2. \A q \in Sieve : Fly(q) \subseteq Fly(q)'
      BY <1>9, <1>10
    <3>3. Printed' /\ PrimesInOrder'
      BY <1>1 DEF Numeric, Printed, PrimesInOrder
    <3>4. InOrder'
      <4>1. ASSUME NEW q \in Sieve, NEW r \in Sieve, q[1] < r[1],
                   NEW m \in Fly(q)', NEW n \in Fly(r)'
            PROVE  n < m
        <5>1. r # Main /\ n \in Fly(r)
          BY <3>1, <4>1
        <5>2. CASE m \in Fly(q)
          BY <4>1, <5>1, <5>2 DEF Numeric, InOrder
        <5>3. CASE q = Main /\ m = h + 1
          <6>1. n < h
            BY <1>5, <2>2, <4>1, <5>1, <5>3 DEF Numeric, InOrder
          <6>2. n \in Int /\ h \in Int
            BY <1>1, <5>1, FlyType, Numbers
          <6> QED
            BY <5>3, <6>1, <6>2
        <5> QED
          BY <3>1, <5>2, <5>3
      <4>2. ASSUME NEW q \in Sieve, NEW r \in Sieve, NEW n \in Fly(q)'
            PROVE  base[r] < n
        <5>1. CASE n \in Fly(q)
          BY <5>1 DEF Numeric, InOrder
        <5>2. CASE n = h + 1
          <6>1. base[r] < h
            BY <1>5 DEF Numeric, InOrder
          <6>2. base[r] \in Int /\ h \in Int
            BY <1>1, FlyType, Numbers
          <6> QED
            BY <5>2, <6>1, <6>2
        <5> QED
          BY <3>1, <5>1, <5>2
      <4>3. \A q, r \in Sieve : q[1] < r[1] => \A m \in Fly(q)', n \in Fly(r)' : n < m
        BY <4>1
      <4>4. \A q, r \in Sieve : \A n \in Fly(q)' : base'[r] < n
        BY <1>1, <4>2
      <4> QED
        BY <1>5, <1>7, <1>11, <2>2, <4>3, <4>4 DEF InOrder
    <3>5. Filtered'
      <4>1. ASSUME NEW q \in Sieve, NEW r \in Sieve, base[r] # 0, r[1] <= q[1], NEW n \in Fly(q)'
            PROVE  n % base[r] # 0
        <5>1. CASE n \in Fly(q)
          BY <4>1, <5>1 DEF Numeric, Filtered
        <5>2. q # Main
          <6>1. r # Main
            BY <4>1 DEF Started
          <6>2. r[1] \in Int /\ q[1] \in Int /\ r[1] # 0 /\ r[1] >= 0
            BY <6>1, Numbers
          <6>3. q[1] # 0
            BY <4>1, <6>2
          <6> QED
            BY <6>3
        <5> QED
          BY <3>1, <5>1, <5>2
      <4> QED
        BY <1>1, <4>1 DEF Filtered
    <3>6. Accounted'
      <4>1. ASSUME NEW n \in 2 .. N, n < held'[Main]
            PROVE  \/ \E q \in Sieve : base[q] # 0 /\ n % base[q] = 0
                   \/ \E q \in Sieve : n \in Fly(q)'
                   \/ pipeFailed
               \/ pipeFailed
        <5>1. n < h \/ n = h
          <6>1. n < h + 1 /\ n \in Int /\ h \in Int
            BY <1>1, <1>7, <2>2, <4>1, Numbers
          <6> QED
            BY <6>1, NotBetween
        <5>2. CASE n = h
          BY <1>5, <3>2, <5>2
        <5>3. CASE n < h
          BY <2>2, <3>2, <5>3 DEF Numeric, Accounted, h
        <5> QED
          BY <5>1, <5>2, <5>3
      <4> QED
        BY <1>1, <4>1 DEF Accounted
    <3> QED
      BY <3>3, <3>4, <3>5, <3>6 DEF Numeric
  <2> QED
    BY <2>1, <2>2
<1> QED
  BY <1>6, <1>8, <1>12 DEF Flow, Numeric

\* When p reads its numero_base, those after it have done nothing, and those
\* before it have read theirs.
LEMMA FrontOfChain ==
  ASSUME TypeOK, ChainOK, Started, Printed, NEW p \in Sieve, Running(p, "base")
  PROVE  /\ p # Main /\ Len(primes) = p[1] - 1
         /\ \A q \in Sieve : base[q] # 0 => q[1] < p[1]
         /\ \A q \in Sieve : q[1] >= p[1] => q # Main /\ Fly(q) = {}
<1> USE SieveFacts, Numbers
<1>1. state[p] = "run" /\ at[p] = "base" /\ p # Main
  BY DEF Running, ChainOK
<1>2. p[1] \in Nat /\ p[1] >= 1 /\ Len(primes) \in Nat
  BY <1>1 DEF TypeOK
<1>3. ASSUME NEW q \in Sieve, q[1] >= p[1]
      PROVE  q # Main /\ base[q] = 0
  <2>1. q # Main
    BY <1>2, <1>3
  <2>2. CASE q = p
    BY <1>1, <2>1, <2>2 DEF Started
  <2>3. CASE q # p
    <3>1. q[1] > p[1]
      BY <1>2, <1>3, <2>3
    <3>2. state[q] = "none"
      BY <1>1, <3>1 DEF ChainOK
    <3> QED
      BY <2>1, <3>2 DEF Started
  <2> QED
    BY <2>1, <2>2, <2>3
<1>4. ASSUME NEW q \in Sieve, base[q] # 0
      PROVE  q[1] < p[1]
  BY <1>2, <1>3, <1>4
<1>5. ASSUME NEW q \in Sieve, q[1] >= p[1]
      PROVE  q # Main /\ Fly(q) = {}
  <2>1. q # Main /\ buf[q] = <<>> /\ held[q] = 0
    BY <1>3, <1>5 DEF Started
  <2>2. Elems(<<>>) = {}
    BY DEF Elems
  <2> QED
    BY <2>1, <2>2 DEF Fly
<1>6. ~ (p[1] <= Len(primes))
  <2> SUFFICES ASSUME p[1] <= Len(primes) PROVE FALSE
    OBVIOUS
  <2>1. p[1] \in 1 .. Len(primes) /\ base[p] = primes[p[1]]
    BY <1>1, <1>2 DEF Printed
  <2>2. primes[p[1]] \in 2 .. N
    BY <2>1 DEF TypeOK
  <2>3. base[p] = 0
    BY <1>2, <1>3
  <2> QED
    BY <2>1, <2>2, <2>3
<1>7. p[1] = 1 \/ p[1] - 1 <= Len(primes)
  <2> SUFFICES ASSUME Parent(p) # Main PROVE p[1] - 1 <= Len(primes)
    <3>1. Parent(p)[1] = p[1] - 1 /\ p[1] \in Int
      BY <1>1
    <3> QED
      BY <3>1
  <2>1. Parent(p) \in Sieve \ {Main} /\ Parent(p)[1] = p[1] - 1
    BY <1>1
  <2>2. state[Parent(p)] = "run" /\ at[Parent(p)] \in {"filter", "wait"}
    BY <1>1, <1>2, <2>1, Before
  <2>3. base[Parent(p)] # 0
    BY <2>1, <2>2 DEF Started
  <2> QED
    BY <2>1, <2>3 DEF Printed
<1>8. Len(primes) = p[1] - 1
  BY <1>2, <1>6, <1>7
<1> QED
  BY <1>1, <1>4, <1>5, <1>8

\* The number p is about to read is the least on its way.
LEMMA LeastOnItsWay ==
  ASSUME TypeOK, ChainOK, Started, Numeric, NEW p \in Sieve, Running(p, "base"),
         Readable(Parent(p))
  PROVE  \A q \in Sieve : \A n \in Fly(q) : n = Head(buf[Parent(p)]) \/ Head(buf[Parent(p)]) < n
<1> USE SieveFacts
<1> DEFINE o == Parent(p)
           x == Head(buf[o])
<1>1. p # Main /\ \A q \in Sieve : q[1] >= p[1] => Fly(q) = {}
  BY FrontOfChain DEF Numeric
<1>2. o \in Sieve /\ p[1] = o[1] + 1
  BY <1>1
<1>3. /\ Elems(buf[o]) = Elems(Tail(buf[o])) \cup {x}
      /\ x \in Fly(o)
      /\ Increasing(buf[o]) => \A n \in Elems(Tail(buf[o])) : x < n
  BY <1>1, OneTaken
<1> HIDE DEF o, x
<1> SUFFICES ASSUME NEW q \in Sieve, NEW n \in Fly(q)
    PROVE  n = x \/ x < n
  BY DEF o, x
<1>4. ~ (q[1] >= p[1])
  BY <1>1
<1>5. CASE q = o
  <2>1. CASE n \in Elems(buf[o])
    BY <1>2, <1>3, <2>1 DEF Numeric, InOrder
  <2>2. CASE n = held[o] /\ n # 0
    <3>1. x \in Elems(buf[o])
      BY <1>3
    <3> QED
      BY <1>2, <2>2, <3>1 DEF Numeric, InOrder
  <2> QED
    BY <1>5, <2>1, <2>2 DEF Fly
<1>6. CASE q # o
  <2>1. q[1] < o[1]
    <3>1. q[1] \in Int /\ o[1] \in Int /\ q[1] # o[1] /\ q[1] < o[1] + 1
      BY <1>2, <1>4, <1>6
    <3> QED
      BY <3>1, NotBetween
  <2> QED
    BY <1>2, <1>3, <2>1 DEF Numeric, InOrder
<1> QED
  BY <1>5, <1>6

\* Every smaller number is a multiple of one that was printed.
LEMMA SmallerAreMultiples ==
  ASSUME TypeOK, ChainOK, Started, Numeric, ~ pipeFailed, NEW p \in Sieve, Running(p, "base"),
         Readable(Parent(p)), NEW n \in 2 .. N, n < Head(buf[Parent(p)])
  PROVE  \E q \in Sieve : base[q] # 0 /\ n % base[q] = 0
<1> USE SieveFacts, Numbers
<1> DEFINE o == Parent(p)
           x == Head(buf[o])
<1>1. p # Main /\ o \in Sieve
  BY FrontOfChain DEF Numeric
<1>2. x \in 2 .. N /\ x \in Fly(o)
  BY <1>1, OneTaken
<1> HIDE DEF o, x
<1>3. n < x
  BY DEF o, x
<1>4. n < held[Main]
  <2>1. held[Main] # 0
    BY <1>1, <1>2 DEF Numeric, InOrder
  <2>2. held[Main] \in Fly(Main)
    BY <2>1 DEF Fly
  <2>3. held[Main] = x \/ x < held[Main]
    BY <2>2, LeastOnItsWay DEF o, x
  <2>4. held[Main] \in Int
    BY FlyType
  <2> QED
    BY <1>2, <1>3, <2>3, <2>4
<1>5. \A q \in Sieve : n \notin Fly(q)
  <2> SUFFICES ASSUME NEW q \in Sieve, n \in Fly(q) PROVE FALSE
    OBVIOUS
  <2>1. n = x \/ x < n
    BY LeastOnItsWay DEF o, x
  <2> QED
    BY <1>2, <1>3, <2>1
<1> QED
  BY <1>4, <1>5 DEF Numeric, Accounted

\* So the number is a prime, and no prime was left out.
LEMMA NextPrime ==
  ASSUME TypeOK, ChainOK, Started, Numeric, ~ pipeFailed, NEW p \in Sieve, Running(p, "base"),
         Readable(Parent(p))
  PROVE  /\ IsPrime(Head(buf[Parent(p)]))
         /\ \A i \in 1 .. Len(primes) : primes[i] < Head(buf[Parent(p)])
         /\ \A n \in 2 .. N : IsPrime(n) /\ n < Head(buf[Parent(p)]) =>
              \E j \in 1 .. Len(primes) : primes[j] = n
<1> USE SieveFacts, Numbers
<1> DEFINE o == Parent(p)
           x == Head(buf[o])
<1>1. p # Main /\ o \in Sieve /\ p[1] = o[1] + 1 /\ \A q \in Sieve : base[q] # 0 => q[1] < p[1]
  BY FrontOfChain DEF Numeric
<1>2. x \in 2 .. N /\ x \in Fly(o)
  BY <1>1, OneTaken
<1>3. \A n \in 2 .. N : n < x => \E q \in Sieve : base[q] # 0 /\ n % base[q] = 0
  BY SmallerAreMultiples
<1> HIDE DEF o, x
<1>4. \A q \in Sieve : base[q] # 0 => base[q] \in 2 .. N
  BY FlyType
<1>5. IsPrime(x)
  <2>1. ASSUME NEW d \in 2 .. x - 1, x % d = 0
        PROVE  FALSE
    <3>1. d \in 2 .. N /\ d < x /\ d \in Nat \ {0} /\ x \in Nat
      BY <1>2
    <3>2. PICK q \in Sieve : base[q] # 0 /\ d % base[q] = 0
      BY <1>3, <3>1
    <3>3. base[q] \in Nat \ {0}
      BY <1>4, <3>2
    <3>4. x % base[q] = 0
      BY <2>1, <3>1, <3>2, <3>3, DividesTransitive
    <3>5. q[1] <= o[1]
      <4>1. q[1] \in Int /\ o[1] \in Int /\ q[1] < o[1] + 1
        BY <1>1, <3>2
      <4> QED
        BY <4>1
    <3> QED
      BY <1>1, <1>2, <3>2, <3>4, <3>5 DEF Numeric, Filtered
  <2>2. \A d \in 2 .. x - 1 : x % d # 0
    BY <2>1
  <2>3. x > 1
    BY <1>2
  <2> QED
    BY <2>2, <2>3 DEF IsPrime
<1>6. ASSUME NEW i \in 1 .. Len(primes)
      PROVE  primes[i] < x
  <2>1. i \in 1 .. Chain
    <3>1. Len(primes) \in Nat /\ Len(primes) <= Chain
      BY DEF TypeOK, Numeric, Printed
    <3> QED
      BY <3>1
  <2>2. <<i>> \in Sieve \ {Main} /\ <<i>>[1] = i
    BY <2>1 DEF Sieve, Main
  <2>3. base[<<i>>] = primes[i]
    BY <2>2 DEF Numeric, Printed
  <2> QED
    BY <1>1, <1>2, <2>2, <2>3 DEF Numeric, InOrder
<1>7. ASSUME NEW n \in 2 .. N, IsPrime(n), n < x
      PROVE  \E j \in 1 .. Len(primes) : primes[j] = n
  <2>1. PICK q \in Sieve : base[q] # 0 /\ n % base[q] = 0
    BY <1>3, <1>7
  <2>2. base[q] = n
    BY <1>4, <1>7, <2>1, OnlyItself
  <2>3. q # Main /\ q[1] <= Len(primes) /\ base[q] = primes[q[1]]
    BY <2>1 DEF Started, Numeric, Printed
  <2>4. q[1] \in 1 .. Len(primes)
    <3>1. q[1] # 0 /\ q[1] \in Nat /\ Len(primes) \in Nat
      BY <2>3 DEF TypeOK
    <3> QED
      BY <2>3, <3>1
  <2> QED
    BY <2>2, <2>3, <2>4
<1> QED
  BY <1>5, <1>6, <1>7 DEF o, x

\* Behind a pipe that failed nothing is read.
LEMMA NothingBehindCut ==
  ASSUME IInv, NEW p \in Sieve, Running(p, "base"), Readable(Parent(p))
  PROVE  ~ pipeFailed
<1> SUFFICES ASSUME pipeFailed PROVE FALSE
  OBVIOUS
<1> USE SieveFacts
<1>1. PICK q \in Sieve \ {Main} : q[1] = Len(primes) /\ buf[q] = <<>>
  BY DEF IInv, Cut
<1>2. p # Main /\ Len(primes) = p[1] - 1
  BY FrontOfChain DEF IInv, Flow
<1>3. Parent(p) = q
  BY <1>1, <1>2
<1> QED
  BY <1>1, <1>3 DEF Readable

LEMMA ReadBaseStep ==
  ASSUME IInv, NEW p \in Sieve, ReadBase(p)
  PROVE  IInv'
<1>0. ~ pipeFailed
  BY NothingBehindCut DEF ReadBase
<1> SUFFICES ASSUME TypeOK, ChainOK, CanWrite, Started, Ended, Numeric, Cut
    PROVE  IInv'
  BY DEF IInv, Flow, Numeric
<1> USE SieveFacts, Numbers
<1> DEFINE o == Parent(p)
           x == Head(buf[o])
<1>1. /\ state[p] = "run" /\ at[p] = "base" /\ Running(p, "base") /\ Readable(o)
      /\ base' = [base EXCEPT ![p] = x] /\ primes' = Append(primes, x)
      /\ buf' = [buf EXCEPT ![o] = Tail(buf[o])]
      /\ \/ fd' = [fd EXCEPT ![p] = WithPipe(fd[p], p)] /\ pipeFailed' = pipeFailed
         \/ fd' = fd /\ pipeFailed' = TRUE
      /\ Goto(p, "fork")
      /\ UNCHANGED <<state, held, forkFailed>>
  BY DEF ReadBase, Running
<1>2. /\ p # Main /\ Len(primes) = p[1] - 1
      /\ \A q \in Sieve : base[q] # 0 => q[1] < p[1]
      /\ \A q \in Sieve : q[1] >= p[1] => q # Main /\ Fly(q) = {}
  BY <1>1, FrontOfChain DEF Numeric
<1>3. o \in Sieve /\ o # p /\ p[1] = o[1] + 1
  BY <1>2
<1>4. /\ x \in 2 .. N /\ Tail(buf[o]) \in Seq(2 .. N)
      /\ Elems(buf[o]) = Elems(Tail(buf[o])) \cup {x}
      /\ x \in Fly(o)
      /\ Increasing(buf[o]) =>
           Increasing(Tail(buf[o])) /\ \A n \in Elems(Tail(buf[o])) : x < n
  BY <1>1, <1>2, OneTaken
<1>5. /\ IsPrime(x)
      /\ \A i \in 1 .. Len(primes) : primes[i] < x
      /\ \A n \in 2 .. N : IsPrime(n) /\ n < x => \E j \in 1 .. Len(primes) : primes[j] = n
  BY <1>0, <1>1, NextPrime
<1>6. \A q \in Sieve : \A n \in Fly(q) : n = x \/ x < n
  BY <1>1, LeastOnItsWay DEF Numeric
<1> HIDE DEF o, x
<1>7. /\ primes' \in Seq(2 .. N) /\ Len(primes') = Len(primes) + 1
      /\ primes'[Len(primes) + 1] = x
      /\ \A i \in 1 .. Len(primes) : primes'[i] = primes[i]
      /\ Len(primes) \in Nat
  BY <1>1, <1>4 DEF TypeOK
<1>8. TypeOK'
  <2>1. buf' \in [PipeId -> Seq(2 .. N)]
    BY <1>1, <1>4 DEF TypeOK
  <2>2. base' \in [Sieve -> {0} \cup 2 .. N]
    BY <1>1, <1>4 DEF TypeOK
  <2>3. fd' \in [Proc -> [Slot -> {None} \cup (PipeId \X {"r", "w"})]]
    <3>1. fd[p] \in [Slot -> {None} \cup (PipeId \X {"r", "w"})]
      BY DEF TypeOK
    <3>2. End(p, "r") \in PipeId \X {"r", "w"} /\ End(p, "w") \in PipeId \X {"r", "w"}
      BY DEF End
    <3>3. WithPipe(fd[p], p) \in [Slot -> {None} \cup (PipeId \X {"r", "w"})]
      BY <3>1, <3>2 DEF WithPipe
    <3>4. fd' \in {fd, [fd EXCEPT ![p] = WithPipe(fd[p], p)]}
      BY <1>1
    <3> QED
      BY <3>3, <3>4 DEF TypeOK
  <2>4. at' \in [Proc -> {"fork", "child", "base", "filter", "wait", "exit", "end"}]
    BY <1>1 DEF TypeOK, Goto
  <2> QED
    BY <1>1, <1>7, <2>1, <2>2, <2>3, <2>4 DEF TypeOK
<1>9. /\ \A q \in Sieve : at'[q] = IF q = p THEN "fork" ELSE at[q]
      /\ \A q \in Sieve : q # p => fd'[q] = fd[q] /\ base'[q] = base[q]
      /\ \A q \in Sieve : q # o => buf'[q] = buf[q]
      /\ buf'[o] = Tail(buf[o]) /\ base'[p] = x
  BY <1>1, <1>3 DEF TypeOK, Goto
<1>10. ChainOK'
  BY <1>1, GoesOnInChain
<1>11. CanWrite'
  <2>1. fd'[p]["w"] = End(p, "w") \/ pipeFailed'
    <3>1. CASE fd' = [fd EXCEPT ![p] = WithPipe(fd[p], p)]
      <4>1. fd'[p] = WithPipe(fd[p], p) /\ "w" \in Slot /\ fd[p] \in [Slot -> {None} \cup (PipeId \X {"r", "w"})]
        BY <3>1 DEF TypeOK, Slot
      <4> QED
        BY <4>1 DEF WithPipe
    <3> QED
      BY <1>1, <3>1
  <2>2. \A q \in Sieve : q # p /\ state'[q] = "run" /\ at'[q] \in {"fork", "filter"} =>
          fd'[q]["w"] = End(q, "w") \/ (pipeFailed' /\ q # Main)
    BY <1>0, <1>1, <1>9 DEF CanWrite
  <2> QED
    BY <1>2, <2>1, <2>2 DEF CanWrite
<1>12. \A q \in Sieve : buf[q] = <<>> => q # o /\ buf'[q] = <<>>
  BY <1>1, <1>9 DEF Readable
<1>13. Started'
  <2>1. base[p] = 0 /\ buf'[p] = <<>> /\ held'[p] = 0
    BY <1>1, <1>2, <1>12 DEF Started
  <2>2. x # 0
    BY <1>4
  <2>3. ASSUME NEW q \in Sieve, q # p
        PROVE  state'[q] = state[q] /\ at'[q] = at[q] /\ base'[q] = base[q] /\ held'[q] = held[q]
    BY <1>1, <1>9, <2>3
  <2>4. base'[Main] = 0
    BY <1>2, <2>3 DEF Started
  <2>5. ASSUME NEW q \in Sieve \ {Main}
        PROVE  /\ state'[q] = "none" \/ at'[q] \in {"child", "base"} => base'[q] = 0
               /\ state'[q] = "run" /\ at'[q] \notin {"child", "base"} => base'[q] # 0
               /\ base'[q] = 0 => buf'[q] = <<>> /\ held'[q] = 0
    <3>1. CASE q = p
      BY <1>1, <1>9, <2>2, <3>1
    <3>2. CASE q # p
      BY <1>12, <2>3, <3>2 DEF Started
    <3> QED
      BY <3>1, <3>2
  <2>6. \A q \in Sieve : at'[q] = "fork" => buf'[q] = <<>> /\ held'[q] = 0
    BY <1>12, <2>1, <2>3 DEF Started
  <2> QED
    BY <2>4, <2>5, <2>6 DEF Started
<1>14. Ended'
  <2> SUFFICES ASSUME ~ pipeFailed, ~ pipeFailed' PROVE Ended'
    BY <1>0 DEF Ended
  <2>1. \A q \in Sieve : Over(q)' => q # p /\ Over(q)
    BY <1>1, <1>9 DEF Over
  <2>2. \A q \in Sieve \ {Main} :
          at[Parent(q)] \in {"wait", "exit", "end"} => at'[Parent(q)] \in {"wait", "exit", "end"}
    BY <1>1, <1>9
  <2>3. \A q \in Sieve : at'[q] = "end" => at[q] = "end" /\ q # p /\ base'[q] = base[q]
    BY <1>9
  <2>4. Over(Main)' => held'[Main] = N + 1
    BY <1>1, <2>1 DEF Ended
  <2>5. \A q \in Sieve \ {Main} :
          Over(q)' => held'[q] = 0 /\ buf'[Parent(q)] = <<>> /\ at'[Parent(q)] \in {"wait", "exit", "end"}
    BY <1>1, <1>12, <2>1, <2>2 DEF Ended
  <2>6. \A q \in Sieve :
          at'[q] = "end" /\ ~ forkFailed' /\ (q = Main \/ base'[q] # 0) =>
            q[1] < Chain /\ state'[Child(q)] = "gone"
    BY <1>1, <2>3 DEF Ended
  <2> QED
    BY <2>4, <2>5, <2>6 DEF Ended
<1>15. Printed'
  <2>1. Len(primes') = p[1] /\ p[1] <= Chain /\ p[1] \in Nat
    BY <1>2, <1>7
  <2>2. ASSUME NEW q \in Sieve \ {Main}
        PROVE  base'[q] = IF q[1] <= Len(primes') THEN primes'[q[1]] ELSE 0
    <3>1. q[1] \in Nat /\ q[1] >= 1
      <4>1. q[1] \in 0 .. Chain /\ q[1] # 0
        OBVIOUS
      <4> QED
        BY <4>1
    <3>2. CASE q = p
      BY <1>2, <1>7, <1>9, <2>1, <3>2
    <3>3. CASE q[1] < p[1]
      <4>1. q # p /\ q[1] \in 1 .. Len(primes)
        BY <1>2, <3>1, <3>3
      <4>2. base'[q] = base[q] /\ primes'[q[1]] = primes[q[1]]
        BY <1>7, <1>9, <4>1
      <4>3. base[q] = primes[q[1]]
        BY <4>1 DEF Numeric, Printed
      <4>4. q[1] <= Len(primes')
        BY <2>1, <3>1, <3>3
      <4> QED
        BY <4>2, <4>3, <4>4
    <3>4. CASE q[1] > p[1]
      BY <1>2, <1>9, <2>1, <3>1, <3>4 DEF Numeric, Printed
    <3>5. q[1] = p[1] \/ q[1] < p[1] \/ q[1] > p[1]
      BY <2>1, <3>1
    <3> QED
      BY <3>2, <3>3, <3>4, <3>5
  <2> QED
    BY <2>1, <2>2 DEF Printed
<1>16. /\ \A q \in Sieve : Fly(q)' \subseteq Fly(q) /\ Fly(q) \subseteq Fly(q)' \cup {x}
       /\ \A q \in Sieve : q # o => Fly(q)' = Fly(q)
  <2>1. \A q \in Sieve : q # o => Fly(q)' = Fly(q)
    BY <1>1, <1>9 DEF Fly
  <2>2. Fly(o)' \subseteq Fly(o) /\ Fly(o) \subseteq Fly(o)' \cup {x}
    BY <1>1, <1>4, <1>9 DEF Fly
  <2> QED
    BY <2>1, <2>2
<1>17. \A q \in Sieve : \A n \in Fly(q)' : x < n
  <2> SUFFICES ASSUME NEW q \in Sieve, NEW n \in Fly(q)'
      PROVE  x < n
    OBVIOUS
  <2>1. n \in Fly(q) /\ (n = x \/ x < n)
    BY <1>6, <1>16
  <2>2. CASE q = o
    <3>1. n \in Elems(Tail(buf[o])) \/ (n = held[o] /\ held[o] # 0)
      BY <1>1, <1>9, <2>2 DEF Fly
    <3>2. n \in Elems(Tail(buf[o])) => x < n
      BY <1>3, <1>4 DEF Numeric, InOrder
    <3>3. held[o] # 0 => x < held[o]
      <4>1. x \in Elems(buf[o])
        BY <1>4
      <4> QED
        BY <1>3, <4>1 DEF Numeric, InOrder
    <3> QED
      BY <3>1, <3>2, <3>3
  <2>3. CASE q # o
    <3>1. ~ (q[1] >= p[1])
      BY <1>2, <2>1
    <3>2. q[1] < o[1]
      <4>1. q[1] \in Int /\ o[1] \in Int /\ q[1] # o[1] /\ q[1] < o[1] + 1
        BY <1>3, <2>3, <3>1
      <4> QED
        BY <4>1, NotBetween
    <3> QED
      BY <1>3, <1>4, <2>1, <3>2 DEF Numeric, InOrder
  <2> QED
    BY <2>2, <2>3
<1>18. InOrder'
  <2>1. ASSUME NEW q \in Sieve
        PROVE  Increasing(buf'[q]) /\ \A n \in Elems(buf'[q]) : held'[q] # 0 => n < held'[q]
    <3>1. CASE q = o
      BY <1>1, <1>3, <1>4, <1>9, <3>1 DEF Numeric, InOrder
    <3>2. CASE q # o
      BY <1>1, <1>9, <3>2 DEF Numeric, InOrder
    <3> QED
      BY <3>1, <3>2
  <2>2. \A q, r \in Sieve : q[1] < r[1] => \A m \in Fly(q)', n \in Fly(r)' : n < m
    BY <1>16 DEF Numeric, InOrder
  <2>3. \A q, r \in Sieve : \A n \in Fly(q)' : base'[r] < n
    BY <1>9, <1>16, <1>17 DEF Numeric, InOrder
  <2>4. held'[Main] # 0
    BY <1>1, <1>3, <1>4 DEF Numeric, InOrder
  <2> QED
    BY <2>1, <2>2, <2>3, <2>4 DEF InOrder
<1>19. Filtered'
  <2>1. ASSUME NEW q \in Sieve, NEW r \in Sieve, base'[r] # 0, r[1] <= q[1], NEW n \in Fly(q)'
        PROVE  n % base'[r] # 0
    <3>1. r # p
      <4>1. ~ (q[1] >= p[1])
        BY <1>2, <1>16, <2>1
      <4> QED
        BY <2>1, <4>1
    <3> QED
      BY <1>9, <1>16, <2>1, <3>1 DEF Numeric, Filtered
  <2> QED
    BY <2>1 DEF Filtered
<1>20. Accounted'
  <2>1. base[p] = 0
    BY <1>1, <1>2 DEF Started
  <2>2. x % x = 0
    <3>1. x \in Nat \ {0}
      BY <1>4
    <3> QED
      BY <3>1
  <2>3. ASSUME NEW n \in 2 .. N, n < held'[Main]
        PROVE  \/ \E q \in Sieve : base'[q] # 0 /\ n % base'[q] = 0
               \/ \E q \in Sieve : n \in Fly(q)'
    <3>1. CASE n = x
      <4>1. base'[p] # 0 /\ n % base'[p] = 0
        BY <1>4, <1>9, <2>2, <3>1
      <4> QED
        BY <4>1
    <3>2. CASE \E q \in Sieve : base[q] # 0 /\ n % base[q] = 0
      <4>1. PICK q \in Sieve : base[q] # 0 /\ n % base[q] = 0
        BY <3>2
      <4>2. base'[q] = base[q]
        BY <1>9, <2>1, <4>1
      <4> QED
        BY <4>1, <4>2
    <3>3. CASE \E q \in Sieve : n \in Fly(q) /\ n # x
      BY <1>16, <3>3
    <3> QED
      BY <1>0, <1>1, <2>3, <3>1, <3>2, <3>3 DEF Numeric, Accounted
  <2> QED
    BY <2>3 DEF Accounted
<1>21. PrimesInOrder'
  <2>1. DOMAIN primes' = 1 .. Len(primes) + 1 /\ DOMAIN primes = 1 .. Len(primes)
    BY <1>7 DEF TypeOK
  <2>2. ASSUME NEW i \in DOMAIN primes'
        PROVE  (i \in DOMAIN primes /\ primes'[i] = primes[i]) \/ (i = Len(primes) + 1 /\ primes'[i] = x)
    BY <1>7, <2>1
  <2>3. \A i \in DOMAIN primes' : IsPrime(primes'[i])
    BY <1>5, <2>2 DEF Numeric, PrimesInOrder
  <2>4. ASSUME NEW i \in DOMAIN primes', NEW j \in DOMAIN primes', i < j
        PROVE  primes'[i] < primes'[j]
    <3>1. i \in DOMAIN primes /\ primes'[i] = primes[i]
      <4>1. i # Len(primes) + 1
        BY <1>7, <2>1, <2>4
      <4> QED
        BY <2>2, <4>1
    <3>2. CASE j \in DOMAIN primes /\ primes'[j] = primes[j]
      BY <2>4, <3>1, <3>2 DEF Numeric, PrimesInOrder
    <3>3. CASE primes'[j] = x
      BY <1>5, <2>1, <3>1, <3>3
    <3> QED
      BY <2>2, <3>2, <3>3
  <2>5. ASSUME NEW i \in DOMAIN primes', NEW n \in 2 .. N, IsPrime(n), n < primes'[i]
        PROVE  \E j \in 1 .. i : primes'[j] = n
    <3>1. CASE i \in DOMAIN primes /\ primes'[i] = primes[i]
      <4>1. PICK j \in 1 .. i : primes[j] = n
        BY <2>5, <3>1 DEF Numeric, PrimesInOrder
      <4>2. j \in 1 .. Len(primes)
        BY <1>7, <2>1, <3>1
      <4> QED
        BY <1>7, <4>1, <4>2
    <3>2. CASE i = Len(primes) + 1 /\ primes'[i] = x
      <4>1. PICK j \in 1 .. Len(primes) : primes[j] = n
        BY <1>5, <2>5, <3>2
      <4>2. j \in 1 .. i
        BY <1>7, <3>2
      <4> QED
        BY <1>7, <4>1, <4>2
    <3> QED
      BY <2>2, <3>1, <3>2
  <2> QED
    BY <2>3, <2>4, <2>5 DEF PrimesInOrder
<1>22. Cut'
  <2>1. \A q \in Sieve : at'[q] = "base" => fd'[q]["w"] = None
    BY <1>9 DEF Cut
  <2>2. ASSUME pipeFailed'
        PROVE  p \in Sieve \ {Main} /\ p[1] = Len(primes') /\ fd'[p]["w"] = None /\ buf'[p] = <<>>
    <3>1. fd' = fd
      BY <1>0, <1>1, <2>2
    <3>2. fd'[p]["w"] = None
      BY <1>1, <3>1 DEF Cut
    <3>3. p[1] = Len(primes')
      BY <1>2, <1>7
    <3>4. buf[p] = <<>>
      BY <1>1, <1>2 DEF Started
    <3> QED
      BY <1>2, <1>12, <3>2, <3>3, <3>4
  <2> QED
    BY <2>1, <2>2 DEF Cut
<1> QED
  BY <1>8, <1>10, <1>11, <1>13, <1>14, <1>15, <1>18, <1>19, <1>20, <1>21, <1>22 DEF IInv, Flow

\* Nothing is mended of a pipe that failed.
LEMMA CutKept ==
  ASSUME IInv, NEW p \in Sieve, PrimesStep(p), ~ ReadBase(p)
  PROVE  Cut'
<1> SUFFICES ASSUME TypeOK, ChainOK, Started, Printed, Cut
    PROVE  Cut'
  BY DEF IInv, Flow
<1> USE SieveFacts
<1>1. primes' = primes /\ pipeFailed' = pipeFailed
  BY DEF PrimesStep, ForkChild, ForkFails, HagoDeHijo, NoMorePrimes, FiltroRead, FiltroWrite,
         CloseAll, WaitChild, Return, sieve, failed
<1>2. Closed["w"] = None /\ AsChild(fd[p])["w"] = None
  BY DEF Closed, AsChild, Slot
<1>3. ASSUME NEW q \in Sieve \ {Main}, q[1] = Len(primes), fd[q]["w"] = None, buf[q] = <<>>
      PROVE  fd'[q]["w"] = None /\ buf'[q] = <<>>
  <2>1. base[q] # 0
    <3>1. primes \in Seq(2 .. N) /\ q[1] \in 1 .. Len(primes)
      <4>1. q[1] \in 0 .. Chain /\ q[1] # 0
        OBVIOUS
      <4> QED
        BY <1>3, <4>1 DEF TypeOK
    <3>2. primes[q[1]] \in 2 .. N
      <4> DEFINE S == 2 .. N
      <4>1. primes \in Seq(S) /\ q[1] \in 1 .. Len(primes)
        BY <3>1
      <4> HIDE DEF S
      <4>2. primes[q[1]] \in S
        BY <4>1
      <4> QED
        BY <4>2 DEF S
    <3>3. base[q] = primes[q[1]]
      BY <1>3 DEF Printed
    <3> QED
      BY <3>2, <3>3
  <2>2. CASE ForkChild(p)
    <3>1. state[Child(p)] = "none" /\ buf' = buf /\ fd' = [fd EXCEPT ![Child(p)] = fd[p]]
      BY <2>2 DEF ForkChild, Forks
    <3>2. q # Child(p)
      BY <2>1, <3>1 DEF Started
    <3> QED
      BY <1>3, <3>1, <3>2 DEF TypeOK
  <2>3. CASE ForkFails(p) \/ NoMorePrimes(p) \/ Return(p)
    <3>1. buf' = buf /\ fd' = [fd EXCEPT ![p] = Closed]
      BY <2>3 DEF ForkFails, NoMorePrimes, Return, Exits, Ends
    <3> QED
      BY <1>2, <1>3, <3>1 DEF TypeOK
  <2>4. CASE HagoDeHijo(p) \/ CloseAll(p)
    <3>1. buf' = buf /\ \E f \in {Closed, AsChild(fd[p])} : fd' = [fd EXCEPT ![p] = f]
      BY <2>4 DEF HagoDeHijo, CloseAll, Sets
    <3> QED
      BY <1>2, <1>3, <3>1 DEF TypeOK
  <2>5. CASE WaitChild(p)
    BY <1>3, <2>5 DEF WaitChild, Reaps
  <2>6. CASE FiltroRead(p)
    <3>1. Parent(p) # q /\ fd' = fd /\ buf' = [buf EXCEPT ![Parent(p)] = Tail(@)]
      BY <1>3, <2>6 DEF FiltroRead, Readable
    <3> QED
      BY <1>3, <3>1 DEF TypeOK
  <2>7. CASE FiltroWrite(p)
    <3>1. fd' = fd /\ (buf' = buf \/ (p # q /\ buf' = [buf EXCEPT ![p] = Append(@, held[p])]))
      BY <1>3, <2>7 DEF FiltroWrite
    <3> QED
      BY <1>3, <3>1 DEF TypeOK
  <2> QED
    BY <2>2, <2>3, <2>4, <2>5, <2>6, <2>7 DEF PrimesStep
<1>4. ASSUME NEW q \in Sieve, at'[q] = "base"
      PROVE  fd'[q]["w"] = None
  <2>1. CASE ForkChild(p)
    <3>1. /\ fd' = [fd EXCEPT ![Child(p)] = fd[p]]
          /\ at' = [at EXCEPT ![p] = "filter", ![Child(p)] = "child"]
      BY <2>1 DEF ForkChild, Forks
    <3>2. q # Child(p) /\ q # p
      BY <1>4, <3>1 DEF TypeOK
    <3> QED
      BY <1>4, <3>1, <3>2 DEF Cut, TypeOK
  <2>2. CASE ForkFails(p) \/ NoMorePrimes(p) \/ Return(p)
    <3>1. at' = [at EXCEPT ![p] = "end"] /\ fd' = [fd EXCEPT ![p] = Closed]
      BY <2>2 DEF ForkFails, NoMorePrimes, Return, Exits, Ends, Goto
    <3> QED
      BY <1>2, <1>4, <3>1 DEF Cut, TypeOK
  <2>3. CASE HagoDeHijo(p) \/ CloseAll(p)
    <3>1. /\ \E f \in {Closed, AsChild(fd[p])} : fd' = [fd EXCEPT ![p] = f]
          /\ \E w \in {"base", "wait"} : at' = [at EXCEPT ![p] = w]
      BY <2>3 DEF HagoDeHijo, CloseAll, Sets, Goto
    <3> QED
      BY <1>2, <1>4, <3>1 DEF Cut, TypeOK
  <2>4. CASE WaitChild(p)
    <3>1. at' = [at EXCEPT ![p] = "exit"] /\ fd' = fd
      BY <2>4 DEF WaitChild, Reaps, Goto
    <3> QED
      BY <1>4, <3>1 DEF Cut, TypeOK
  <2>5. CASE FiltroRead(p) \/ FiltroWrite(p)
    BY <1>4, <2>5 DEF FiltroRead, FiltroWrite, Cut
  <2> QED
    BY <2>1, <2>2, <2>3, <2>4, <2>5 DEF PrimesStep
<1>5. pipeFailed => \E q \in Sieve \ {Main} : q[1] = Len(primes') /\ fd'[q]["w"] = None /\ buf'[q] = <<>>
  <2> SUFFICES ASSUME pipeFailed
      PROVE  \E q \in Sieve \ {Main} : q[1] = Len(primes') /\ fd'[q]["w"] = None /\ buf'[q] = <<>>
    OBVIOUS
  <2>1. PICK q \in Sieve \ {Main} : q[1] = Len(primes) /\ fd[q]["w"] = None /\ buf[q] = <<>>
    BY DEF Cut
  <2>2. fd'[q]["w"] = None /\ buf'[q] = <<>>
    BY <1>3, <2>1
  <2> QED
    BY <1>1, <2>1, <2>2
<1> QED
  BY <1>1, <1>4, <1>5 DEF Cut

-----------------------------------------------------------------------------
(* The theorems                                                             *)

LEMMA InitIInv == PrimesInit => IInv
<1> SUFFICES ASSUME PrimesInit PROVE IInv
  OBVIOUS
<1> USE SieveFacts, Numbers
<1>1. /\ state = [p \in Proc |-> IF p = Main THEN "run" ELSE "none"]
      /\ fd = [p \in Proc |-> IF p = Main THEN WithPipe(Closed, Main) ELSE Closed]
      /\ buf = [k \in PipeId |-> <<>>] /\ at = [p \in Proc |-> "fork"]
      /\ base = [p \in Sieve |-> 0] /\ held = [p \in Sieve |-> 0]
      /\ primes = <<>> /\ forkFailed = FALSE /\ pipeFailed = FALSE
  BY DEF PrimesInit
<1>2. Closed \in [Slot -> {None} \cup (PipeId \X {"r", "w"})] /\ "w" \in Slot
  BY DEF Closed, Slot
<1>3. WithPipe(Closed, Main) \in [Slot -> {None} \cup (PipeId \X {"r", "w"})]
  <2>1. End(Main, "r") \in PipeId \X {"r", "w"} /\ End(Main, "w") \in PipeId \X {"r", "w"}
    BY DEF End
  <2> QED
    BY <1>2, <2>1 DEF WithPipe
<1>4. WithPipe(Closed, Main)["w"] = End(Main, "w")
  BY <1>2 DEF WithPipe
<1>5. TypeOK
  <2>1. fd \in [Proc -> [Slot -> {None} \cup (PipeId \X {"r", "w"})]]
    BY <1>1, <1>2, <1>3
  <2>2. state \in [Proc -> {"none", "run", "zombie", "gone"}]
    BY <1>1
  <2>3. at \in [Proc -> {"fork", "child", "base", "filter", "wait", "exit", "end"}]
    BY <1>1
  <2>4. <<>> \in Seq(2 .. N)
    OBVIOUS
  <2>5. buf \in [PipeId -> Seq(2 .. N)] /\ primes \in Seq(2 .. N)
    BY <1>1, <2>4
  <2>6. base \in [Sieve -> {0} \cup 2 .. N] /\ held \in [Sieve -> {0} \cup 2 .. N + 1]
    BY <1>1
  <2> QED
    BY <1>1, <2>1, <2>2, <2>3, <2>5, <2>6 DEF TypeOK
<1>6. /\ \A p \in Sieve : at[p] = "fork" /\ base[p] = 0 /\ held[p] = 0 /\ buf[p] = <<>>
      /\ \A p \in Sieve \ {Main} : state[p] = "none"
      /\ state[Main] = "run" /\ fd[Main]["w"] = End(Main, "w")
  BY <1>1, <1>4
<1>7. ChainOK
  <2>1. \A p, q \in Sieve : q[1] > p[1] => q # Main
    <3> TAKE p, q \in Sieve
    <3>1. p[1] >= 0 /\ p[1] \in Int
      OBVIOUS
    <3> QED
      BY <3>1
  <2> QED
    BY <1>6, <2>1 DEF ChainOK
<1>8. CanWrite /\ Started /\ Ended
  BY <1>6 DEF CanWrite, Started, Ended, Over
<1>9. Elems(<<>>) = {} /\ Increasing(<<>>)
  BY DEF Elems, Increasing
<1>10. \A p \in Sieve : Fly(p) = {}
  BY <1>6, <1>9 DEF Fly
<1>11. Printed
  <2>1. Len(primes) = 0
    BY <1>1
  <2>2. \A p \in Sieve \ {Main} : ~ (p[1] <= 0)
    <3> TAKE p \in Sieve \ {Main}
    <3>1. p[1] \in 0 .. Chain /\ p[1] # 0
      OBVIOUS
    <3> QED
      BY <3>1
  <2> QED
    BY <1>6, <2>1, <2>2 DEF Printed
<1>12. InOrder /\ Filtered
  BY <1>6, <1>9, <1>10 DEF InOrder, Filtered
<1>13. Accounted
  BY <1>6 DEF Accounted
<1>14. PrimesInOrder
  <2>1. DOMAIN primes = {}
    BY <1>1
  <2> QED
    BY <2>1 DEF PrimesInOrder
<1>15. Cut
  BY <1>1, <1>6 DEF Cut
<1> QED
  BY <1>5, <1>7, <1>8, <1>11, <1>12, <1>13, <1>14, <1>15 DEF IInv, Flow

LEMMA NextIInv == IInv /\ [PrimesNext]_<<unix, sieve>> => IInv'
<1> SUFFICES ASSUME IInv, [PrimesNext]_<<unix, sieve>> PROVE IInv'
  OBVIOUS
<1>1. CASE UNCHANGED <<unix, sieve>>
  <2>1. UNCHANGED <<state, fd, buf, at, base, held, primes, forkFailed, pipeFailed>>
    BY <1>1 DEF unix, sieve, failed
  <2>2. Numeric'
    BY <2>1, NumbersUntouched DEF IInv, Flow, Numeric
  <2>3. TypeOK'
    BY <2>1 DEF IInv, Flow, TypeOK
  <2>4. ChainOK' /\ CanWrite' /\ Started'
    BY <2>1 DEF IInv, Flow, ChainOK, CanWrite, Started
  <2>5. Ended'
    BY <2>1 DEF IInv, Flow, Ended, Over
  <2>6. Cut'
    BY <2>1 DEF IInv, Cut
  <2> QED
    BY <2>2, <2>3, <2>4, <2>5, <2>6 DEF IInv, Flow, Numeric
<1>2. CASE PrimesNext
  <2>1. PICK p \in Sieve : PrimesStep(p)
    BY <1>2 DEF PrimesNext
  <2> SUFFICES ASSUME ~ ReadBase(p) PROVE Flow'
    BY <2>1, ReadBaseStep, CutKept DEF IInv
  <2>2. CASE ForkChild(p)
    BY <2>2, ForkChildStep DEF IInv
  <2>4. CASE FiltroRead(p)
    BY <2>4, FiltroReadStep DEF IInv
  <2>5. CASE FiltroWrite(p)
    BY <2>5, FiltroWriteStep, FiltroLosesStep DEF IInv
  <2>6. CASE \/ ForkFails(p) \/ HagoDeHijo(p) \/ NoMorePrimes(p)
             \/ CloseAll(p) \/ WaitChild(p) \/ Return(p)
    <3>1. TypeOK /\ ChainOK /\ CanWrite /\ Started /\ Ended /\ Numeric
      BY DEF IInv, Flow, Numeric
    <3>2. TypeOK' /\ UNCHANGED <<buf, base, held, primes, pipeFailed>>
      BY <2>6, <3>1, QuietType
    <3>3. Numeric'
      BY <3>1, <3>2, NumbersUntouched
    <3>4. ChainOK' /\ CanWrite' /\ Started' /\ Ended'
      BY <2>6, <3>1, ExitsStep, HagoDeHijoStep, CloseAllStep, WaitChildStep
    <3> QED
      BY <3>2, <3>3, <3>4 DEF Flow, Numeric
  <2> QED
    BY <2>1, <2>2, <2>4, <2>5, <2>6 DEF PrimesStep
<1> QED
  BY <1>1, <1>2

\* The state of the processes and of the pipes, and where each number is, are
\* as IInv says in every state of the sieve (TP fork/primes.c).
THEOREM SieveIInv == PrimesSpec => []IInv
<1>1. PrimesInit => IInv
  BY InitIInv
<1>2. IInv /\ [PrimesNext]_<<unix, sieve>> => IInv'
  BY NextIInv
<1> QED
  BY <1>1, <1>2, PTL DEF PrimesSpec

\* Whatever the processes' speeds, and whichever fork or pipe fails, the k-th number
\* printed is the k-th prime (TP fork/primes.c:66-71).
THEOREM OnlyPrimesInOrder == PrimesSpec => []PrimesInOrder
<1>1. IInv => PrimesInOrder
  BY DEF IInv, Flow
<1> QED
  BY <1>1, SieveIInv, PTL

\* When main has ended all have ended and been waited for, and unless a fork or a
\* pipe failed every prime was printed (TP fork/primes.c:46-47, 73-78).
THEOREM MainIsTheLast == PrimesSpec => []MainEndsLast
<1>1. ASSUME IInv, state[Main] = "zombie"
      PROVE  \A p \in Sieve \ {Main} : state[p] \in {"none", "gone"}
  <2> TAKE p \in Sieve \ {Main}
  <2>1. p[1] \in 0 .. Chain /\ p[1] # 0 /\ Main \in Sieve /\ Main[1] = 0
    BY SieveFacts
  <2>2. p[1] > Main[1]
    BY <2>1
  <2>3. at[Main] = "end"
    BY <1>1, <2>1 DEF IInv, Flow, ChainOK
  <2> QED
    BY <1>1, <2>1, <2>2, <2>3 DEF IInv, Flow, ChainOK
<1>2. ASSUME IInv, state[Main] = "zombie", ~ forkFailed, ~ pipeFailed, NEW n \in 2 .. N, IsPrime(n)
      PROVE  \E i \in DOMAIN primes : primes[i] = n
  <2> USE SieveFacts, Numbers
  <2>1. at[Main] = "end" /\ Over(Main)
    BY <1>2 DEF IInv, Flow, ChainOK, Over
  <2>2. held[Main] = N + 1 /\ n < N + 1
    BY <1>2, <2>1 DEF IInv, Flow, Ended
  <2>3. ASSUME NEW p \in Sieve, n \in Fly(p)
        PROVE  FALSE
    <3>1. p = Main \/ base[p] # 0
      <4>1. Elems(<<>>) = {}
        BY DEF Elems
      <4> QED
        BY <1>2, <2>3, <4>1 DEF IInv, Flow, Started, Fly
    <3>2. state[p] \in {"zombie", "gone"} /\ at[p] = "end"
      <4>1. CASE p = Main
        BY <1>2, <2>1, <4>1
      <4>2. CASE p # Main
        <5>1. state[p] \in {"none", "gone"}
          BY <1>1, <1>2, <4>2
        <5>2. state[p] # "none"
          BY <1>2, <3>1, <4>2 DEF IInv, Flow, Started
        <5> QED
          BY <1>2, <5>1, <5>2 DEF IInv, Flow, ChainOK
      <4> QED
        BY <4>1, <4>2
    <3>3. p[1] < Chain /\ state[Child(p)] = "gone"
      BY <1>2, <3>1, <3>2 DEF IInv, Flow, Ended
    <3>4. Child(p) \in Sieve \ {Main} /\ Parent(Child(p)) = p
      <4>1. Child(p) \in Sieve /\ Child(p)[1] = p[1] + 1 /\ p[1] \in Nat
        BY <3>3
      <4>2. Child(p) # Main
        BY <4>1
      <4>3. Parent(Child(p)) \in Sieve /\ Parent(Child(p))[1] = p[1]
        BY <4>1, <4>2
      <4> QED
        BY <4>1, <4>2, <4>3
    <3>5. Over(Child(p))
      BY <1>2, <3>3, <3>4 DEF IInv, Flow, ChainOK, Over
    <3>6. buf[p] = <<>>
      BY <1>2, <3>4, <3>5 DEF IInv, Flow, Ended
    <3>7. p # Main => held[p] = 0
      BY <1>2, <3>2 DEF IInv, Flow, Ended, Over
    <3>8. Elems(<<>>) = {}
      BY DEF Elems
    <3> QED
      BY <1>2, <2>2, <2>3, <3>6, <3>7, <3>8 DEF Fly
  <2>4. PICK q \in Sieve : base[q] # 0 /\ n % base[q] = 0
    BY <1>2, <2>2, <2>3 DEF IInv, Flow, Accounted
  <2>5. base[q] \in 2 .. N
    BY <1>2, <2>4, FlyType DEF IInv, Flow
  <2>6. base[q] = n
    BY <1>2, <2>4, <2>5, OnlyItself
  <2>7. q # Main /\ q[1] <= Len(primes) /\ base[q] = primes[q[1]]
    BY <1>2, <2>4 DEF IInv, Flow, Started, Printed
  <2>8. q[1] \in 1 .. Len(primes) /\ DOMAIN primes = 1 .. Len(primes)
    <3>1. q[1] # 0 /\ q[1] \in Nat /\ Len(primes) \in Nat /\ DOMAIN primes = 1 .. Len(primes)
      BY <1>2, <2>7 DEF IInv, Flow, TypeOK
    <3> QED
      BY <2>7, <3>1
  <2> QED
    BY <2>6, <2>7, <2>8
<1>3. IInv => MainEndsLast
  BY <1>1, <1>2 DEF MainEndsLast
<1> QED
  BY <1>3, SieveIInv, PTL
=============================================================================
