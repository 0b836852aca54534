------------------------------ MODULE PipeProofs ------------------------------
(***************************************************************************)
(* The bytes of a pipe, for any number of programs, descriptors and CPUs   *)
(* and any size of the buffer: the reader gets each byte once and in the   *)
(* order they were written. Then the ends of a pipe that two programs on   *)
(* one CPU use: one appears closed only when it is.                        *)
(***************************************************************************)
EXTENDS Pipe, FiniteSetTheorems, TLAPS

-----------------------------------------------------------------------------
(* The inductive invariant *)

\* Program p is in devpipe_read, or in devpipe_write, if need be in
\* _pipeisclosed for it.
In(p, steps, test) ==
  \/ at[p].pc \in steps
  \/ at[p].pc \in {"count", "compare"} /\ at[p].back = test

InRead(p) == In(p, {"rtest", "rtake", "radvance"}, "rtest")

InWrite(p) == In(p, {"wtest", "wstore", "wadvance"}, "wtest")

\* One program reads, one writes, and only while it is in the call.
Roles ==
  \A p \in Proc :
    /\ InRead(p) => p = Reader
    /\ InWrite(p) => p = Writer /\ wpos < MaxBytes

\* What the reader has taken: one byte more than p_rpos says after the byte is
\* copied and before the position moves, for ever if the reader is killed then.
Taken ==
  /\ rpos <= wpos /\ wpos <= rpos + Size
  /\ Len(got) \in {rpos, rpos + 1} /\ Len(got) <= wpos
  /\ Len(got) = rpos + 1 => at[Reader].pc \in {"radvance", "gone"}
  /\ at[Reader].pc = "radvance" => Len(got) = rpos + 1
  /\ at[Reader].pc = "rtake" => rpos < wpos
  /\ \A k \in 1 .. Len(got) : got[k] = k

\* Byte k + 1 is in its place while it is neither read nor overwritten.
Stored(k) == buf[k % Size] = k + 1

\* The buffer holds what was written and not read; the byte the writer has
\* stored and not counted yet is behind it.
Buffered ==
  /\ \A k \in rpos .. wpos - 1 : Stored(k)
  /\ at[Writer].pc \in {"wstore", "wadvance"} => wpos < rpos + Size
  /\ at[Writer].pc = "wadvance" => Stored(wpos)

\* The child of a fork() that goes on is nobody else's.
Embryos ==
  \A p \in Proc : at[p].pc = "fork" =>
    /\ at[p].arg \in Proc /\ at[at[p].arg].pc = "embryo"
    /\ \A q \in Proc \ {p} : at[q].pc = "fork" => at[q].arg # at[p].arg

IInv == TypeOK /\ IsFiniteSet(on) /\ Roles /\ Embryos /\ Taken /\ Buffered
-----------------------------------------------------------------------------
(* Arithmetic of the buffer, and the type of a program's place              *)

\* Division with remainder.
LEMMA Remainder ==
  ASSUME NEW n \in Nat \ {0}, NEW i \in Nat
  PROVE  i \div n \in Int /\ i % n \in 0 .. n - 1 /\ i = n * (i \div n) + (i % n)
<1>1. i \div n \in Int
  OBVIOUS
<1>2. i % n \in 0 .. n - 1
  OBVIOUS
<1>3. i = n * (i \div n) + (i % n)
  OBVIOUS
<1> QED
  BY <1>1, <1>2, <1>3

\* No multiple of n lies strictly between 0 and n.
LEMMA NoMultiple ==
  ASSUME NEW n \in Nat \ {0}, NEW d \in Int
  PROVE  n * d \in Int /\ (n * d <= 0 \/ n * d >= n)
<1>1. d <= 0 => n * d <= 0
  OBVIOUS
<1>2. d >= 1 => n * d >= n
  OBVIOUS
<1> QED
  BY <1>1, <1>2

\* Two bytes less than a buffer apart are in different places.
LEMMA PlacesDiffer ==
  ASSUME NEW i \in Nat, NEW j \in Nat, i < j, j < i + Size
  PROVE  i % Size # j % Size
<1>1. Size \in Nat \ {0}
  BY PipeAssumption
<1>2. PICK a \in Int : i = Size * a + (i % Size)
  BY <1>1, Remainder
<1>3. PICK b \in Int : j = Size * b + (j % Size)
  BY <1>1, Remainder
<1>4. Size * (b - a) = Size * b - Size * a
  BY <1>1
<1>5. Size * (b - a) <= 0 \/ Size * (b - a) >= Size
  BY <1>1, NoMultiple
<1>6. i % Size \in Nat /\ j % Size \in Nat /\ Size * a \in Int /\ Size * b \in Int
  BY <1>1, Remainder
<1> QED
  BY <1>1, <1>2, <1>3, <1>4, <1>5, <1>6

\* A byte's place is in the buffer.
LEMMA PlaceType ==
  ASSUME NEW i \in Nat
  PROVE  i % Size \in 0 .. Size - 1
BY PipeAssumption, Remainder

Call ==
  [pc : {"none", "embryo", "gone", "run", "close", "dupClose", "dup",
         "dup2", "fork", "count", "compare", "closed",
         "rtest", "rtake", "radvance",
         "wtest", "wstore", "wadvance"},
   num : Num \cup {None},
   arg : Nat \cup Proc \cup Num \cup {None},
   back : {"run", "rtest", "wtest"},
   some : BOOLEAN]

\* The parts of the type, one lemma cites one.
PagesOK ==
  /\ fd \in [Proc -> [Num -> {"R", "W", None}]]
  /\ data \in [Proc -> [Num -> BOOLEAN]]

BytesOK ==
  /\ buf \in [0 .. Size - 1 -> 0 .. MaxBytes]
  /\ rpos \in 0 .. MaxBytes /\ wpos \in 0 .. MaxBytes
  /\ got \in Seq(0 .. MaxBytes)

AtOK == at \in [Proc -> Call]

OnOK == on \subseteq Proc /\ IsFiniteSet(on) /\ Cardinality(on) <= NCpu /\ moved \subseteq Proc

\* The type invariant is these parts.
LEMMA TypeParts == TypeOK /\ IsFiniteSet(on) <=> PagesOK /\ BytesOK /\ AtOK /\ OnOK
BY DEF TypeOK, PagesOK, BytesOK, AtOK, OnOK, Call

\* Between two calls.
LEMMA IdleIsCall == Idle \in Call /\ Idle.pc = "run" /\ Idle.back = "run"
BY DEF Idle, Call

-----------------------------------------------------------------------------
(* Steps that neither move nor look at a byte                               *)

\* The calls end at a byte's boundary, or with the program.
Quiet ==
  /\ UNCHANGED pipe
  /\ \A p \in Proc :
       /\ at'[p].pc \in {"rtake", "radvance", "wstore", "wadvance"} => at'[p].pc = at[p].pc
       /\ at[p].pc = "radvance" => at'[p].pc \in {"radvance", "gone"}
       /\ at[p].pc = "gone" => at'[p].pc = "gone"
       /\ InRead(p)' => InRead(p) \/ p = Reader
       /\ InWrite(p)' => InWrite(p) \/ (p = Writer /\ wpos < MaxBytes)

\* What the invariant says of the bytes holds on.
LEMMA QuietKeeps ==
  ASSUME IInv, Quiet, PagesOK', AtOK', OnOK', Embryos'
  PROVE  IInv'
<1>1. rpos' = rpos /\ wpos' = wpos /\ buf' = buf /\ got' = got
  BY DEF Quiet, pipe
<1>2. Reader \in Proc /\ Writer \in Proc
  BY PipeAssumption
<1>3. BytesOK'
  BY <1>1, TypeParts DEF IInv, BytesOK
<1>4. Roles'
  BY <1>1 DEF IInv, Roles, Quiet
<1>5. Taken'
  BY <1>1, <1>2 DEF IInv, Taken, Quiet
<1>6. Buffered'
  BY <1>1, <1>2 DEF IInv, Buffered, Stored, Quiet
<1>7. TypeOK' /\ IsFiniteSet(on)'
  BY <1>3, TypeParts DEF TypeOK, PagesOK, BytesOK, AtOK, OnOK, Call
<1> QED
  BY <1>4, <1>5, <1>6, <1>7 DEF IInv

\* One program goes on: what is enough for Quiet.
Goes(p, pc) ==
  /\ at' \in [Proc -> Call]
  /\ at'[p].pc = pc
  /\ \A q \in Proc \ {p} : at'[q] = at[q]

\* Such a step, of one program.
LEMMA OneGoes ==
  ASSUME NEW p \in Proc, NEW pc, Goes(p, pc), UNCHANGED pipe,
         pc \notin {"rtake", "radvance", "wstore", "wadvance"},
         at[p].pc \notin {"radvance", "gone"},
         InRead(p)' => InRead(p) \/ p = Reader,
         InWrite(p)' => InWrite(p) \/ (p = Writer /\ wpos < MaxBytes)
  PROVE  Quiet
<1>1. \A q \in Proc \ {p} : at'[q] = at[q]
  BY DEF Goes
<1>2. \A q \in Proc \ {p} : InRead(q)' = InRead(q) /\ InWrite(q)' = InWrite(q)
  BY <1>1 DEF InRead, InWrite, In
<1> QED
  BY <1>1, <1>2 DEF Quiet, Goes
\* A step of any other program leaves the child what it is.
LEMMA EmbryosStay ==
  ASSUME Embryos, NEW p \in Proc, NEW pc, Goes(p, pc), pc # "fork", at[p].pc # "embryo"
  PROVE  Embryos'
<1> SUFFICES ASSUME NEW q \in Proc, at'[q].pc = "fork"
             PROVE  /\ at'[q].arg \in Proc /\ at'[at'[q].arg].pc = "embryo"
                    /\ \A r \in Proc \ {q} : at'[r].pc = "fork" => at'[r].arg # at'[q].arg
  BY DEF Embryos
<1>1. q # p /\ at'[q] = at[q]
  BY DEF Goes
<1>2. /\ at[q].arg \in Proc /\ at[at[q].arg].pc = "embryo"
      /\ \A r \in Proc \ {q} : at[r].pc = "fork" => at[r].arg # at[q].arg
  BY <1>1 DEF Embryos
<1>3. at'[at[q].arg].pc = "embryo"
  BY <1>2 DEF Goes
<1>4. \A r \in Proc \ {q} : at'[r].pc = "fork" => at[r] = at'[r]
  BY DEF Goes
<1> QED
  BY <1>1, <1>2, <1>3, <1>4

\* A call ends, or p goes on in one that is not about bytes.
LEMMA ReturnGoes ==
  ASSUME AtOK, NEW p \in Proc, Return(p)
  PROVE  Goes(p, "run")
BY IdleIsCall DEF AtOK, Return, Goes

\* The steps that are not devpipe_read's, devpipe_write's or _pipeisclosed's.
Other == {"run", "close", "dupClose", "dup", "dup2", "closed"}

\* A program in no loop of the pipe has no role.
LEMMA OtherGoes ==
  ASSUME NEW p \in Proc, NEW pc \in Other, Goes(p, pc), UNCHANGED pipe,
         at[p].pc \notin {"radvance", "gone", "embryo"}, Embryos
  PROVE  Quiet /\ Embryos'
<1>1. ~ InRead(p)' /\ ~ InWrite(p)'
  BY DEF Goes, Other, InRead, InWrite, In
<1>2. pc \notin {"rtake", "radvance", "wstore", "wadvance"}
  BY DEF Other
<1>3. Quiet
  BY <1>1, <1>2, OneGoes
<1>4. pc # "fork"
  BY DEF Other
<1> QED
  BY <1>3, <1>4, EmbryosStay

\* A page is unmapped.
LEMMA UnmapType ==
  ASSUME PagesOK, NEW p \in Proc, NEW n \in Num, NEW page, Unmap(p, n, page)
  PROVE  PagesOK'
<1>1. CASE page = "fd"
  <2>1. fd' = [fd EXCEPT ![p][n] = None] /\ data' = data
    BY <1>1 DEF Unmap
  <2> QED
    BY <2>1 DEF PagesOK
<1>2. CASE page # "fd"
  <2>1. data' = [data EXCEPT ![p][n] = FALSE] /\ fd' = fd
    BY <1>2 DEF Unmap
  <2> QED
    BY <2>1 DEF PagesOK
<1> QED
  BY <1>1, <1>2

\* A page is mapped where another program, or the same, has it.
LEMMA MapType ==
  ASSUME PagesOK, NEW p \in Proc, NEW n \in Num, NEW q \in Proc, NEW m \in Num, NEW page,
         Map(p, n, q, m, page)
  PROVE  PagesOK'
<1>1. CASE page = "fd"
  <2>1. fd' = [fd EXCEPT ![q][m] = fd[p][n]] /\ data' = data
    BY <1>1 DEF Map
  <2>2. fd[p][n] \in {"R", "W", None}
    BY DEF PagesOK
  <2> QED
    BY <2>1, <2>2 DEF PagesOK
<1>2. CASE page # "fd"
  <2>1. data' = [data EXCEPT ![q][m] = data[p][n]] /\ fd' = fd
    BY <1>2 DEF Map
  <2>2. data[p][n] \in BOOLEAN
    BY DEF PagesOK
  <2> QED
    BY <2>1, <2>2 DEF PagesOK
<1> QED
  BY <1>1, <1>2

\* One program more on the CPUs.
LEMMA OneMore ==
  ASSUME NEW S \in SUBSET Proc, IsFiniteSet(S), NEW q \in Proc, NEW T, T = S \cup {q}
  PROVE  T \subseteq Proc /\ IsFiniteSet(T) /\ Cardinality(T) <= Cardinality(S) + 1
<1>1. /\ IsFiniteSet(T)
      /\ Cardinality(T) = IF q \in S THEN Cardinality(S) ELSE Cardinality(S) + 1
  BY FS_AddElement
<1>2. Cardinality(S) \in Nat
  BY FS_CardinalityType
<1> QED
  BY <1>1, <1>2

\* One program less.
LEMMA OneLess ==
  ASSUME OnOK, NEW p \in Proc, NEW T, T = on \ {p}
  PROVE  /\ T \subseteq Proc /\ IsFiniteSet(T) /\ Cardinality(T) <= NCpu
         /\ p \in on => Cardinality(T) + 1 <= NCpu
<1>1. NCpu \in Nat /\ on \subseteq Proc /\ IsFiniteSet(on) /\ Cardinality(on) <= NCpu
  BY PipeAssumption DEF OnOK
<1>2. /\ IsFiniteSet(T)
      /\ Cardinality(T) = IF p \in on THEN Cardinality(on) - 1 ELSE Cardinality(on)
  BY <1>1, FS_RemoveElement
<1>3. Cardinality(on) \in Nat
  BY <1>1, FS_CardinalityType
<1> QED
  BY <1>1, <1>2, <1>3

\* env_run
LEMMA ScheduleKeeps ==
  ASSUME IInv, NEW q \in Proc, Schedule(q)
  PROVE  IInv'
<1>1. UNCHANGED <<fd, data, buf, rpos, wpos, got, at>>
  BY DEF Schedule, pages, pipe
<1>2. PagesOK /\ AtOK /\ OnOK
  BY TypeParts DEF IInv
<1>3. PagesOK' /\ AtOK'
  BY <1>1, <1>2 DEF PagesOK, AtOK
<1>4. moved' \subseteq Proc
  BY <1>2 DEF OnOK, Schedule
<1>5. OnOK'
  <2>1. NCpu \in Nat /\ on \subseteq Proc /\ IsFiniteSet(on) /\ Cardinality(on) \in Nat
    BY <1>2, PipeAssumption, FS_CardinalityType DEF OnOK
  <2>2. CASE Cardinality(on) < NCpu /\ on' = on \cup {q}
    <3>1. on' \subseteq Proc /\ IsFiniteSet(on') /\ Cardinality(on') <= Cardinality(on) + 1
      BY <2>1, <2>2, OneMore
    <3>2. Cardinality(on') \in Nat
      BY <3>1, FS_CardinalityType
    <3> QED
      BY <1>4, <2>1, <2>2, <3>1, <3>2 DEF OnOK
  <2>3. ASSUME NEW p \in on, on' = (on \ {p}) \cup {q} PROVE OnOK'
    <3>1. PICK T : T = on \ {p}
      OBVIOUS
    <3>2. T \subseteq Proc /\ IsFiniteSet(T) /\ Cardinality(T) + 1 <= NCpu
      BY <1>2, <2>1, <3>1, OneLess
    <3>3. on' \subseteq Proc /\ IsFiniteSet(on') /\ Cardinality(on') <= Cardinality(T) + 1
      BY <2>3, <3>1, <3>2, OneMore
    <3>4. Cardinality(on') \in Nat /\ Cardinality(T) \in Nat
      BY <3>2, <3>3, FS_CardinalityType
    <3> QED
      BY <1>4, <2>1, <3>2, <3>3, <3>4 DEF OnOK
  <2> QED
    BY <2>2, <2>3 DEF Schedule
<1>6. Quiet
  BY <1>1 DEF Quiet, pipe, InRead, InWrite, In
<1>7. Embryos'
  BY <1>1 DEF IInv, Embryos
<1> QED
  BY <1>3, <1>5, <1>6, <1>7, QuietKeeps

\* A program that ends in the middle of devpipe_read has taken its byte.
LEMMA DestroyKeeps ==
  ASSUME IInv, NEW p \in Proc, Destroy(p)
  PROVE  IInv'
<1>1. PagesOK /\ AtOK /\ OnOK
  BY TypeParts DEF IInv
<1>2. PagesOK'
  BY <1>1 DEF PagesOK, Destroy
<1>3. OnOK'
  <2>1. on' = on \ {p} /\ moved' \subseteq Proc
    BY <1>1 DEF OnOK, Destroy
  <2> QED
    BY <1>1, <2>1, OneLess DEF OnOK
<1>4. PICK j \in Call : /\ j.pc = "gone" /\ j.back = "run" /\ at' = [at EXCEPT ![p] = j]
  BY IdleIsCall DEF Destroy, Idle, Call
<1>5. AtOK' /\ at'[p].pc = "gone" /\ \A q \in Proc \ {p} : at'[q] = at[q]
  BY <1>1, <1>4 DEF AtOK
<1>6. \A q \in Proc \ {p} : InRead(q)' = InRead(q) /\ InWrite(q)' = InWrite(q)
  BY <1>5 DEF InRead, InWrite, In
<1>7. ~ InRead(p)' /\ ~ InWrite(p)'
  BY <1>5 DEF InRead, InWrite, In
<1>8. Quiet
  BY <1>5, <1>6, <1>7 DEF Quiet, Destroy
<1>9. Embryos'
  BY <1>5, EmbryosStay DEF IInv, Destroy, Alive, Goes, AtOK
<1> QED
  BY <1>2, <1>3, <1>5, <1>8, <1>9, QuietKeeps
\* A call on descriptor n begins.
LEMMA BeginGoes ==
  ASSUME AtOK, NEW p \in Proc, NEW n \in Num, NEW pc \in {"close", "rtest", "wtest"},
         at' = [at EXCEPT ![p].pc = pc, ![p].num = n]
  PROVE  Goes(p, pc)
<1>1. PICK j : j = [at[p] EXCEPT !.pc = pc, !.num = n]
  OBVIOUS
<1>2. at[p] \in Call
  BY DEF AtOK
<1>3. j \in Call /\ j.pc = pc
  BY <1>1, <1>2 DEF Call
<1>4. at' = [at EXCEPT ![p] = j]
  BY <1>1 DEF AtOK
<1> QED
  BY <1>3, <1>4 DEF Goes, AtOK

\* Program p's place becomes j.
LEMMA PlaceIs ==
  ASSUME AtOK, NEW p \in Proc, NEW j \in Call, at' = [at EXCEPT ![p] = j]
  PROVE  Goes(p, j.pc) /\ at'[p] = j
BY DEF AtOK, Goes

\* _pipeisclosed is called for itself.
LEMMA ProbeGoes ==
  ASSUME AtOK, NEW p \in Proc, NEW n \in Num, NEW pc \in {"count"}, NEW back \in {"run"},
         at' = [at EXCEPT ![p].pc = pc, ![p].num = n, ![p].back = back]
  PROVE  Goes(p, pc) /\ at'[p].back = back
<1>1. at[p] \in Call
  BY DEF AtOK
<1>2. PICK i : i = [at[p] EXCEPT !.pc = pc, !.num = n]
  OBVIOUS
<1>3. i \in Call /\ i.pc = pc
  BY <1>1, <1>2 DEF Call
<1>4. PICK j : j = [i EXCEPT !.back = back]
  OBVIOUS
<1>5. j \in Call /\ j.pc = pc /\ j.back = back
  BY <1>3, <1>4 DEF Call
<1>6. PICK g : g = [at EXCEPT ![p] = i]
  OBVIOUS
<1>7. g = [at EXCEPT ![p].pc = pc, ![p].num = n]
  BY <1>2, <1>6 DEF AtOK
<1>8. at' = [g EXCEPT ![p].back = back]
  BY <1>7, Zenon
<1>9. at' = [at EXCEPT ![p] = j]
  BY <1>4, <1>6, <1>8 DEF AtOK
<1>10. Goes(p, j.pc) /\ at'[p] = j
  BY <1>5, <1>9, PlaceIs
<1> QED
  BY <1>5, <1>10

\* It has counted the descriptor pages.
LEMMA CountGoes ==
  ASSUME AtOK, NEW p \in Proc, NEW k \in Nat, NEW pc \in {"compare"},
         at' = [at EXCEPT ![p].pc = pc, ![p].arg = k]
  PROVE  Goes(p, pc) /\ at'[p].back = at[p].back
<1>1. PICK j : j = [at[p] EXCEPT !.pc = pc, !.arg = k]
  OBVIOUS
<1>2. at[p] \in Call
  BY DEF AtOK
<1>3. j \in Call /\ j.pc = pc /\ j.back = at[p].back
  BY <1>1, <1>2 DEF Call
<1>4. at' = [at EXCEPT ![p] = j]
  BY <1>1 DEF AtOK
<1> QED
  BY <1>3, <1>4 DEF Goes, AtOK

\* It has counted the pipe's.
LEMMA CompareGoes ==
  ASSUME AtOK, NEW p \in Proc, NEW pc \in {"count", "closed", "run", "rtest", "wtest"},
         at' = [at EXCEPT ![p].arg = None, ![p].pc = pc]
  PROVE  Goes(p, pc) /\ at'[p].back = at[p].back
<1>1. PICK j : j = [at[p] EXCEPT !.arg = None, !.pc = pc]
  OBVIOUS
<1>2. at[p] \in Call
  BY DEF AtOK
<1>3. j \in Call /\ j.pc = pc /\ j.back = at[p].back
  BY <1>1, <1>2 DEF Call
<1>4. at' = [at EXCEPT ![p] = j]
  BY <1>1 DEF AtOK
<1> QED
  BY <1>3, <1>4 DEF Goes, AtOK

\* A step that leaves bytes and CPUs alone.
LEMMA CallKeeps ==
  ASSUME IInv, UNCHANGED <<on, moved>>, Quiet, PagesOK', AtOK', Embryos'
  PROVE  IInv'
<1>1. OnOK'
  BY TypeParts DEF IInv, OnOK
<1> QED
  BY <1>1, QuietKeeps

\* devpipe_close unmaps two pages; no byte moves.
LEMMA CloseKeeps ==
  ASSUME IInv, NEW p \in Proc, NEW n \in Num, Close(p, n)
  PROVE  IInv'
<1>1. PagesOK /\ AtOK
  BY TypeParts DEF IInv
<1>2. UNCHANGED <<on, moved>> /\ UNCHANGED pipe
  BY DEF Close
<1>3. PagesOK'
  BY <1>1, UnmapType DEF Close
<1>4. \/ Goes(p, "close") /\ at[p].pc = "run"
      \/ Goes(p, "run") /\ at[p].pc = "close"
  <2>1. CASE Step(p, "run") /\ at' = [at EXCEPT ![p].pc = "close", ![p].num = n]
    BY <1>1, <2>1, BeginGoes DEF Step
  <2>2. CASE Step(p, "close") /\ Return(p)
    BY <1>1, <2>2, ReturnGoes DEF Step
  <2> QED
    BY <2>1, <2>2 DEF Close
<1>5. Quiet /\ Embryos'
  BY <1>2, <1>4, OtherGoes DEF Other, IInv
<1> QED
  BY <1>2, <1>3, <1>4, <1>5, CallKeeps DEF Goes, AtOK

\* What dup() notes before it closes or maps.
LEMMA DupCall ==
  ASSUME AtOK, NEW p \in Proc, NEW n \in Num, NEW m \in Num, NEW pc \in {"dup", "dupClose"},
         at' = [at EXCEPT ![p].pc = pc, ![p].num = n, ![p].arg = m]
  PROVE  \E j \in Call : j.pc = pc /\ at' = [at EXCEPT ![p] = j]
<1>1. PICK j : j = [at[p] EXCEPT !.pc = pc, !.num = n, !.arg = m]
  OBVIOUS
<1>2. at[p] \in Call
  BY DEF AtOK
<1>3. j \in Call /\ j.pc = pc
  BY <1>1, <1>2 DEF Call
<1>4. at' = [at EXCEPT ![p] = j]
  BY <1>1 DEF AtOK
<1> QED
  BY <1>3, <1>4

\* Nor in dup().
LEMMA DupKeeps ==
  ASSUME IInv, NEW p \in Proc, NEW n \in Num, NEW m \in Num, Dup(p, n, m)
  PROVE  IInv'
<1>1. PagesOK /\ AtOK
  BY TypeParts DEF IInv
<1>2. UNCHANGED <<on, moved>> /\ UNCHANGED pipe
  BY DEF Dup
<1>3. PagesOK'
  <2>1. CASE UNCHANGED pages
    BY <1>1, <2>1 DEF PagesOK, pages
  <2>2. ASSUME NEW page, Unmap(p, m, page) PROVE PagesOK'
    BY <1>1, <2>2, UnmapType
  <2>3. ASSUME NEW page, Map(p, n, p, m, page) PROVE PagesOK'
    BY <1>1, <2>3, MapType
  <2> QED
    BY <2>1, <2>2, <2>3 DEF Dup
<1>4. \E pc \in Other : Goes(p, pc) /\ at[p].pc \in Other
  <2>1. CASE Step(p, "run") /\ at' = [at EXCEPT ![p].pc = "dup", ![p].num = n, ![p].arg = m]
    <3>1. PICK j \in Call : j.pc = "dup" /\ at' = [at EXCEPT ![p] = j]
      BY <1>1, <2>1, DupCall
    <3>2. Goes(p, "dup")
      BY <1>1, <3>1 DEF Goes, AtOK
    <3> QED
      BY <2>1, <3>2 DEF Other, Step
  <2>2. CASE Step(p, "run") /\ at' = [at EXCEPT ![p].pc = "dupClose", ![p].num = n, ![p].arg = m]
    <3>1. PICK j \in Call : j.pc = "dupClose" /\ at' = [at EXCEPT ![p] = j]
      BY <1>1, <2>2, DupCall
    <3>2. Goes(p, "dupClose")
      BY <1>1, <3>1 DEF Goes, AtOK
    <3> QED
      BY <2>2, <3>2 DEF Other, Step
  <2>3. CASE Step(p, "dupClose") /\ Goto(p, "dup")
    <3>1. Goes(p, "dup")
      BY <1>1, <2>3 DEF Goes, AtOK, Call, Goto
    <3> QED
      BY <2>3, <3>1 DEF Other, Step
  <2>4. CASE Step(p, "dup") /\ Goto(p, "dup2")
    <3>1. Goes(p, "dup2")
      BY <1>1, <2>4 DEF Goes, AtOK, Call, Goto
    <3> QED
      BY <2>4, <3>1 DEF Other, Step
  <2>5. CASE Step(p, "dup2") /\ Return(p)
    BY <1>1, <2>5, ReturnGoes DEF Other, Step
  <2> QED
    BY <2>1, <2>2, <2>3, <2>4, <2>5 DEF Dup
<1>5. Quiet /\ Embryos'
  BY <1>2, <1>4, OtherGoes DEF Other, IInv
<1> QED
  BY <1>2, <1>3, <1>4, <1>5, CallKeeps DEF Goes, AtOK

\* A child begins outside of any call.
LEMMA ForkKeeps ==
  ASSUME IInv, NEW p \in Proc, NEW q \in Proc, Fork(p, q)
  PROVE  IInv'
<1>1. PagesOK /\ AtOK
  BY TypeParts DEF IInv
<1>2. UNCHANGED <<on, moved>> /\ UNCHANGED pipe
  BY DEF Fork
<1>3. PagesOK'
  <2>1. CASE UNCHANGED pages
    BY <1>1, <2>1 DEF PagesOK, pages
  <2>2. ASSUME NEW n \in Num, NEW page, Map(p, n, q, n, page) PROVE PagesOK'
    BY <1>1, <2>2, MapType
  <2> QED
    BY <2>1, <2>2 DEF Fork
<1>4. CASE UNCHANGED at
  BY <1>1, <1>2, <1>3, <1>4, CallKeeps DEF IInv, Embryos, Quiet, AtOK, InRead, InWrite, In
<1>5. CASE /\ at[p].pc = "run" /\ at[q].pc = "none"
           /\ at' = [at EXCEPT ![p].pc = "fork", ![p].arg = q, ![q].pc = "embryo"]
  <2>1. AtOK' /\ p # q
    BY <1>1, <1>5 DEF AtOK, Call
  <2>2. /\ at'[p].pc = "fork" /\ at'[p].arg = q /\ at'[q].pc = "embryo"
        /\ \A r \in Proc \ {p, q} : at'[r] = at[r]
    BY <1>1, <1>5, <2>1 DEF AtOK, Call
  <2>3. \A r \in Proc \ {p, q} : InRead(r)' = InRead(r) /\ InWrite(r)' = InWrite(r)
    BY <2>2 DEF InRead, InWrite, In
  <2>4. ~ InRead(p)' /\ ~ InWrite(p)' /\ ~ InRead(q)' /\ ~ InWrite(q)'
    BY <2>2 DEF InRead, InWrite, In
  <2>5. Quiet
    BY <1>2, <1>5, <2>2, <2>3, <2>4 DEF Quiet
  <2>6. \A r \in Proc : at[r].pc = "fork" => at[r].arg \notin {p, q}
    BY <1>5 DEF IInv, Embryos
  <2>7. Embryos'
    BY <2>1, <2>2, <2>6 DEF IInv, Embryos
  <2> QED
    BY <1>2, <1>3, <2>1, <2>5, <2>7, CallKeeps
<1>6. CASE /\ at[p].pc = "fork" /\ at[p].arg = q
           /\ at' = [at EXCEPT ![p] = Idle, ![q] = Idle]
  <2>1. /\ AtOK' /\ at'[p].pc = "run" /\ at'[q].pc = "run" /\ at[q].pc = "embryo"
        /\ \A r \in Proc \ {p, q} : at'[r] = at[r]
    BY <1>1, <1>6, IdleIsCall DEF IInv, AtOK, Embryos
  <2>2. \A r \in Proc \ {p, q} : InRead(r)' = InRead(r) /\ InWrite(r)' = InWrite(r)
    BY <2>1 DEF InRead, InWrite, In
  <2>3. ~ InRead(p)' /\ ~ InWrite(p)' /\ ~ InRead(q)' /\ ~ InWrite(q)'
    BY <2>1 DEF InRead, InWrite, In
  <2>4. Quiet
    BY <1>2, <1>6, <2>1, <2>2, <2>3 DEF Quiet
  <2>5. Embryos'
    <3> SUFFICES ASSUME NEW r \in Proc, at'[r].pc = "fork"
                 PROVE  /\ at'[r].arg \in Proc /\ at'[at'[r].arg].pc = "embryo"
                        /\ \A t \in Proc \ {r} : at'[t].pc = "fork" => at'[t].arg # at'[r].arg
      BY DEF Embryos
    <3>1. r \notin {p, q} /\ at'[r] = at[r]
      BY <2>1
    <3>2. /\ at[r].arg \in Proc /\ at[at[r].arg].pc = "embryo" /\ at[r].arg # q
          /\ \A t \in Proc \ {r} : at[t].pc = "fork" => at[t].arg # at[r].arg
      BY <1>6, <3>1 DEF IInv, Embryos
    <3>3. at'[at[r].arg].pc = "embryo"
      BY <1>6, <2>1, <3>2
    <3> QED
      BY <2>1, <3>1, <3>2, <3>3
  <2> QED
    BY <1>2, <1>3, <2>1, <2>4, <2>5, CallKeeps
<1> QED
  BY <1>4, <1>5, <1>6 DEF Fork, Step
\* One program goes on, with the role it has.
LEMMA GoesKeeps ==
  ASSUME IInv, UNCHANGED <<on, moved, pages, pipe>>, NEW p \in Proc, NEW pc, Goes(p, pc),
         pc \notin {"rtake", "radvance", "wstore", "wadvance", "fork"},
         at[p].pc \notin {"radvance", "gone", "embryo"},
         InRead(p)' => InRead(p) \/ p = Reader,
         InWrite(p)' => InWrite(p) \/ (p = Writer /\ wpos < MaxBytes)
  PROVE  IInv'
<1>1. Quiet
  BY OneGoes
<1>2. Embryos'
  BY EmbryosStay DEF IInv
<1>3. PagesOK' /\ AtOK'
  BY TypeParts DEF IInv, PagesOK, AtOK, pages, Goes
<1> QED
  BY <1>1, <1>2, <1>3, CallKeeps

\* _pipeisclosed
LEMMA PipeIsClosedKeeps ==
  ASSUME IInv, NEW p \in Proc, NEW n \in Num, PipeIsClosed(p, n)
  PROVE  IInv'
<1>1. AtOK
  BY TypeParts DEF IInv
<1>2. UNCHANGED <<on, moved, pages, pipe>>
  BY DEF PipeIsClosed
<1>3. CASE /\ Step(p, "run")
           /\ at' = [at EXCEPT ![p].pc = "count", ![p].num = n, ![p].back = "run"]
  <2>1. Goes(p, "count") /\ at'[p].back = "run"
    BY <1>1, <1>3, ProbeGoes
  <2>2. ~ InRead(p)' /\ ~ InWrite(p)'
    BY <2>1 DEF Goes, InRead, InWrite, In
  <2> QED
    BY <1>2, <1>3, <2>1, <2>2, GoesKeeps DEF Step
<1>4. CASE Step(p, "closed") /\ Return(p)
  <2>1. Goes(p, "run")
    BY <1>1, <1>4, ReturnGoes
  <2>2. ~ InRead(p)' /\ ~ InWrite(p)'
    BY <2>1 DEF Goes, InRead, InWrite, In
  <2> QED
    BY <1>2, <1>4, <2>1, <2>2, GoesKeeps DEF Step
<1> QED
  BY <1>3, <1>4 DEF PipeIsClosed

\* There are only so many descriptors.
LEMMA RefsType == \A end : FdRefs(end) \in Nat
<1> TAKE end
<1>1. IsFiniteSet(Proc \X Num)
  BY PipeAssumption, FS_Product
<1>2. {x \in Proc \X Num : fd[x[1]][x[2]] = end} \subseteq Proc \X Num
  OBVIOUS
<1> QED
  BY <1>1, <1>2, FS_Subset, FS_CardinalityType DEF FdRefs

\* The count it takes is a number: it plays no part for the bytes.
LEMMA CountKeeps ==
  ASSUME IInv, NEW p \in Proc, Count(p)
  PROVE  IInv'
<1>1. AtOK
  BY TypeParts DEF IInv
<1>2. PICK k \in Nat : at' = [at EXCEPT ![p].pc = "compare", ![p].arg = k]
  BY RefsType DEF Count
<1>3. /\ UNCHANGED <<on, moved, pages, pipe>> /\ at[p].pc = "count"
  BY DEF Count, Step
<1>4. Goes(p, "compare") /\ at'[p].back = at[p].back
  BY <1>1, <1>2, CountGoes
<1>5. (InRead(p)' => InRead(p)) /\ (InWrite(p)' => InWrite(p))
  BY <1>3, <1>4 DEF Goes, InRead, InWrite, In
<1> QED
  BY <1>3, <1>4, <1>5, GoesKeeps

\* It counts again, the call returns 0, or it goes back into the loop it came from.
LEMMA CompareKeeps ==
  ASSUME IInv, NEW p \in Proc, Compare(p)
  PROVE  IInv'
<1>1. PagesOK /\ AtOK /\ OnOK
  BY TypeParts DEF IInv
<1>2. /\ UNCHANGED pages /\ UNCHANGED pipe /\ on' = on /\ moved' = moved \ {p}
      /\ at[p].pc = "compare" /\ at[p].back \in {"run", "rtest", "wtest"}
  BY <1>1 DEF Compare, Step, AtOK, Call
<1>3. PICK pc \in {"count", "closed", at[p].back} :
        at' = [at EXCEPT ![p].arg = None, ![p].pc = pc]
  BY DEF Compare
<1>4. pc \in {"count", "closed", "run", "rtest", "wtest"}
  BY <1>2
<1>5. Goes(p, pc) /\ at'[p].back = at[p].back
  BY <1>1, <1>3, <1>4, CompareGoes
<1>6. InRead(p)' => InRead(p)
  BY <1>2, <1>5 DEF Goes, InRead, In
<1>7. InWrite(p)' => InWrite(p)
  BY <1>2, <1>5 DEF Goes, InWrite, In
<1>8. Quiet
  BY <1>2, <1>4, <1>5, <1>6, <1>7, OneGoes
<1>9. Embryos'
  BY <1>2, <1>4, <1>5, EmbryosStay DEF IInv
<1>10. PagesOK' /\ AtOK' /\ OnOK'
  BY <1>1, <1>2, <1>5 DEF PagesOK, pages, Goes, AtOK, OnOK
<1> QED
  BY <1>8, <1>9, <1>10, QuietKeeps

\* devpipe_read and devpipe_write begin.
LEMMA ReadKeeps ==
  ASSUME IInv, NEW p \in Proc, NEW n \in Num, Read(p, n)
  PROVE  IInv'
<1>1. AtOK
  BY TypeParts DEF IInv
<1>2. /\ UNCHANGED <<on, moved, pages, pipe>> /\ at[p].pc = "run" /\ p = Reader
      /\ at' = [at EXCEPT ![p].pc = "rtest", ![p].num = n]
  BY DEF Read, Step
<1>3. Goes(p, "rtest")
  BY <1>1, <1>2, BeginGoes
<1>4. ~ InWrite(p)'
  BY <1>3 DEF Goes, InWrite, In
<1> QED
  BY <1>2, <1>3, <1>4, GoesKeeps

\* The writer has something to write.
LEMMA WriteKeeps ==
  ASSUME IInv, NEW p \in Proc, NEW n \in Num, Write(p, n)
  PROVE  IInv'
<1>1. AtOK
  BY TypeParts DEF IInv
<1>2. /\ UNCHANGED <<on, moved, pages, pipe>> /\ at[p].pc = "run" /\ p = Writer
      /\ wpos < MaxBytes /\ at' = [at EXCEPT ![p].pc = "wtest", ![p].num = n]
  BY DEF Write, Step
<1>3. Goes(p, "wtest")
  BY <1>1, <1>2, BeginGoes
<1>4. ~ InRead(p)'
  BY <1>3 DEF Goes, InRead, In
<1> QED
  BY <1>2, <1>3, <1>4, GoesKeeps
-----------------------------------------------------------------------------
(* Steps that look at a byte, or move one                                   *)

\* Where a loop of devpipe_read or devpipe_write goes on.
LEMMA GotoGoes ==
  ASSUME AtOK, NEW p \in Proc,
         NEW pc \in {"rtake", "radvance", "wtest", "wstore", "wadvance"}, Goto(p, pc)
  PROVE  Goes(p, pc)
<1>1. PICK j : j = [at[p] EXCEPT !.pc = pc]
  OBVIOUS
<1>2. at[p] \in Call
  BY DEF AtOK
<1>3. j \in Call /\ j.pc = pc
  BY <1>1, <1>2 DEF Call
<1>4. at' = [at EXCEPT ![p] = j]
  BY <1>1 DEF AtOK, Goto
<1> QED
  BY <1>3, <1>4 DEF Goes, AtOK

\* _pipeisclosed is called from a loop, and comes back to it.
LEMMA CheckGoes ==
  ASSUME AtOK, NEW p \in Proc, NEW back \in {"rtest", "wtest"}, Check(p, back)
  PROVE  Goes(p, "count") /\ at'[p].back = back
<1>1. PICK j : j = [at[p] EXCEPT !.pc = "count", !.back = back]
  OBVIOUS
<1>2. at[p] \in Call
  BY DEF AtOK
<1>3. j \in Call /\ j.pc = "count" /\ j.back = back
  BY <1>1, <1>2 DEF Call
<1>4. at' = [at EXCEPT ![p] = j]
  BY <1>1 DEF AtOK, Check
<1> QED
  BY <1>3, <1>4 DEF Goes, AtOK

\* Such a step: the other programs keep their roles and p has its own; what is
\* to show is said about the bytes.
LEMMA ByteStepKeeps ==
  ASSUME IInv, UNCHANGED <<on, moved, pages>>, NEW p \in Proc, NEW pc, Goes(p, pc),
         pc # "fork", at[p].pc # "embryo",
         InRead(p)' => p = Reader, InWrite(p)' => p = Writer,
         InWrite(Writer)' => wpos' < MaxBytes,
         BytesOK', Taken', Buffered'
  PROVE  IInv'
<1>1. \A q \in Proc \ {p} : InRead(q)' = InRead(q) /\ InWrite(q)' = InWrite(q)
  BY DEF Goes, InRead, InWrite, In
<1>2. Roles'
  BY <1>1 DEF IInv, Roles
<1>3. Embryos'
  BY EmbryosStay DEF IInv
<1>4. PagesOK' /\ AtOK' /\ OnOK'
  BY TypeParts DEF IInv, PagesOK, pages, Goes, AtOK, OnOK
<1>5. TypeOK' /\ IsFiniteSet(on)'
  BY <1>4 DEF TypeOK, PagesOK, BytesOK, AtOK, OnOK, Call
<1> QED
  BY <1>2, <1>3, <1>5 DEF IInv

\* What the numbers are.
LEMMA Numbers ==
  ASSUME IInv
  PROVE  /\ Size \in Nat \ {0} /\ MaxBytes \in Nat /\ Reader \in Proc /\ Writer \in Proc
         /\ rpos \in Nat /\ wpos \in Nat /\ wpos <= MaxBytes
         /\ Len(got) \in Nat /\ got \in Seq(0 .. MaxBytes) /\ AtOK /\ BytesOK
<1>1. Size \in Nat \ {0} /\ MaxBytes \in Nat /\ Reader \in Proc /\ Writer \in Proc
  BY PipeAssumption
<1>2. AtOK /\ BytesOK
  BY TypeParts DEF IInv
<1> QED
  BY <1>1, <1>2 DEF BytesOK

\* There is a byte, the call ends with what it has, or it must wait.
LEMMA ReadTestKeeps ==
  ASSUME IInv, NEW p \in Proc, ReadTest(p)
  PROVE  IInv'
<1>1. /\ UNCHANGED <<on, moved, pages, pipe>> /\ at[p].pc = "rtest"
  BY DEF ReadTest, Step
<1>2. p = Reader
  BY <1>1 DEF IInv, Roles, InRead, In
<1>3. CASE ~ Empty /\ Goto(p, "rtake")
  <2>1. Goes(p, "rtake")
    BY <1>3, GotoGoes, Numbers
  <2>2. rpos < wpos
    BY <1>3, Numbers DEF IInv, Taken, Empty
  <2>3. BytesOK'
    BY <1>1, Numbers DEF BytesOK, pipe
  <2>4. Taken'
    <3>1. at'[Reader].pc = "rtake" /\ Len(got) = rpos
      BY <1>1, <1>2, <2>1, Numbers DEF IInv, Taken, Goes
    <3> QED
      BY <1>1, <2>2, <3>1, Numbers DEF IInv, Taken, pipe
  <2>5. Buffered'
    <3>1. at'[Writer].pc \in {"wstore", "wadvance"} => at'[Writer].pc = at[Writer].pc
      BY <2>1, Numbers DEF Goes
    <3> QED
      BY <1>1, <3>1 DEF IInv, Buffered, Stored, pipe
  <2>6. InWrite(Writer)' => wpos' < MaxBytes
    BY <1>1, <2>1, Numbers DEF IInv, Roles, InWrite, In, Goes, pipe
  <2>7. ~ InWrite(p)'
    BY <2>1 DEF Goes, InWrite, In
  <2> QED
    BY <1>1, <1>2, <2>1, <2>3, <2>4, <2>5, <2>6, <2>7, ByteStepKeeps
<1>4. CASE Return(p)
  <2>1. Goes(p, "run")
    BY <1>4, ReturnGoes, Numbers
  <2>2. ~ InWrite(p)'
    BY <2>1 DEF Goes, InWrite, In
  <2> QED
    BY <1>1, <1>2, <2>1, <2>2, GoesKeeps
<1>5. CASE Check(p, "rtest")
  <2>1. Goes(p, "count") /\ at'[p].back = "rtest"
    BY <1>5, CheckGoes, Numbers
  <2>2. ~ InWrite(p)'
    BY <2>1 DEF Goes, InWrite, In
  <2> QED
    BY <1>1, <1>2, <2>1, <2>2, GoesKeeps
<1> QED
  BY <1>3, <1>4, <1>5 DEF ReadTest

\* The byte at p_rpos is the next one: it is still stored.
LEMMA ReadTakeKeeps ==
  ASSUME IInv, NEW p \in Proc, ReadTake(p)
  PROVE  IInv'
<1>1. /\ UNCHANGED <<on, moved, pages>> /\ UNCHANGED <<buf, rpos, wpos>>
      /\ at[p].pc = "rtake" /\ Goto(p, "radvance")
      /\ got' = Append(got, buf[rpos % Size])
  BY DEF ReadTake, Step
<1>2. p = Reader
  BY <1>1 DEF IInv, Roles, InRead, In
<1>3. Goes(p, "radvance")
  BY <1>1, GotoGoes, Numbers
<1>4. Len(got) = rpos /\ rpos < wpos
  BY <1>1, <1>2, Numbers DEF IInv, Taken
<1>5. buf[rpos % Size] = rpos + 1 /\ rpos + 1 \in 0 .. MaxBytes
  BY <1>4, Numbers DEF IInv, Buffered, Stored
<1>6. /\ got' \in Seq(0 .. MaxBytes) /\ Len(got') = rpos + 1
      /\ \A k \in 1 .. rpos : got'[k] = got[k]
      /\ got'[rpos + 1] = rpos + 1
  BY <1>1, <1>4, <1>5, Numbers
<1>7. BytesOK'
  BY <1>1, <1>6, Numbers DEF BytesOK
<1>8. Taken'
  <2>1. at'[Reader].pc = "radvance"
    BY <1>2, <1>3 DEF Goes
  <2>2. ASSUME NEW k \in 1 .. rpos + 1 PROVE got'[k] = k
    <3>1. CASE k = rpos + 1
      BY <1>6, <3>1
    <3>2. CASE k \in 1 .. rpos
      BY <1>4, <1>6, <3>2 DEF IInv, Taken
    <3> QED
      BY <3>1, <3>2, Numbers
  <2> QED
    BY <1>1, <1>4, <1>6, <2>1, <2>2, Numbers DEF IInv, Taken
<1>9. Buffered'
  <2>1. at'[Writer].pc \in {"wstore", "wadvance"} => at'[Writer].pc = at[Writer].pc
    BY <1>3, Numbers DEF Goes
  <2> QED
    BY <1>1, <2>1 DEF IInv, Buffered, Stored
<1>10. InWrite(Writer)' => wpos' < MaxBytes
  BY <1>1, <1>3, Numbers DEF IInv, Roles, InWrite, In, Goes
<1>11. ~ InWrite(p)'
  BY <1>3 DEF Goes, InWrite, In
<1> QED
  BY <1>1, <1>2, <1>3, <1>7, <1>8, <1>9, <1>10, <1>11, ByteStepKeeps
\* p_rpos catches up with what was taken: that place is free.
LEMMA ReadAdvanceKeeps ==
  ASSUME IInv, NEW p \in Proc, ReadAdvance(p)
  PROVE  IInv'
<1>1. /\ UNCHANGED <<on, moved, pages>> /\ UNCHANGED <<buf, wpos, got>>
      /\ at[p].pc = "radvance" /\ rpos' = rpos + 1
  BY DEF ReadAdvance, Step
<1>2. p = Reader
  BY <1>1 DEF IInv, Roles, InRead, In
<1>3. PICK pc \in {"run", "rtest"} : Goes(p, pc)
  <2>1. CASE Return(p)
    BY <2>1, ReturnGoes, Numbers
  <2>2. CASE at' = [at EXCEPT ![p].pc = "rtest", ![p].some = TRUE]
    <3>1. PICK j : j = [at[p] EXCEPT !.pc = "rtest", !.some = TRUE]
      OBVIOUS
    <3>2. at[p] \in Call
      BY Numbers DEF AtOK
    <3>3. j \in Call /\ j.pc = "rtest"
      BY <3>1, <3>2 DEF Call
    <3>4. at' = [at EXCEPT ![p] = j]
      BY <2>2, <3>1, Numbers DEF AtOK
    <3> QED
      BY <3>3, <3>4, Numbers DEF Goes, AtOK
  <2> QED
    BY <2>1, <2>2 DEF ReadAdvance
<1>4. Len(got) = rpos + 1 /\ rpos + 1 <= wpos
  BY <1>1, <1>2, Numbers DEF IInv, Taken
<1>5. BytesOK'
  BY <1>1, <1>4, Numbers DEF BytesOK
<1>6. Taken'
  <2>1. at'[Reader].pc \in {"run", "rtest"}
    BY <1>2, <1>3 DEF Goes
  <2> QED
    BY <1>1, <1>4, <2>1, Numbers DEF IInv, Taken
<1>7. Buffered'
  <2>1. at'[Writer].pc \in {"wstore", "wadvance"} => at'[Writer].pc = at[Writer].pc
    BY <1>3, Numbers DEF Goes
  <2>2. \A k \in rpos + 1 .. wpos - 1 : Stored(k)
    BY Numbers DEF IInv, Buffered
  <2> QED
    BY <1>1, <2>1, <2>2, Numbers DEF IInv, Buffered, Stored
<1>8. InWrite(Writer)' => wpos' < MaxBytes
  BY <1>1, <1>3, Numbers DEF IInv, Roles, InWrite, In, Goes
<1>9. ~ InWrite(p)'
  BY <1>3 DEF Goes, InWrite, In
<1> QED
  BY <1>1, <1>2, <1>3, <1>5, <1>6, <1>7, <1>8, <1>9, ByteStepKeeps

\* There is room for a byte, or the writer must wait.
LEMMA WriteTestKeeps ==
  ASSUME IInv, NEW p \in Proc, WriteTest(p)
  PROVE  IInv'
<1>1. /\ UNCHANGED <<on, moved, pages, pipe>> /\ at[p].pc = "wtest"
  BY DEF WriteTest, Step
<1>2. p = Writer /\ wpos < MaxBytes
  BY <1>1 DEF IInv, Roles, InWrite, In
<1>3. CASE ~ Full /\ Goto(p, "wstore")
  <2>1. Goes(p, "wstore")
    BY <1>3, GotoGoes, Numbers
  <2>2. wpos < rpos + Size
    BY <1>3, Numbers DEF Full
  <2>3. BytesOK'
    BY <1>1, Numbers DEF BytesOK, pipe
  <2>4. Taken'
    <3>1. CASE at'[Reader] = at[Reader]
      BY <1>1, <3>1 DEF IInv, Taken, pipe
    <3>2. CASE Reader = p
      <4>1. Len(got) = rpos /\ at'[Reader].pc = "wstore"
        BY <1>1, <2>1, <3>2, Numbers DEF IInv, Taken, Goes
      <4> QED
        BY <1>1, <4>1, Numbers DEF IInv, Taken, pipe
    <3> QED
      BY <2>1, <3>1, <3>2, Numbers DEF Goes
  <2>5. Buffered'
    <3>1. at'[Writer].pc = "wstore"
      BY <1>2, <2>1 DEF Goes
    <3> QED
      BY <1>1, <2>2, <3>1 DEF IInv, Buffered, Stored, pipe
  <2>6. ~ InRead(p)'
    BY <2>1 DEF Goes, InRead, In
  <2>7. wpos' < MaxBytes
    BY <1>1, <1>2 DEF pipe
  <2> QED
    BY <1>1, <1>2, <2>1, <2>3, <2>4, <2>5, <2>6, <2>7, ByteStepKeeps
<1>4. CASE Check(p, "wtest")
  <2>1. Goes(p, "count") /\ at'[p].back = "wtest"
    BY <1>4, CheckGoes, Numbers
  <2>2. ~ InRead(p)'
    BY <2>1 DEF Goes, InRead, In
  <2> QED
    BY <1>1, <1>2, <2>1, <2>2, GoesKeeps
<1> QED
  BY <1>3, <1>4 DEF WriteTest

\* The byte goes into a place that holds none the reader has not taken.
LEMMA WriteStoreKeeps ==
  ASSUME IInv, NEW p \in Proc, WriteStore(p)
  PROVE  IInv'
<1>1. /\ UNCHANGED <<on, moved, pages>> /\ UNCHANGED <<rpos, wpos, got>>
      /\ at[p].pc = "wstore" /\ Goto(p, "wadvance")
      /\ buf' = [buf EXCEPT ![wpos % Size] = wpos + 1]
  BY DEF WriteStore, Step
<1>2. p = Writer /\ wpos < MaxBytes
  BY <1>1 DEF IInv, Roles, InWrite, In
<1>3. Goes(p, "wadvance")
  BY <1>1, GotoGoes, Numbers
<1>4. wpos < rpos + Size
  BY <1>1, <1>2 DEF IInv, Buffered
<1>5. wpos % Size \in 0 .. Size - 1 /\ wpos + 1 \in 0 .. MaxBytes
  <2>1. wpos \in Nat /\ MaxBytes \in Nat
    BY Numbers
  <2>2. wpos % Size \in 0 .. Size - 1
    BY <2>1, PlaceType
  <2> QED
    BY <1>2, <2>1, <2>2
<1>6. /\ buf' \in [0 .. Size - 1 -> 0 .. MaxBytes]
      /\ buf'[wpos % Size] = wpos + 1
      /\ \A i \in 0 .. Size - 1 : i # wpos % Size => buf'[i] = buf[i]
  BY <1>1, <1>5, Numbers DEF BytesOK
<1>7. BytesOK'
  BY <1>1, <1>6, Numbers DEF BytesOK
<1>8. Taken'
  <2>1. CASE at'[Reader] = at[Reader]
    BY <1>1, <2>1 DEF IInv, Taken
  <2>2. CASE Reader = p
    <3>1. Len(got) = rpos /\ at'[Reader].pc = "wadvance"
      BY <1>1, <1>3, <2>2, Numbers DEF IInv, Taken, Goes
    <3> QED
      BY <1>1, <3>1, Numbers DEF IInv, Taken
  <2> QED
    BY <1>3, <2>1, <2>2, Numbers DEF Goes
<1>9. Buffered'
  <2>1. ASSUME NEW k \in rpos .. wpos - 1 PROVE Stored(k)'
    <3>1. k \in Nat /\ k < wpos /\ wpos < k + Size
      BY <1>4, Numbers
    <3>2. k % Size # wpos % Size /\ k % Size \in 0 .. Size - 1
      BY <3>1, PlacesDiffer, PlaceType, Numbers
    <3>3. Stored(k)
      BY DEF IInv, Buffered
    <3> QED
      BY <1>6, <3>2, <3>3 DEF Stored
  <2>2. Stored(wpos)'
    BY <1>1, <1>6 DEF Stored
  <2> QED
    BY <1>1, <1>4, <2>1, <2>2 DEF Buffered, Stored
<1>10. ~ InRead(p)'
  BY <1>3 DEF Goes, InRead, In
<1> QED
  BY <1>1, <1>2, <1>3, <1>7, <1>8, <1>9, <1>10, ByteStepKeeps

\* "Wait to increment": the byte is there before it is counted.
LEMMA WriteAdvanceKeeps ==
  ASSUME IInv, NEW p \in Proc, WriteAdvance(p)
  PROVE  IInv'
<1>1. /\ UNCHANGED <<on, moved, pages>> /\ UNCHANGED <<buf, rpos, got>>
      /\ at[p].pc = "wadvance" /\ wpos' = wpos + 1
  BY DEF WriteAdvance, Step
<1>2. p = Writer /\ wpos < MaxBytes
  BY <1>1 DEF IInv, Roles, InWrite, In
<1>3. PICK pc \in {"run", "wtest"} : Goes(p, pc) /\ (pc = "wtest" => wpos' < MaxBytes)
  <2>1. CASE Return(p)
    BY <2>1, ReturnGoes, Numbers
  <2>2. CASE wpos' < MaxBytes /\ Goto(p, "wtest")
    BY <2>2, GotoGoes, Numbers
  <2> QED
    BY <2>1, <2>2 DEF WriteAdvance
<1>4. wpos < rpos + Size /\ Stored(wpos)
  BY <1>1, <1>2 DEF IInv, Buffered
<1>5. BytesOK'
  BY <1>1, <1>2, Numbers DEF BytesOK
<1>6. Taken'
  <2>1. CASE at'[Reader] = at[Reader]
    BY <1>1, <1>4, <2>1, Numbers DEF IInv, Taken
  <2>2. CASE Reader = p
    <3>1. Len(got) = rpos /\ at'[Reader].pc \in {"run", "wtest"}
      BY <1>1, <1>3, <2>2, Numbers DEF IInv, Taken, Goes
    <3> QED
      BY <1>1, <1>4, <3>1, Numbers DEF IInv, Taken
  <2> QED
    BY <1>3, <2>1, <2>2, Numbers DEF Goes
<1>7. Buffered'
  <2>1. \A k \in rpos .. wpos : Stored(k)
    BY <1>4, Numbers DEF IInv, Buffered
  <2>2. at'[Writer].pc \in {"run", "wtest"}
    BY <1>2, <1>3 DEF Goes
  <2> QED
    BY <1>1, <2>1, <2>2, Numbers DEF Buffered, Stored
<1>8. InWrite(Writer)' => wpos' < MaxBytes
  BY <1>2, <1>3 DEF Goes, InWrite, In
<1>9. ~ InRead(p)'
  BY <1>3 DEF Goes, InRead, In
<1> QED
  BY <1>1, <1>2, <1>3, <1>5, <1>6, <1>7, <1>8, <1>9, ByteStepKeeps

-----------------------------------------------------------------------------
(* The theorem *)

\* pipe() has returned, nothing is written.
LEMMA InitIInv == Init => IInv
<1> SUFFICES ASSUME Init PROVE IInv
  OBVIOUS
<1>1. Size \in Nat \ {0} /\ MaxBytes \in Nat /\ NCpu \in Nat \ {0}
      /\ {First, Reader, Writer} \subseteq Proc
  BY PipeAssumption
<1>2. \A p \in Proc : at[p] \in Call /\ at[p].pc \in {"run", "none"}
  BY DEF Init, Idle, Absent, Call
<1>3. AtOK
  BY <1>2 DEF Init, AtOK
<1>4. PagesOK
  BY DEF Init, PagesOK
<1>5. BytesOK
  BY <1>1 DEF Init, BytesOK
<1>6. OnOK
  <2>1. on = {First} /\ moved = {}
    BY DEF Init
  <2>2. IsFiniteSet(on) /\ Cardinality(on) = 1
    BY <2>1, FS_Singleton
  <2> QED
    BY <1>1, <2>1, <2>2 DEF OnOK
<1>7. Roles /\ Embryos
  BY <1>2 DEF Roles, InRead, InWrite, In, Embryos
<1>8. Taken
  BY <1>1, <1>2 DEF Init, Taken
<1>9. Buffered
  BY <1>1, <1>2 DEF Init, Buffered
<1>10. TypeOK /\ IsFiniteSet(on)
  BY <1>3, <1>4, <1>5, <1>6 DEF TypeOK, PagesOK, BytesOK, AtOK, OnOK, Call
<1> QED
  BY <1>7, <1>8, <1>9, <1>10 DEF IInv

\* One case per action of Next.
LEMMA NextIInv == IInv /\ [Next]_vars => IInv'
<1> SUFFICES ASSUME IInv, [Next]_vars PROVE IInv'
  OBVIOUS
<1>1. CASE UNCHANGED vars
  BY <1>1 DEF vars, IInv, TypeOK, Roles, InRead, InWrite, In, Embryos, Taken, Buffered, Stored
<1>2. ASSUME NEW p \in Proc, Calls(p) PROVE IInv'
  BY <1>2, CloseKeeps, ReadKeeps, WriteKeeps, PipeIsClosedKeeps, DupKeeps, ReadTestKeeps,
     ReadTakeKeeps, ReadAdvanceKeeps, WriteTestKeeps, WriteStoreKeeps, WriteAdvanceKeeps,
     CountKeeps, CompareKeeps, ScheduleKeeps, DestroyKeeps DEF Calls
<1>3. ASSUME NEW p \in Proc, NEW q \in Proc, Fork(p, q) PROVE IInv'
  BY <1>3, ForkKeeps
<1> QED
  BY <1>1, <1>2, <1>3 DEF Next

\* The inductive invariant holds throughout.
THEOREM SpecIInv == Spec => []IInv
BY InitIInv, NextIInv, PTL DEF Spec

\* The reader gets every byte once and in order, whatever part of the buffer
\* the writer is in (lib/pipe.c:131-134, 165-168).
THEOREM BytesComeInOrder == Spec => []BytesInOrder
<1>1. IInv => BytesInOrder
  <2> SUFFICES ASSUME IInv PROVE BytesInOrder
    OBVIOUS
  <2> QED
    BY Numbers DEF IInv, Taken, BytesInOrder
<1> QED
  BY <1>1, SpecIInv, PTL
-----------------------------------------------------------------------------
(* When an end is closed                                                    *)

\* p has counted once, and is on its CPU since: env_runs will not tell it of
\* what others do.
Unwarned(p) == at[p].pc = "compare" /\ p \in on /\ p \notin moved

\* No page of the pipe is mapped or unmapped, unless whoever is between its two
\* counts will be told by env_runs. One CPU sees to it; on several a program
\* may close an end while another counts.
Steady == UNCHANGED pages \/ \A p \in Proc : ~ Unwarned(p)'

\* Nobody compares while fork() has mapped descriptors whose pipes are still to
\* come.
ForksApart == \A p, q \in Proc : ~ (at[p].pc = "fork" /\ at[q].pc = "compare")

\* A descriptor page is mapped only where the pipe is, but in a child that
\* fork() is still mapping.
BackedAt(p) ==
  at[p].pc # "embryo" => \A n \in Num : fd[p][n] # None => data[p][n]

\* In the middle of close() and dup().
MidCallAt(p) ==
  /\ at[p].pc = "close" => fd[p][at[p].num] = None
  /\ at[p].pc \in {"dupClose", "dup", "dup2"} =>
       at[p].num \in Num /\ at[p].arg \in Num /\ at[p].num # at[p].arg
  /\ at[p].pc \in {"dupClose", "dup"} => fd[p][at[p].num] # None /\ fd[p][at[p].arg] = None
  /\ at[p].pc = "dup2" => data[p][at[p].arg]

Mapped == \A p \in Proc : BackedAt(p) /\ MidCallAt(p)

\* Who is unborn is being forked.
Parents ==
  \A q \in Proc : at[q].pc = "embryo" =>
    \E p \in Proc : at[p].pc = "fork" /\ at[p].arg = q

\* What a program has counted holds as long as it has not left the CPU.
Counting == \A p \in Proc : Unwarned(p) => at[p].arg = FdRefs(fd[p][at[p].num])

CInv == IInv /\ Mapped /\ Parents /\ Counting /\ ClosedMeansClosed

\* What ClosedMeansClosed says of one program.
Told(p) ==
  \A q \in Proc :
    /\ Closed(p, "R") => ~ Holds(q, "W")
    /\ Closed(p, "W") => ~ Holds(q, "R")

\* Nobody but p moves, and p's descriptors are ones it had.
Own(p) ==
  /\ p \in on /\ on' = on
  /\ \A q \in Proc \ {p} : q \in moved => q \in moved'
  /\ \A q \in Proc \ {p} : at'[q] = at[q] /\ fd'[q] = fd[q] /\ data'[q] = data[q]
  /\ \A m \in Num : fd'[p][m] = None \/ \E n \in Num : fd'[p][m] = fd[p][n]

\* No end is opened.
LEMMA OwnHolds ==
  ASSUME NEW p \in Proc, Own(p), NEW q \in Proc, NEW end \in {"R", "W"}, Holds(q, end)'
  PROVE  Holds(q, end)
<1>1. PICK m \in Num : fd'[q][m] = end
  BY DEF Holds
<1>2. end # None
  BY PipeAssumption
<1> QED
  BY <1>1, <1>2 DEF Own, Holds

\* Such a step keeps what is said of the other programs.
LEMMA OwnKeeps ==
  ASSUME CInv, Steady, IInv', NEW p \in Proc, Own(p),
         at[p].pc # "fork", at'[p].pc # "embryo",
         BackedAt(p)', MidCallAt(p)',
         at'[p].pc = "compare" => at'[p].arg = FdRefs(fd[p][at[p].num])',
         at'[p].pc = "closed" => Told(p)'
  PROVE  CInv'
<1>1. Mapped'
  <2> SUFFICES ASSUME NEW q \in Proc \ {p} PROVE BackedAt(q)' /\ MidCallAt(q)'
    BY DEF Mapped
  <2>1. BackedAt(q) /\ MidCallAt(q)
    BY DEF CInv, Mapped
  <2> QED
    BY <2>1 DEF Own, BackedAt, MidCallAt
<1>2. Parents'
  <2> SUFFICES ASSUME NEW q \in Proc, at'[q].pc = "embryo"
               PROVE  \E r \in Proc : at'[r].pc = "fork" /\ at'[r].arg = q
    BY DEF Parents
  <2>1. PICK r \in Proc : at[r].pc = "fork" /\ at[r].arg = q
    BY DEF CInv, Parents, Own
  <2> QED
    BY <2>1 DEF Own
<1>3. Counting'
  <2> SUFFICES ASSUME NEW q \in Proc, Unwarned(q)'
               PROVE  at'[q].arg = FdRefs(fd[q][at[q].num])'
    BY DEF Counting
  <2>1. CASE q = p
    BY <2>1 DEF Unwarned
  <2>2. CASE q # p
    <3>1. fd' = fd
      BY DEF Steady, pages
    <3>2. at'[q] = at[q] /\ Unwarned(q)
      BY <2>2 DEF Own, Unwarned
    <3> QED
      BY <3>1, <3>2 DEF CInv, Counting, FdRefs
  <2> QED
    BY <2>1, <2>2
<1>4. \A q \in Proc : Told(q)'
  <2>1. CASE at'[p].pc = "closed"
    <3> SUFFICES ASSUME NEW q \in Proc \ {p} PROVE Told(q)'
      BY <2>1
    <3>1. \A e \in {"R", "W"} : Closed(q, e)' => Closed(q, e)
      BY DEF Closed, Own
    <3>2. Told(q)
      BY DEF CInv, ClosedMeansClosed, Told
    <3> QED
      BY <3>1, <3>2, OwnHolds DEF Told
  <2>2. CASE at'[p].pc # "closed"
    <3> SUFFICES ASSUME NEW q \in Proc PROVE Told(q)'
      OBVIOUS
    <3>1. \A e \in {"R", "W"} : Closed(q, e)' => Closed(q, e)
      BY <2>2 DEF Closed, Own
    <3>2. Told(q)
      BY DEF CInv, ClosedMeansClosed, Told
    <3> QED
      BY <3>1, <3>2, OwnHolds DEF Told
  <2> QED
    BY <2>1, <2>2
<1>5. ClosedMeansClosed'
  BY <1>4 DEF ClosedMeansClosed, Told
<1> QED
  BY <1>1, <1>2, <1>3, <1>5 DEF CInv

\* Steps outside of close(), dup() and fork(): no page changes.
Still == {"run", "count", "rtest", "rtake", "radvance", "wtest", "wstore", "wadvance"}

\* A program goes on in such a step.
LEMMA StillKeeps ==
  ASSUME CInv, Steady, IInv', NEW p \in Proc, p \in on,
         UNCHANGED on, UNCHANGED pages, \A q \in Proc \ {p} : q \in moved => q \in moved',
         NEW pc \in Still, Goes(p, pc), at[p].pc \notin {"fork", "embryo"}
  PROVE  CInv'
<1>1. at'[p].pc = pc
      /\ pc \notin {"embryo", "compare", "closed", "close", "dupClose", "dup", "dup2"}
  BY DEF Goes, Still
<1>2. fd' = fd /\ data' = data
  BY DEF pages
<1>3. Own(p)
  BY <1>2 DEF Own, Goes
<1>4. BackedAt(p)'
  BY <1>2 DEF CInv, Mapped, BackedAt
<1>5. MidCallAt(p)'
  BY <1>1 DEF MidCallAt
<1> QED
  BY <1>1, <1>3, <1>4, <1>5, OwnKeeps

\* While somebody compares fork() is mapping no child.
LEMMA NoEmbryo ==
  ASSUME CInv, ForksApart, NEW p \in Proc, at[p].pc = "compare"
  PROVE  \A q \in Proc : at[q].pc # "embryo"
<1> SUFFICES ASSUME NEW q \in Proc, at[q].pc = "embryo" PROVE FALSE
  OBVIOUS
<1>1. PICK r \in Proc : at[r].pc = "fork"
  BY DEF CInv, Parents
<1> QED
  BY <1>1 DEF ForksApart

\* As many descriptors of one end as pipes: none of the other.
LEMMA Balance ==
  ASSUME CInv, ForksApart, NEW p \in Proc, at[p].pc = "compare",
         NEW e, NEW f, f # e, f # None, e # None, FdRefs(e) = PipeRefs
  PROVE  \A q \in Proc : ~ Holds(q, f)
<1>1. PICK all : all = Proc \X Num
  OBVIOUS
<1>2. PICK ends : ends = {x \in all : fd[x[1]][x[2]] = e}
  OBVIOUS
<1>3. PICK pipes : pipes = {x \in all : data[x[1]][x[2]]}
  OBVIOUS
<1>4. \A q \in Proc, n \in Num : fd[q][n] # None => data[q][n]
  BY NoEmbryo DEF CInv, Mapped, BackedAt
<1>5. ends \subseteq pipes
  BY <1>1, <1>2, <1>3, <1>4
<1>6. IsFiniteSet(pipes)
  <2>1. IsFiniteSet(all)
    BY <1>1, PipeAssumption, FS_Product
  <2>2. pipes \subseteq all
    BY <1>3
  <2> QED
    BY <2>1, <2>2, FS_Subset
<1>7. Cardinality(ends) = Cardinality(pipes)
  BY <1>1, <1>2, <1>3 DEF FdRefs, PipeRefs
<1>8. ends = pipes
  BY <1>5, <1>6, <1>7, FS_Subset
<1> SUFFICES ASSUME NEW q \in Proc, NEW n \in Num, fd[q][n] = f PROVE FALSE
  BY DEF Holds
<1>9. <<q, n>> \in pipes
  BY <1>1, <1>3, <1>4
<1>10. <<q, n>> \notin ends
  BY <1>2
<1> QED
  BY <1>8, <1>9, <1>10

\* Descriptors first, then pipes: what is closed has a pipe as long as a
\* descriptor.
LEMMA CloseKeepsCInv ==
  ASSUME CInv, Steady, IInv', NEW p \in Proc, NEW n \in Num, Close(p, n)
  PROVE  CInv'
<1>1. PagesOK /\ AtOK
  BY TypeParts DEF CInv, IInv
<1>2. p \in on /\ on' = on /\ moved' = moved
  BY DEF Close, Step
<1>3. CASE /\ Step(p, "run") /\ Unmap(p, n, "fd")
           /\ at' = [at EXCEPT ![p].pc = "close", ![p].num = n]
  <2>1. fd' = [fd EXCEPT ![p][n] = None] /\ data' = data
    BY <1>3 DEF Unmap
  <2>2. Goes(p, "close")
    BY <1>1, <1>3, BeginGoes
  <2>3. at'[p].num = n
    BY <1>1, <1>3 DEF AtOK, Call
  <2>4. fd'[p][n] = None /\ \A m \in Num \ {n} : fd'[p][m] = fd[p][m]
    BY <1>1, <2>1 DEF PagesOK
  <2>5. \A q \in Proc \ {p} : fd'[q] = fd[q]
    BY <1>1, <2>1 DEF PagesOK
  <2>6. Own(p)
    BY <1>2, <2>1, <2>2, <2>4, <2>5 DEF Own, Goes
  <2>7. BackedAt(p)'
    BY <1>3, <2>1, <2>4 DEF CInv, Mapped, BackedAt, Step
  <2>8. MidCallAt(p)'
    BY <2>2, <2>3, <2>4 DEF MidCallAt, Goes
  <2> QED
    BY <1>3, <2>2, <2>6, <2>7, <2>8, OwnKeeps DEF Goes, Step
<1>4. CASE Step(p, "close") /\ n = at[p].num /\ Unmap(p, n, "data") /\ Return(p)
  <2>1. data' = [data EXCEPT ![p][n] = FALSE] /\ fd' = fd
    BY <1>4 DEF Unmap
  <2>2. Goes(p, "run")
    BY <1>1, <1>4, ReturnGoes
  <2>3. data'[p][n] = FALSE /\ \A m \in Num \ {n} : data'[p][m] = data[p][m]
    BY <1>1, <2>1 DEF PagesOK
  <2>4. \A q \in Proc \ {p} : data'[q] = data[q]
    BY <1>1, <2>1 DEF PagesOK
  <2>5. Own(p)
    BY <1>2, <2>1, <2>2, <2>4 DEF Own, Goes
  <2>6. fd[p][n] = None
    BY <1>4 DEF CInv, Mapped, MidCallAt, Step
  <2>7. BackedAt(p)'
    BY <1>4, <2>1, <2>3, <2>6 DEF CInv, Mapped, BackedAt, Step
  <2>8. MidCallAt(p)'
    BY <2>2 DEF MidCallAt, Goes
  <2> QED
    BY <1>4, <2>2, <2>5, <2>7, <2>8, OwnKeeps DEF Goes, Step
<1> QED
  BY <1>3, <1>4 DEF Close, CloseOrder

\* The pipe first, then the descriptor.
LEMMA DupKeepsCInv ==
  ASSUME CInv, Steady, IInv', NEW p \in Proc, NEW n \in Num, NEW m \in Num, Dup(p, n, m)
  PROVE  CInv'
<1>1. PagesOK /\ AtOK
  BY TypeParts DEF CInv, IInv
<1>2. p \in on /\ on' = on /\ moved' = moved
  BY DEF Dup, Step
<1>3. BackedAt(p) /\ MidCallAt(p)
  BY DEF CInv, Mapped
<1>4. CASE /\ Step(p, "run") /\ fd[p][n] # None /\ m # n /\ fd[p][m] = None
           /\ at' = [at EXCEPT ![p].pc = "dup", ![p].num = n, ![p].arg = m]
           /\ UNCHANGED pages
  <2>1. fd' = fd /\ data' = data
    BY <1>4 DEF pages
  <2>2. /\ at'[p].pc = "dup" /\ at'[p].num = n /\ at'[p].arg = m
        /\ \A q \in Proc \ {p} : at'[q] = at[q]
    BY <1>1, <1>4 DEF AtOK, Call
  <2>3. Own(p)
    BY <1>2, <2>1, <2>2 DEF Own
  <2>4. BackedAt(p)'
    BY <1>3, <1>4, <2>1 DEF BackedAt, Step
  <2>5. MidCallAt(p)'
    BY <1>4, <2>1, <2>2 DEF MidCallAt
  <2> QED
    BY <1>4, <2>2, <2>3, <2>4, <2>5, OwnKeeps DEF Step
<1>5. CASE /\ Step(p, "run") /\ fd[p][n] # None /\ m # n
           /\ at' = [at EXCEPT ![p].pc = "dupClose", ![p].num = n, ![p].arg = m]
           /\ Unmap(p, m, "fd")
  <2>1. fd' = [fd EXCEPT ![p][m] = None] /\ data' = data
    BY <1>5 DEF Unmap
  <2>2. /\ at'[p].pc = "dupClose" /\ at'[p].num = n /\ at'[p].arg = m
        /\ \A q \in Proc \ {p} : at'[q] = at[q]
    BY <1>1, <1>5 DEF AtOK, Call
  <2>3. /\ fd'[p][m] = None /\ \A k \in Num \ {m} : fd'[p][k] = fd[p][k]
        /\ \A q \in Proc \ {p} : fd'[q] = fd[q]
    BY <1>1, <2>1 DEF PagesOK
  <2>4. Own(p)
    BY <1>2, <2>1, <2>2, <2>3 DEF Own
  <2>5. BackedAt(p)'
    BY <1>3, <1>5, <2>1, <2>3 DEF BackedAt, Step
  <2>6. MidCallAt(p)'
    BY <1>5, <2>2, <2>3 DEF MidCallAt
  <2> QED
    BY <1>5, <2>2, <2>4, <2>5, <2>6, OwnKeeps DEF Step
<1>6. CASE /\ n = at[p].num /\ m = at[p].arg
           /\ Step(p, "dupClose") /\ Unmap(p, m, "data") /\ Goto(p, "dup")
  <2>1. data' = [data EXCEPT ![p][m] = FALSE] /\ fd' = fd
    BY <1>6 DEF Unmap
  <2>2. /\ at'[p].pc = "dup" /\ at'[p].num = n /\ at'[p].arg = m
        /\ \A q \in Proc \ {p} : at'[q] = at[q]
    BY <1>1, <1>6 DEF AtOK, Call, Goto
  <2>3. /\ data'[p][m] = FALSE /\ \A k \in Num \ {m} : data'[p][k] = data[p][k]
        /\ \A q \in Proc \ {p} : data'[q] = data[q]
    BY <1>1, <2>1 DEF PagesOK
  <2>4. fd[p][m] = None /\ fd[p][n] # None /\ m # n
    BY <1>3, <1>6 DEF MidCallAt, Step
  <2>5. Own(p)
    BY <1>2, <2>1, <2>2, <2>3 DEF Own
  <2>6. BackedAt(p)'
    BY <1>3, <1>6, <2>1, <2>3, <2>4 DEF BackedAt, Step
  <2>7. MidCallAt(p)'
    BY <2>1, <2>2, <2>4 DEF MidCallAt
  <2> QED
    BY <1>6, <2>2, <2>5, <2>6, <2>7, OwnKeeps DEF Step
<1>7. CASE /\ n = at[p].num /\ m = at[p].arg
           /\ Step(p, "dup") /\ Map(p, n, p, m, "data") /\ Goto(p, "dup2")
  <2>1. data' = [data EXCEPT ![p][m] = data[p][n]] /\ fd' = fd
    BY <1>7 DEF Map
  <2>2. /\ at'[p].pc = "dup2" /\ at'[p].num = n /\ at'[p].arg = m
        /\ \A q \in Proc \ {p} : at'[q] = at[q]
    BY <1>1, <1>7 DEF AtOK, Call, Goto
  <2>3. /\ data'[p][m] = data[p][n] /\ \A k \in Num \ {m} : data'[p][k] = data[p][k]
        /\ \A q \in Proc \ {p} : data'[q] = data[q]
    BY <1>1, <2>1 DEF PagesOK
  <2>4. fd[p][m] = None /\ fd[p][n] # None /\ m # n
    BY <1>3, <1>7 DEF MidCallAt, Step
  <2>5. data[p][n]
    BY <1>3, <1>7, <2>4 DEF BackedAt, Step
  <2>6. Own(p)
    BY <1>2, <2>1, <2>2, <2>3 DEF Own
  <2>7. BackedAt(p)'
    BY <1>3, <1>7, <2>1, <2>3, <2>4 DEF BackedAt, Step
  <2>8. MidCallAt(p)'
    BY <2>1, <2>2, <2>3, <2>4, <2>5 DEF MidCallAt
  <2> QED
    BY <1>7, <2>2, <2>6, <2>7, <2>8, OwnKeeps DEF Step
<1>8. CASE /\ n = at[p].num /\ m = at[p].arg
           /\ Step(p, "dup2") /\ Map(p, n, p, m, "fd") /\ Return(p)
  <2>1. fd' = [fd EXCEPT ![p][m] = fd[p][n]] /\ data' = data
    BY <1>8 DEF Map
  <2>2. Goes(p, "run")
    BY <1>1, <1>8, ReturnGoes
  <2>3. /\ fd'[p][m] = fd[p][n] /\ \A k \in Num \ {m} : fd'[p][k] = fd[p][k]
        /\ \A q \in Proc \ {p} : fd'[q] = fd[q]
    BY <1>1, <2>1 DEF PagesOK
  <2>4. data[p][m]
    BY <1>3, <1>8 DEF MidCallAt, Step
  <2>5. Own(p)
    BY <1>2, <2>1, <2>2, <2>3 DEF Own, Goes
  <2>6. BackedAt(p)'
    BY <1>3, <1>8, <2>1, <2>3, <2>4 DEF BackedAt, Step
  <2>7. MidCallAt(p)'
    BY <2>2 DEF MidCallAt, Goes
  <2> QED
    BY <1>8, <2>2, <2>5, <2>6, <2>7, OwnKeeps DEF Step, Goes
<1> QED
  BY <1>4, <1>5, <1>6, <1>7, <1>8 DEF Dup, CloseOrder, DupOrder

\* The calls on bytes change no page, and ask for the counts or go on.
LEMMA ByteCallKeepsCInv ==
  ASSUME CInv, Steady, IInv', NEW p \in Proc,
         \/ \E n \in Num : Read(p, n) \/ Write(p, n) \/ PipeIsClosed(p, n)
         \/ ReadTest(p) \/ ReadTake(p) \/ ReadAdvance(p)
         \/ WriteTest(p) \/ WriteStore(p) \/ WriteAdvance(p)
  PROVE  CInv'
<1>1. AtOK
  BY TypeParts DEF CInv, IInv
<1>2. /\ p \in on /\ UNCHANGED on /\ UNCHANGED pages /\ at[p].pc \notin {"fork", "embryo"}
      /\ moved' = moved
  BY DEF Read, Write, PipeIsClosed, ReadTest, ReadTake, ReadAdvance, WriteTest, WriteStore,
         WriteAdvance, Step
<1>3. CASE Return(p)
  <2>1. Goes(p, "run") /\ "run" \in Still
    BY <1>1, <1>3, ReturnGoes DEF Still
  <2> QED
    BY <1>2, <2>1, StillKeeps
<1>4. ASSUME NEW pc \in {"rtake", "radvance", "wtest", "wstore", "wadvance"}, Goto(p, pc)
      PROVE  CInv'
  <2>1. Goes(p, pc) /\ pc \in Still
    BY <1>1, <1>4, GotoGoes DEF Still
  <2> QED
    BY <1>2, <2>1, StillKeeps
<1>5. ASSUME NEW back \in {"rtest", "wtest"}, Check(p, back) PROVE CInv'
  <2>1. Goes(p, "count") /\ "count" \in Still
    BY <1>1, <1>5, CheckGoes DEF Still
  <2> QED
    BY <1>2, <2>1, StillKeeps
<1>6. ASSUME NEW n \in Num, NEW pc \in {"rtest", "wtest"},
             at' = [at EXCEPT ![p].pc = pc, ![p].num = n]
      PROVE  CInv'
  <2>1. Goes(p, pc) /\ pc \in Still
    BY <1>1, <1>6, BeginGoes DEF Still
  <2> QED
    BY <1>2, <2>1, StillKeeps
<1>7. ASSUME NEW n \in Num,
             at' = [at EXCEPT ![p].pc = "count", ![p].num = n, ![p].back = "run"]
      PROVE  CInv'
  <2>1. Goes(p, "count") /\ "count" \in Still
    BY <1>1, <1>7, ProbeGoes DEF Still
  <2> QED
    BY <1>2, <2>1, StillKeeps
<1>8. CASE at' = [at EXCEPT ![p].pc = "rtest", ![p].some = TRUE]
  <2>1. PICK j : j = [at[p] EXCEPT !.pc = "rtest", !.some = TRUE]
    OBVIOUS
  <2>2. at[p] \in Call
    BY <1>1 DEF AtOK
  <2>3. j \in Call /\ j.pc = "rtest"
    BY <2>1, <2>2 DEF Call
  <2>4. at' = [at EXCEPT ![p] = j]
    BY <1>1, <1>8, <2>1 DEF AtOK
  <2>5. Goes(p, "rtest")
    BY <1>1, <2>3, <2>4, PlaceIs
  <2>6. "rtest" \in Still
    BY DEF Still
  <2> QED
    BY <1>2, <2>5, <2>6, StillKeeps
<1> QED
  BY <1>3, <1>4, <1>5, <1>6, <1>7, <1>8 DEF Read, Write, PipeIsClosed, ReadTest, ReadTake,
     ReadAdvance, WriteTest, WriteStore, WriteAdvance

\* What is counted is counted now.
LEMMA CountKeepsCInv ==
  ASSUME CInv, Steady, IInv', NEW p \in Proc, Count(p)
  PROVE  CInv'
<1>1. AtOK
  BY TypeParts DEF CInv, IInv
<1>2. /\ p \in on /\ UNCHANGED on /\ fd' = fd /\ data' = data /\ at[p].pc = "count"
      /\ moved' = moved
  BY DEF Count, Step, pages
<1>3. PICK k \in Nat : k = FdRefs(fd[p][at[p].num])
  BY RefsType
<1>4. at' = [at EXCEPT ![p].pc = "compare", ![p].arg = k]
  BY <1>3 DEF Count
<1>5. /\ at'[p].pc = "compare" /\ at'[p].num = at[p].num /\ at'[p].arg = k
      /\ \A q \in Proc \ {p} : at'[q] = at[q]
  BY <1>1, <1>4 DEF AtOK, Call
<1>6. Own(p)
  BY <1>2, <1>5 DEF Own
<1>7. at'[p].arg = FdRefs(fd[p][at[p].num])'
  BY <1>2, <1>3, <1>5 DEF FdRefs
<1>8. BackedAt(p)'
  BY <1>2 DEF CInv, Mapped, BackedAt
<1>9. MidCallAt(p)'
  BY <1>5 DEF MidCallAt
<1> QED
  BY <1>2, <1>5, <1>6, <1>7, <1>8, <1>9, OwnKeeps

\* On its CPU since it counted, it compares two counts of one moment.
LEMMA CompareKeepsCInv ==
  ASSUME CInv, Steady, ForksApart, IInv', NEW p \in Proc, Compare(p)
  PROVE  CInv'
<1>1. AtOK
  BY TypeParts DEF CInv, IInv
<1>2. /\ p \in on /\ UNCHANGED on /\ UNCHANGED pages /\ at[p].pc = "compare"
      /\ at[p].back \in {"run", "rtest", "wtest"}
      /\ \A q \in Proc \ {p} : q \in moved => q \in moved'
  BY <1>1 DEF Compare, Step, AtOK, Call
<1>3. PICK pc : pc = IF Disturbed(p) THEN "count"
                     ELSE IF at[p].arg = PipeRefs THEN "closed" ELSE at[p].back
  OBVIOUS
<1>4. at' = [at EXCEPT ![p].arg = None, ![p].pc = pc]
  BY <1>3 DEF Compare
<1>5. CASE pc # "closed"
  <2>1. pc \in {"count", "run", "rtest", "wtest"}
    BY <1>2, <1>3, <1>5
  <2>2. Goes(p, pc) /\ pc \in Still
    BY <1>1, <1>4, <2>1, CompareGoes DEF Still
  <2> QED
    BY <1>2, <2>2, StillKeeps
<1>6. CASE pc = "closed"
  <2>1. ~ Disturbed(p) /\ at[p].arg = PipeRefs
    BY <1>2, <1>3, <1>6
  <2>2. /\ at'[p].pc = "closed" /\ at'[p].num = at[p].num
        /\ \A q \in Proc \ {p} : at'[q] = at[q]
    BY <1>1, <1>4, <1>6 DEF AtOK, Call
  <2>3. FdRefs(fd[p][at[p].num]) = PipeRefs
    BY <1>2, <2>1 DEF CInv, Counting, Unwarned, Disturbed
  <2>4. fd' = fd /\ data' = data
    BY <1>2 DEF pages
  <2>5. Own(p)
    BY <1>2, <2>2, <2>4 DEF Own
  <2>6. BackedAt(p)'
    BY <1>2, <2>4 DEF CInv, Mapped, BackedAt
  <2>7. MidCallAt(p)'
    BY <2>2 DEF MidCallAt
  <2>8. Told(p)'
    <3>1. None \notin {"R", "W"}
      BY PipeAssumption
    <3>2. \A e, f \in {"R", "W"} : f # e /\ fd[p][at[p].num] = e =>
            \A q \in Proc : ~ Holds(q, f)
      BY <1>2, <2>3, <3>1, Balance
    <3> QED
      BY <2>2, <2>4, <3>2 DEF Told, Closed, Holds
  <2> QED
    BY <1>2, <2>2, <2>5, <2>6, <2>7, <2>8, OwnKeeps
<1> QED
  BY <1>5, <1>6

\* Who comes back to a CPU while it compares is counted in env_runs.
LEMMA ScheduleKeepsCInv ==
  ASSUME CInv, Steady, IInv', NEW q \in Proc, Schedule(q)
  PROVE  CInv'
<1>1. OnOK
  BY TypeParts DEF CInv, IInv
<1>2. fd' = fd /\ data' = data /\ at' = at
  BY DEF Schedule, pages
<1>3. ASSUME NEW p \in Proc, at[p].pc = "compare", p \in on', p \notin moved'
      PROVE  p \in on /\ p \notin moved
  BY <1>3 DEF Schedule
<1>4. Counting'
  BY <1>2, <1>3 DEF CInv, Counting, Unwarned, FdRefs
<1>5. Mapped'
  BY <1>2 DEF CInv, Mapped, BackedAt, MidCallAt
<1>6. Parents' /\ ClosedMeansClosed'
  BY <1>2 DEF CInv, Parents, ClosedMeansClosed, Closed, Holds
<1> QED
  BY <1>4, <1>5, <1>6 DEF CInv

\* Who is destroyed takes its pages and its counts with it.
LEMMA DestroyKeepsCInv ==
  ASSUME CInv, Steady, IInv', NEW p \in Proc, Destroy(p)
  PROVE  CInv'
<1>1. PagesOK /\ AtOK /\ OnOK
  BY TypeParts DEF CInv, IInv
<1>2. /\ at'[p].pc = "gone" /\ \A q \in Proc \ {p} : at'[q] = at[q]
      /\ \A n \in Num : fd'[p][n] = None
      /\ \A q \in Proc \ {p} : fd'[q] = fd[q] /\ data'[q] = data[q]
  BY <1>1 DEF Destroy, Idle, AtOK, PagesOK
<1>3. Mapped'
  <2>1. BackedAt(p)' /\ MidCallAt(p)'
    BY <1>2 DEF BackedAt, MidCallAt
  <2>2. ASSUME NEW q \in Proc \ {p} PROVE BackedAt(q)' /\ MidCallAt(q)'
    <3>1. BackedAt(q) /\ MidCallAt(q)
      BY DEF CInv, Mapped
    <3> QED
      BY <1>2, <3>1 DEF BackedAt, MidCallAt
  <2> QED
    BY <2>1, <2>2 DEF Mapped
<1>4. Parents'
  <2> SUFFICES ASSUME NEW q \in Proc, at'[q].pc = "embryo"
               PROVE  \E r \in Proc : at'[r].pc = "fork" /\ at'[r].arg = q
    BY DEF Parents
  <2>1. PICK r \in Proc : at[r].pc = "fork" /\ at[r].arg = q
    BY <1>2 DEF CInv, Parents
  <2>2. r # p
    BY <2>1 DEF Destroy
  <2> QED
    BY <1>2, <2>1, <2>2
<1>5. Counting'
  <2> SUFFICES ASSUME NEW q \in Proc, Unwarned(q)'
               PROVE  at'[q].arg = FdRefs(fd[q][at[q].num])'
    BY DEF Counting
  <2>1. fd' = fd
    BY DEF Steady, pages
  <2>2. at'[q] = at[q] /\ Unwarned(q)
    BY <1>2 DEF Unwarned, Destroy
  <2> QED
    BY <2>1, <2>2 DEF CInv, Counting, FdRefs
<1>6. ClosedMeansClosed'
  <2>1. \A q \in Proc, e \in {"R", "W"} : Closed(q, e)' => Closed(q, e)
    BY <1>2 DEF Closed
  <2>2. \A q \in Proc, e \in {"R", "W"} : Holds(q, e)' => Holds(q, e)
    BY <1>2, PipeAssumption DEF Holds
  <2> QED
    BY <2>1, <2>2 DEF CInv, ClosedMeansClosed
<1> QED
  BY <1>3, <1>4, <1>5, <1>6 DEF CInv

\* A child has the descriptors of its parent, and the pipes when it starts.
LEMMA ForkKeepsCInv ==
  ASSUME CInv, Steady, IInv', NEW p \in Proc, NEW q \in Proc, Fork(p, q)
  PROVE  CInv'
<1>1. PagesOK /\ AtOK /\ OnOK
  BY TypeParts DEF CInv, IInv
<1>2. p \in on /\ on' = on /\ moved' = moved /\ at[p].pc \in {"run", "fork"}
  BY DEF Fork, Step
<1>3. ASSUME \A r \in Proc : Unwarned(r)' => at'[r] = at[r]
      PROVE  Counting'
  <2> SUFFICES ASSUME NEW r \in Proc, Unwarned(r)'
               PROVE  at'[r].arg = FdRefs(fd[r][at[r].num])'
    BY DEF Counting
  <2>1. fd' = fd
    BY DEF Steady, pages
  <2>2. at'[r] = at[r] /\ Unwarned(r)
    BY <1>2, <1>3 DEF Unwarned
  <2> QED
    BY <2>1, <2>2 DEF CInv, Counting, FdRefs
<1>4. BackedAt(p)
  BY DEF CInv, Mapped
<1>5. CASE /\ at[p].pc = "run" /\ at[q].pc = "none" /\ UNCHANGED pages
           /\ at' = [at EXCEPT ![p].pc = "fork", ![p].arg = q, ![q].pc = "embryo"]
  <2>1. /\ at'[p].pc = "fork" /\ at'[p].arg = q /\ at'[q].pc = "embryo" /\ p # q
        /\ \A r \in Proc \ {p, q} : at'[r] = at[r]
    BY <1>1, <1>5 DEF AtOK, Call
  <2>2. fd' = fd /\ data' = data
    BY <1>5 DEF pages
  <2>3. Mapped'
    <3> SUFFICES ASSUME NEW r \in Proc PROVE BackedAt(r)' /\ MidCallAt(r)'
      BY DEF Mapped
    <3>1. BackedAt(r) /\ MidCallAt(r)
      BY DEF CInv, Mapped
    <3>2. CASE r \in {p, q}
      BY <1>4, <1>5, <2>1, <2>2, <3>2 DEF BackedAt, MidCallAt
    <3>3. CASE r \notin {p, q}
      BY <2>1, <2>2, <3>1, <3>3 DEF BackedAt, MidCallAt
    <3> QED
      BY <3>2, <3>3
  <2>4. Parents'
    <3> SUFFICES ASSUME NEW r \in Proc \ {q}, at'[r].pc = "embryo"
                 PROVE  \E t \in Proc : at'[t].pc = "fork" /\ at'[t].arg = r
      BY <2>1 DEF Parents
    <3>1. r # p /\ at[r].pc = "embryo"
      BY <2>1
    <3>2. PICK t \in Proc : at[t].pc = "fork" /\ at[t].arg = r
      BY <3>1 DEF CInv, Parents
    <3> QED
      BY <1>5, <2>1, <3>2
  <2>5. Counting'
    BY <1>3, <2>1 DEF Unwarned
  <2>6. ClosedMeansClosed'
    BY <2>1, <2>2 DEF CInv, ClosedMeansClosed, Closed, Holds
  <2> QED
    BY <2>3, <2>4, <2>5, <2>6 DEF CInv
<1>6. CASE at[p].pc = "fork" /\ at[p].arg = q
  <2>1. at[q].pc = "embryo" /\ p # q
    BY <1>6 DEF CInv, IInv, Embryos
  <2>2. ASSUME UNCHANGED at,
               \A r \in Proc \ {q} : fd'[r] = fd[r] /\ data'[r] = data[r],
               \A n \in Num : fd'[q][n] \in {fd[q][n], fd[p][n]}
        PROVE  CInv'
    <3>1. Mapped'
      <4> SUFFICES ASSUME NEW r \in Proc PROVE BackedAt(r)' /\ MidCallAt(r)'
        BY DEF Mapped
      <4>1. BackedAt(r) /\ MidCallAt(r)
        BY DEF CInv, Mapped
      <4>2. CASE r = q
        BY <2>1, <2>2, <4>2 DEF BackedAt, MidCallAt
      <4>3. CASE r # q
        BY <2>2, <4>1, <4>3 DEF BackedAt, MidCallAt
      <4> QED
        BY <4>2, <4>3
    <3>2. Parents'
      BY <2>2 DEF CInv, Parents
    <3>3. Counting'
      BY <1>3, <2>2
    <3>4. \A r \in Proc, e \in {"R", "W"} : Closed(r, e)' => Closed(r, e)
      BY <2>1, <2>2 DEF Closed
    <3>5. \A r \in Proc, e \in {"R", "W"} : Holds(r, e)' => Holds(r, e) \/ Holds(p, e)
      BY <2>2 DEF Holds
    <3>6. ClosedMeansClosed'
      BY <3>4, <3>5 DEF CInv, ClosedMeansClosed
    <3> QED
      BY <3>1, <3>2, <3>3, <3>6, <1>2, <2>2 DEF CInv
  <2>3. ASSUME NEW n \in Num, Map(p, n, q, n, "fd"), UNCHANGED at PROVE CInv'
    <3>1. fd' = [fd EXCEPT ![q][n] = fd[p][n]] /\ data' = data
      BY <2>3 DEF Map
    <3>2. /\ \A r \in Proc \ {q} : fd'[r] = fd[r]
          /\ \A m \in Num : fd'[q][m] \in {fd[q][m], fd[p][m]}
      BY <1>1, <3>1 DEF PagesOK
    <3> QED
      BY <2>2, <2>3, <3>1, <3>2
  <2>4. ASSUME NEW n \in Num, Map(p, n, q, n, "data"), UNCHANGED at PROVE CInv'
    <3>1. data' = [data EXCEPT ![q][n] = data[p][n]] /\ fd' = fd
      BY <2>4 DEF Map
    <3>2. \A r \in Proc \ {q} : data'[r] = data[r]
      BY <1>1, <3>1 DEF PagesOK
    <3> QED
      BY <2>2, <2>4, <3>1, <3>2
  <2>5. ASSUME fd[q] = fd[p], data[q] = data[p], UNCHANGED pages,
               at' = [at EXCEPT ![p] = Idle, ![q] = Idle]
        PROVE  CInv'
    <3>1. /\ at'[p].pc = "run" /\ at'[q].pc = "run"
          /\ \A r \in Proc \ {p, q} : at'[r] = at[r]
      BY <1>1, <2>5, IdleIsCall DEF AtOK
    <3>2. fd' = fd /\ data' = data
      BY <2>5 DEF pages
    <3>3. Mapped'
      <4> SUFFICES ASSUME NEW r \in Proc PROVE BackedAt(r)' /\ MidCallAt(r)'
        BY DEF Mapped
      <4>1. BackedAt(r) /\ MidCallAt(r)
        BY DEF CInv, Mapped
      <4>2. CASE r \in {p, q}
        BY <1>4, <1>6, <2>5, <3>1, <3>2, <4>2 DEF BackedAt, MidCallAt
      <4>3. CASE r \notin {p, q}
        BY <3>1, <3>2, <4>1, <4>3 DEF BackedAt, MidCallAt
      <4> QED
        BY <4>2, <4>3
    <3>4. Parents'
      <4> SUFFICES ASSUME NEW r \in Proc, at'[r].pc = "embryo"
                   PROVE  \E t \in Proc : at'[t].pc = "fork" /\ at'[t].arg = r
        BY DEF Parents
      <4>1. r \notin {p, q} /\ at[r].pc = "embryo"
        BY <3>1
      <4>2. PICK t \in Proc : at[t].pc = "fork" /\ at[t].arg = r
        BY <4>1 DEF CInv, Parents
      <4>3. t \notin {p, q}
        BY <1>6, <2>1, <4>1, <4>2
      <4> QED
        BY <3>1, <4>2, <4>3
    <3>5. Counting'
      BY <1>3, <3>1 DEF Unwarned
    <3>6. \A r \in Proc, e \in {"R", "W"} : Closed(r, e)' => Closed(r, e)
      BY <3>1, <3>2 DEF Closed
    <3>7. ClosedMeansClosed'
      BY <3>2, <3>6 DEF CInv, ClosedMeansClosed, Holds
    <3> QED
      BY <3>3, <3>4, <3>5, <3>7 DEF CInv
  <2> QED
    BY <1>6, <2>3, <2>4, <2>5 DEF Fork, Step
<1> QED
  BY <1>5, <1>6 DEF Fork, Step

\* Each descriptor page of pipe() is beside its pipe.
LEMMA InitCInv == Init => CInv
<1> SUFFICES ASSUME Init PROVE CInv
  OBVIOUS
<1>1. IInv
  BY InitIInv
<1>2. \A p \in Proc : at[p].pc \in {"run", "none"}
  BY DEF Init, Idle, Absent
<1>3. \A p \in Proc, n \in Num : fd[p][n] # None => data[p][n]
  <2>1. PICK r, w \in Num :
           /\ fd = [p \in Proc |-> [n \in Num |->
                     IF p = First /\ n = r THEN "R"
                     ELSE IF p = First /\ n = w THEN "W" ELSE None]]
           /\ data = [p \in Proc |-> [n \in Num |-> p = First /\ n \in {r, w}]]
    BY DEF Init
  <2> QED
    BY <2>1
<1>4. Mapped
  BY <1>2, <1>3 DEF Mapped, BackedAt, MidCallAt
<1>5. Parents /\ Counting /\ ClosedMeansClosed
  BY <1>2 DEF Parents, Counting, Unwarned, ClosedMeansClosed, Closed
<1> QED
  BY <1>1, <1>4, <1>5 DEF CInv

\* One case per action of Next.
LEMMA NextCInv == CInv /\ ForksApart /\ Steady /\ [Next]_vars => CInv'
<1> SUFFICES ASSUME CInv, ForksApart, Steady, [Next]_vars PROVE CInv'
  OBVIOUS
<1>1. IInv'
  BY NextIInv DEF CInv
<1>2. CASE UNCHANGED vars
  <2>1. fd' = fd /\ data' = data /\ at' = at /\ on' = on /\ moved' = moved
    BY <1>2 DEF vars
  <2>2. Mapped' /\ Parents'
    BY <2>1 DEF CInv, Mapped, BackedAt, MidCallAt, Parents
  <2>3. Counting' /\ ClosedMeansClosed'
    BY <2>1 DEF CInv, Counting, Unwarned, FdRefs, ClosedMeansClosed, Closed, Holds
  <2> QED
    BY <1>1, <2>2, <2>3 DEF CInv
<1>3. ASSUME NEW p \in Proc, Calls(p) PROVE CInv'
  BY <1>1, <1>3, CloseKeepsCInv, DupKeepsCInv, ByteCallKeepsCInv, CountKeepsCInv, CompareKeepsCInv,
     ScheduleKeepsCInv, DestroyKeepsCInv DEF Calls
<1>4. ASSUME NEW p \in Proc, NEW q \in Proc, Fork(p, q) PROVE CInv'
  BY <1>1, <1>4, ForkKeepsCInv
<1> QED
  BY <1>2, <1>3, <1>4 DEF Next

\* For any number of CPUs and programs: an end appears closed while somebody has
\* the other only if another CPU changed a mapping between the two counts, or
\* they were compared while fork() was at work (lib/pipe.c:82-95).
THEOREM ClosedIsClosed == Spec /\ [][Steady]_vars /\ []ForksApart => []ClosedMeansClosed
<1>1. CInv /\ ForksApart /\ [Steady]_vars /\ [Next]_vars => CInv'
  <2>1. [Steady]_vars => Steady
    BY DEF Steady, vars, pages
  <2> QED
    BY <2>1, NextCInv
<1>2. CInv => ClosedMeansClosed
  BY DEF CInv
<1> QED
  BY <1>1, <1>2, InitCInv, PTL DEF Spec

\* On one CPU there is one program.
LEMMA OneRuns ==
  ASSUME NCpu = 1, OnOK, NEW p \in on, NEW q \in on
  PROVE  p = q
<1> SUFFICES ASSUME p # q PROVE FALSE
  OBVIOUS
<1>1. PICK S : S = {p}
  OBVIOUS
<1>2. IsFiniteSet(S) /\ Cardinality(S) = 1
  BY <1>1, FS_Singleton
<1>3. PICK T : T = S \cup {q}
  OBVIOUS
<1>4. IsFiniteSet(T) /\ Cardinality(T) = 2
  BY <1>1, <1>2, <1>3, FS_AddElement
<1>5. IsFiniteSet(on) /\ Cardinality(on) <= 1 /\ T \subseteq on
  BY <1>1, <1>3 DEF OnOK
<1>6. Cardinality(T) <= Cardinality(on) /\ Cardinality(on) \in Nat
  BY <1>5, FS_Subset, FS_CardinalityType
<1> QED
  BY <1>4, <1>5, <1>6

\* On one CPU whoever changes a mapping has taken the CPU from those that count.
LEMMA OneCpuIsSteady ==
  ASSUME NCpu = 1, IInv, [Next]_vars
  PROVE  Steady
<1> SUFFICES ASSUME ~ UNCHANGED pages, NEW q \in Proc, Unwarned(q)' PROVE FALSE
  BY DEF Steady
<1>1. AtOK /\ OnOK
  BY TypeParts DEF IInv
<1>2. at'[q].pc = "compare" /\ q \in on'
  BY DEF Unwarned
<1>3. Idle \in Call /\ Idle.pc = "run"
  BY IdleIsCall
<1>4. ASSUME NEW p \in Proc, p \in on, on' = on PROVE q = p
  BY <1>1, <1>2, <1>4, OneRuns
<1>5. ASSUME NEW p \in Proc, NEW n \in Num, Close(p, n) PROVE FALSE
  <2>1. p \in on /\ on' = on
    BY <1>5 DEF Close, Step
  <2>2. at'[p].pc \in {"close", "run"}
    BY <1>1, <1>3, <1>5 DEF Close, Return, AtOK, Call
  <2> QED
    BY <1>2, <1>4, <2>1, <2>2
<1>6. ASSUME NEW p \in Proc, NEW n \in Num, NEW m \in Num, Dup(p, n, m) PROVE FALSE
  <2>1. p \in on /\ on' = on
    BY <1>6 DEF Dup, Step
  <2>2. at'[p].pc \in {"dup", "dupClose", "dup2", "run"}
    BY <1>1, <1>3, <1>6 DEF Dup, Return, Goto, AtOK, Call
  <2> QED
    BY <1>2, <1>4, <2>1, <2>2
<1>7. ASSUME NEW p \in Proc, NEW r \in Proc, Fork(p, r) PROVE FALSE
  <2>1. p \in on /\ on' = on /\ at[p].pc \in {"run", "fork"}
    BY <1>7 DEF Fork, Step
  <2>2. UNCHANGED at
    BY <1>7 DEF Fork
  <2> QED
    BY <1>2, <1>4, <2>1, <2>2
<1>8. ASSUME NEW p \in Proc, Destroy(p) PROVE FALSE
  <2>1. on' = on \ {p} /\ at' = [at EXCEPT ![p] = [Idle EXCEPT !.pc = "gone"]]
    BY <1>8 DEF Destroy
  <2>2. q # p /\ q \in on /\ at[q].pc = "compare"
    BY <1>1, <1>2, <2>1 DEF AtOK
  <2>3. \A r \in on : r = q
    BY <1>1, <2>2, OneRuns
  <2> QED
    BY <1>8, <2>2, <2>3 DEF Destroy
<1>9. ASSUME NEW p \in Proc,
             \/ \E n \in Num : Read(p, n) \/ Write(p, n) \/ PipeIsClosed(p, n)
             \/ ReadTest(p) \/ ReadTake(p) \/ ReadAdvance(p)
             \/ WriteTest(p) \/ WriteStore(p) \/ WriteAdvance(p)
             \/ Count(p) \/ Compare(p) \/ Schedule(p)
      PROVE  UNCHANGED pages
  BY <1>9 DEF Read, Write, PipeIsClosed, ReadTest, ReadTake, ReadAdvance, WriteTest, WriteStore,
              WriteAdvance, Count, Compare, Schedule
<1>10. CASE UNCHANGED vars
  BY <1>10 DEF vars, pages
<1>11. CASE Next
  BY <1>5, <1>6, <1>7, <1>8, <1>9, <1>11 DEF Next, Calls
<1> QED
  BY <1>10, <1>11

\* On one CPU, the case env_runs was made for (lib/pipe.c:85-94), an end appears
\* closed only when nobody has the other, for any number of programs, as long
\* as no two counts are compared while fork() is at work.
THEOREM ClosedOnOneCpu ==
  ASSUME NCpu = 1
  PROVE  Spec /\ []ForksApart => []ClosedMeansClosed
<1>1. IInv /\ [Next]_vars => [Steady]_vars
  BY OneCpuIsSteady
<1> QED
  BY <1>1, SpecIInv, ClosedIsClosed, PTL DEF Spec
=============================================================================
