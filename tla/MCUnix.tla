-------------------------------- MODULE MCUnix --------------------------------
(* Small instances of Shell, JosShell and Primes for TLC: one of them runs. *)
EXTENDS Shell, JosShell, Primes

MCProc == ShellProc \cup Sieve
MCPipeId == (Job \X (1 .. MaxSegments)) \cup Sieve

Plain(prog) == [prog |-> prog, in |-> FALSE, out |-> FALSE, err |-> FALSE]
From(seg) == [seg EXCEPT !.in = TRUE]
To(seg) == [seg EXCEPT !.out = TRUE]
Errors(seg) == [seg EXCEPT !.err = TRUE]

Fore(segments) == [segments |-> segments, back |-> FALSE]
InBack(prog) == [segments |-> <<Plain(prog)>>, back |-> TRUE]

\* cat &, yes &, yes | head, | cat or cat 2> f; then cat | cat, cat > f | cat,
\* yes | head | cat or cat < f | missing | cat > f 2> g. JOS has neither & nor
\* 2>, and only cat.
MCLine ==
  <<{InBack("cat"), InBack("yes"), Fore(<<Plain("yes"), Plain("head")>>),
     Fore(<<Plain("none"), Plain("cat")>>), Fore(<<Errors(Plain("cat"))>>)},
    {Fore(<<Plain("cat"), Plain("cat")>>),
     Fore(<<To(Plain("cat")), Plain("cat")>>),
     Fore(<<Plain("yes"), Plain("head"), Plain("cat")>>),
     Fore(<<From(Plain("cat")), Plain("missing"), Errors(To(Plain("cat")))>>)}>>

NoShell ==
  jos = FALSE /\ lines = <<>> /\ pid = [p \in {} |-> NoPid] /\ bytes = [p \in {} |-> FALSE] /\ spoiled = {}

NoSieve ==
  base = <<>> /\ held = <<>> /\ primes = <<>> /\ forkFailed = FALSE /\ pipeFailed = FALSE

Init == (JobsInit /\ NoSieve) \/ (PrimesInit /\ NoShell)

Next == ((ShellNext \/ JosNext) /\ UNCHANGED sieve) \/ (PrimesNext /\ UNCHANGED jobs)

allvars == <<unix, jobs, sieve>>

User == ShellProc \ {Sh}

\* Every process that can go on does (it is weakly fair for each): all steps
\* but Copies happen once, so that one condition stands for those of all
\* processes, and so it is for the sieve. A program that can find the end of its
\* input, or nobody reading, time and again does: a file ends, and what is typed.
Fairness ==
  /\ WF_allvars((Waits \/ UmainWaits \/ \E p \in User : Once(p) \/ JosOnce(p))
                /\ UNCHANGED sieve)
  /\ \A p \in User : WF_allvars(Copies(p) /\ UNCHANGED sieve)
  /\ SF_allvars((\E p \in User : ProgramEndsOrBreaks(p)) /\ UNCHANGED sieve)
  /\ WF_allvars(PrimesNext /\ UNCHANGED jobs)

Spec == Init /\ [][Next]_allvars /\ Fairness
=============================================================================
