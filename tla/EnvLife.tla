------------------------------ MODULE EnvLife ------------------------------
(***************************************************************************)
(* What the kernel promises about an environment, whatever the CPUs, the   *)
(* lock and the free list do: it lives through the stages below, it is on  *)
(* at most one CPU, it leaves that CPU only by a step of that CPU, and one *)
(* step changes its stage at most once.                                    *)
(***************************************************************************)
CONSTANTS CPU, Env, None

VARIABLES
  life,   \* the stage of each environment
  on      \* the environment each CPU is on

vars == <<life, on>>

Stage == {"none", "embryo", "ready", "running", "waiting", "zombie"}

\* A step that some other environment's CPU may take it through.
ByOthers ==
  {<<"none", "embryo">>,     \* sys_exofork
   <<"embryo", "ready">>,    \* its parent starts it
   <<"ready", "running">>,   \* a CPU picks it
   <<"waiting", "ready">>,   \* a message arrives
   <<"running", "zombie">>,  \* its parent destroys it: running ...
   <<"embryo", "none">>,     \* ... or not
   <<"ready", "none">>,
   <<"waiting", "none">>}

\* A step that only the CPU it is on takes it through.
ByItself ==
  {<<"running", "ready">>,   \* the timer, sys_yield
   <<"running", "waiting">>, \* sys_ipc_recv
   <<"running", "none">>,    \* exit, a fault
   <<"zombie", "none">>}     \* collected at its next trap

Init ==
  /\ life \in [Env -> {"none", "ready"}]
  /\ on = [c \in CPU |-> None]

\* CPU c goes from on[c] to e, or to no environment.
Step(c, e) ==
  /\ on' = [on EXCEPT ![c] = e]
  /\ life' \in [Env -> Stage]
  /\ e \in Env => \A d \in CPU \ {c} : on[d] # e
  /\ \A f \in Env :
       /\ \/ life'[f] = life[f]
          \/ <<life[f], life'[f]>> \in ByOthers
          \/ f = on[c] /\ <<life[f], life'[f]>> \in ByItself
       /\ life'[f] = "running" => \E d \in CPU : on'[d] = f
       /\ f = on[c] /\ f # e => life'[f] \notin {"running", "zombie"}
       /\ f = e => life'[f] = "running"

Next == \E c \in CPU, e \in Env \cup {None} : Step(c, e)

Spec == Init /\ [][Next]_vars

=============================================================================
