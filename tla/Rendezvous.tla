----------------------------- MODULE Rendezvous -----------------------------
(***************************************************************************)
(* What ipc_send and ipc_recv promise together: a sender and a receiver    *)
(* meet, and in that one instant the sender is released and the receiver   *)
(* holds the sender's message, whole, until it takes it. Nothing is        *)
(* queued, lost, duplicated or mixed from two messages. A receiver that    *)
(* asked for no page gets the message without its page.                    *)
(***************************************************************************)
CONSTANTS Env, Val, Page, None

Msg == [val : Val, page : Page \cup {None}]

VARIABLES
  doing,  \* what each environment is about
  offer,  \* what a sender sends, and to whom
  wants,  \* which receivers asked for a page
  inbox   \* what a receiver received, and from whom

vars == <<doing, offer, wants, inbox>>

Init ==
  /\ doing \in [Env -> {"absent", "idle"}]
  /\ offer = [e \in Env |-> None]
  /\ wants = [e \in Env |-> FALSE]
  /\ inbox = [e \in Env |-> None]

Become(e, what) == doing' = [doing EXCEPT ![e] = what]

Appear(e) ==
  /\ doing[e] = "absent"
  /\ Become(e, "idle")
  /\ UNCHANGED <<offer, wants, inbox>>

Vanish(e) ==
  /\ doing[e] # "absent"
  /\ Become(e, "absent")
  /\ offer' = [offer EXCEPT ![e] = None]
  /\ wants' = [wants EXCEPT ![e] = FALSE]
  /\ inbox' = [inbox EXCEPT ![e] = None]

Send(e, to, m) ==
  /\ doing[e] = "idle"
  /\ Become(e, "sending")
  /\ offer' = [offer EXCEPT ![e] = [to |-> to, msg |-> m]]
  /\ UNCHANGED <<wants, inbox>>

Receive(e, page) ==
  /\ doing[e] = "idle"
  /\ Become(e, "receiving")
  /\ wants' = [wants EXCEPT ![e] = page]
  /\ UNCHANGED <<offer, inbox>>

\* The message as receiver r gets it.
Delivered(m, r) == IF wants[r] THEN m ELSE [m EXCEPT !.page = None]

Meet(s, r) ==
  /\ doing[s] = "sending" /\ doing[r] = "receiving"
  /\ offer[s].to = r
  /\ doing' = [doing EXCEPT ![s] = "idle", ![r] = "received"]
  /\ offer' = [offer EXCEPT ![s] = None]
  /\ inbox' = [inbox EXCEPT ![r] = [from |-> s, msg |-> Delivered(offer[s].msg, r)]]
  /\ UNCHANGED wants

\* The sender gives up: its receiver is gone or its message is bad.
Fail(e) ==
  /\ doing[e] = "sending"
  /\ Become(e, "failed")
  /\ offer' = [offer EXCEPT ![e] = None]
  /\ UNCHANGED <<wants, inbox>>

Take(e) ==
  /\ doing[e] = "received"
  /\ Become(e, "idle")
  /\ wants' = [wants EXCEPT ![e] = FALSE]
  /\ inbox' = [inbox EXCEPT ![e] = None]
  /\ UNCHANGED offer

Next ==
  \/ \E e \in Env : Appear(e) \/ Vanish(e) \/ Fail(e) \/ Take(e)
  \/ \E e \in Env, page \in BOOLEAN : Receive(e, page)
  \/ \E e, to \in Env, m \in Msg : Send(e, to, m)
  \/ \E s, r \in Env : Meet(s, r)

Spec == Init /\ [][Next]_vars

=============================================================================
