-------------------------- MODULE CommandDelivery --------------------------
(***************************************************************************)
(* What the agent registry and its HTTP handlers promise about a command:  *)
(* it is addressed to one agent; once accepted it waits for that agent; it *)
(* is handed out at most once, together with everything else that waits    *)
(* for the agent; or it is lost, when the agent or the server goes away.   *)
(* handed and lost are final.  AgentController implements this.            *)
(***************************************************************************)
CONSTANTS AgentIds, CommandIds, NoTarget

VARIABLES
    addressee,  \* command -> the agent it is for
    fate        \* command -> "new", "waiting", "handed" or "lost"

deliveryVars == <<addressee, fate>>

WaitingFor(a) == {c \in CommandIds : fate[c] = "waiting" /\ addressee[c] = a}

Init ==
    /\ addressee = [c \in CommandIds |-> NoTarget]
    /\ fate      = [c \in CommandIds |-> "new"]

\* A new command is addressed to an agent.
Address(c, a) ==
    /\ addressee[c] = NoTarget
    /\ addressee' = [addressee EXCEPT ![c] = a]
    /\ UNCHANGED fate

\* An addressed command starts to wait, or is lost at once.
Accept(c) ==
    /\ addressee[c] # NoTarget /\ fate[c] = "new"
    /\ \E f \in {"waiting", "lost"} : fate' = [fate EXCEPT ![c] = f]
    /\ UNCHANGED addressee

\* All that waits for agent a is handed out.
HandOut(a) ==
    /\ fate' = [c \in CommandIds |->
                  IF c \in WaitingFor(a) THEN "handed" ELSE fate[c]]
    /\ UNCHANGED addressee

\* All that waits for the agents of A is lost.
Lose(A) ==
    /\ fate' = [c \in CommandIds |->
                  IF c \in UNION {WaitingFor(a) : a \in A} THEN "lost"
                  ELSE fate[c]]
    /\ UNCHANGED addressee

Next ==
    \/ \E c \in CommandIds : Accept(c) \/ \E a \in AgentIds : Address(c, a)
    \/ \E a \in AgentIds : HandOut(a)
    \/ \E A \in SUBSET AgentIds : Lose(A)

Spec == Init /\ [][Next]_deliveryVars
============================================================================
