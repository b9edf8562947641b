--------------------------- MODULE MCAgentSession --------------------------
(* Model-checking instances of AgentSession. *)
EXTENDS AgentSession, TLC

CONSTANTS a1, a2, c1, c2, h1, h2

\* Every id is given to the one machine: an agent and its restarts.
MCHostOf == [a \in AgentIds |-> h1]

\* Two machines, one agent each.
MCTwoHosts == [a \in AgentIds |-> IF a = a1 THEN h1 ELSE h2]

Perms == Permutations(AgentIds) \cup Permutations(CommandIds)
============================================================================
