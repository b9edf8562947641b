------------------------- MODULE MCRequestPipeline -------------------------
(* Model-checking instances of RequestPipeline. *)
EXTENDS RequestPipeline

CONSTANTS r1, r2, r3, k1

\* One token takes two ticks.
MCPeriod == [k \in Keys |-> 2]
============================================================================
