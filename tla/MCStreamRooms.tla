--------------------------- MODULE MCStreamRooms ---------------------------
(* Instance of StreamRooms for TLC. *)
EXTENDS StreamRooms

CONSTANTS h1, h2, h3, l1, l2
============================================================================
