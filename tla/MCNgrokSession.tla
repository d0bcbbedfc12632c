--------------------------- MODULE MCNgrokSession ---------------------------
(* Instances of NgrokSession for TLC. *)
EXTENDS NgrokSession

CONSTANTS a, b  \* two tunnels
=============================================================================
