---------------------------- MODULE MCMuxStream ----------------------------
(* Instances of MuxStream for TLC. *)
EXTENDS MuxStream

WinTwo == [e \in Ends |-> 2]
WinMismatch == [e \in Ends |-> IF e = "opener" THEN 2 ELSE 1]
Bytes22 == [e \in Ends |-> 2]
Bytes32 == [e \in Ends |-> IF e = "opener" THEN 3 ELSE 2]
AllEnds == Ends
============================================================================
