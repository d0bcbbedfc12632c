---------------------------- MODULE MCMuxSession ----------------------------
(* Instances of MuxSession for TLC. *)
EXTENDS MuxSession

Opens10 == [e \in Ends |-> IF e = "client" THEN 1 ELSE 0]
Opens11 == [e \in Ends |-> 1]

Limits21 == [e \in Ends |-> IF e = "client" THEN 2 ELSE 1]
Limits33 == [e \in Ends |-> 3]

Cancels == [e \in Ends |-> {"cancel"}]
OneEnds == [e \in Ends |-> IF e = "client" THEN {"cancel", "close"} ELSE {"drop", "unknown"}]

\* close() with an error, or without one; the message is long enough to be encoded.
LongGoAways  == {GoAway(TRUE, TRUE), GoAway(FALSE, TRUE)}
ErrorGoAways == {GoAway(TRUE, TRUE)}
=============================================================================
