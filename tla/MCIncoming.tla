----------------------------- MODULE MCIncoming -----------------------------
EXTENDS Incoming

\* Streams without a call, and a call without streams.
MCBudgets == {[streams |-> MaxStreams, calls |-> 0], [streams |-> 0, calls |-> 1]}
=============================================================================
