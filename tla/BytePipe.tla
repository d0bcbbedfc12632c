------------------------------ MODULE BytePipe ------------------------------
(***************************************************************************)
(* What one direction of a stream promises: bytes come out in the order    *)
(* and number they went in, and end of file is reported once everything    *)
(* was taken and nothing more can be written, unless the direction broke.  *)
(***************************************************************************)
EXTENDS Naturals

VARIABLES
  written,    \* bytes the writer handed in
  delivered,  \* bytes the reader was given
  ended,      \* the writer can write no more
  broken,     \* the reader was told of a reset
  eof         \* the reader sees end of file

pipe == <<written, delivered, ended, broken, eof>>

PipeInit == written = 0 /\ delivered = 0 /\ ~ended /\ ~broken /\ ~eof

Put ==
  /\ ~ended
  /\ written' > written
  /\ UNCHANGED <<delivered, ended, broken, eof>>

End == ended' /\ UNCHANGED <<written, delivered, broken, eof>>

Take ==
  /\ delivered' \in delivered..written
  /\ broken => broken'
  /\ eof => eof'
  /\ eof' => broken' \/ (ended /\ delivered' = written)
  /\ UNCHANGED <<written, ended>>

PipeNext == Put \/ End \/ Take

PipeSpec == PipeInit /\ [][PipeNext]_pipe
============================================================================
