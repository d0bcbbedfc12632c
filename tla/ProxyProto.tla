----------------------------- MODULE ProxyProto -----------------------------
(***************************************************************************)
(* proxy_proto::Stream: a stream that takes a PROXY header off the front   *)
(* of what it reads (incoming), puts one in front of what it writes        *)
(* (outgoing), or does neither (disabled).                                 *)
(*                                                                         *)
(* A byte is its position.  What the inner stream will deliver is fixed by *)
(* input; how it is cut into reads is not.  Buffers and deliveries are     *)
(* intervals of positions.                                                 *)
(***************************************************************************)
EXTENDS Integers, Sequences

CONSTANTS
  Inputs,    \* what may arrive, see InputAssumption
  MinLen,    \* MIN_HEADER_LEN
  MaxLen,    \* MAX_HEADER_LEN
  SigLen,    \* bytes the parser needs to tell a header from anything else
  OutLen,    \* length of an outgoing header
  Rooms,     \* sizes of the buffers the application reads into
  MaxData    \* bound: bytes the application writes

\* mode: which constructor made the stream.  kind: the input starts with a
\* header of hdr bytes, with something else, or with a header that is wrong.
\* len: bytes until its end; cr: positions of '\r'; fails: whether reading may
\* end in an I/O error.
InputSpace == [mode : {"incoming", "outgoing", "disabled"},
               kind : {"proxy", "plain", "bad"},
               hdr : Nat \ {0}, len : Nat, cr : SUBSET Nat, fails : BOOLEAN]

ASSUME InputAssumption ==
  /\ Inputs \subseteq InputSpace
  /\ MinLen \in Nat /\ MaxLen \in Nat /\ SigLen \in Nat
  /\ SigLen <= MinLen /\ MinLen < MaxLen
  /\ OutLen \in Nat \ {0} /\ MaxData \in Nat
  /\ Rooms \subseteq Nat \ {0}

VARIABLES
  input,   \* the input of this behaviour
  taken,   \* bytes the inner stream has delivered
  rs,      \* ReadState: its variant, last_err, the header, the bytes kept
  call,    \* the call that polls the read half
  answer,  \* what the last proxy_header() returned
  out,     \* deliveries to the application, as intervals
  ws,      \* WriteState: bytes of the header still to be written
  wcall,   \* size of the write in progress
  wrote,   \* bytes of the application written
  wire     \* writes to the inner stream

vars == <<input, taken, rs, call, answer, out, ws, wcall, wrote, wire>>
----------------------------------------------------------------------------
\* The bytes from..to of the input.
Interval == [from : Nat, to : Nat]
Size(i) == i.to - i.from + 1

ReadStates == [st : {"Reading", "Error", "Header", "None"}, err : BOOLEAN,
               hdr : BOOLEAN, from : Nat, to : Nat]
Writes == [what : {"header", "data"}, from : Nat, to : Nat]

\* ReadState::new or None, by constructor.
NewReadState ==
  [st |-> IF input.mode = "incoming" THEN "Reading" ELSE "None",
   err |-> FALSE, hdr |-> FALSE, from |-> 1, to |-> 0]

Init ==
  /\ input \in Inputs
  /\ taken = 0
  /\ rs = NewReadState
  /\ call = "none"
  /\ answer = "none"
  /\ out = <<>>
  /\ ws = IF input.mode = "outgoing" THEN OutLen ELSE 0
  /\ wcall = 0
  /\ wrote = 0
  /\ wire = <<>>
----------------------------------------------------------------------------
(* Reading the header: poll_read_header_once.                              *)

\* proxy_protocol::parse of the first n bytes.  It panics on a header that is
\* cut between '\r' and '\n'.
Parse(n) ==
  IF n < SigLen \/ input.kind = "plain" THEN "NotProxyHeader"
  ELSE IF n \in input.cr THEN "panic"
  ELSE IF input.kind = "proxy" /\ input.hdr <= n THEN "ok"
  ELSE "error"

\* Mutant of Parsed: short input is parsed.
ParsedEarly(s) ==
  LET n == Size(s) IN
  IF n \in input.cr THEN s ELSE
  CASE Parse(n) = "ok" -> [s EXCEPT !.st = "Header", !.hdr = TRUE, !.from = @ + input.hdr]
    [] Parse(n) = "NotProxyHeader" -> [s EXCEPT !.st = "Header"]
    [] OTHER -> IF n >= MaxLen THEN [s EXCEPT !.st = "Error", !.err = TRUE]
                ELSE [s EXCEPT !.err = TRUE]

\* Mutant of Parsed: input that ends in '\r' is parsed.
ParsedAtCr(s) ==
  LET n == Size(s) IN
  IF n < MinLen THEN s ELSE
  CASE Parse(n) = "panic" -> [s EXCEPT !.st = "panic"]
    [] Parse(n) = "ok" -> [s EXCEPT !.st = "Header", !.hdr = TRUE, !.from = @ + input.hdr]
    [] Parse(n) = "NotProxyHeader" -> [s EXCEPT !.st = "Header"]
    [] OTHER -> IF n >= MaxLen THEN [s EXCEPT !.st = "Error", !.err = TRUE]
                ELSE [s EXCEPT !.err = TRUE]

\* Mutant of Parsed: an error is never fatal.
ParsedForEver(s) ==
  LET n == Size(s) IN
  IF n < MinLen \/ n \in input.cr THEN s ELSE
  CASE Parse(n) = "ok" -> [s EXCEPT !.st = "Header", !.hdr = TRUE, !.from = @ + input.hdr]
    [] Parse(n) = "NotProxyHeader" -> [s EXCEPT !.st = "Header"]
    [] OTHER -> [s EXCEPT !.err = TRUE]

\* What the loop makes of the bytes it has: nothing yet, a header, no header,
\* or an error, which is fatal only when no more would be read.
Parsed(s) ==
  LET n == Size(s) IN
  IF n < MinLen \/ n \in input.cr THEN s ELSE
  CASE Parse(n) = "ok" -> [s EXCEPT !.st = "Header", !.hdr = TRUE, !.from = @ + input.hdr]
    [] Parse(n) = "NotProxyHeader" -> [s EXCEPT !.st = "Header"]
    [] OTHER -> IF n >= MaxLen THEN [s EXCEPT !.st = "Error", !.err = TRUE]
                ELSE [s EXCEPT !.err = TRUE]

Polling == call # "none" /\ rs.st = "Reading"
HasRoom == Size(rs) < MaxLen

\* The application polls: proxy_header().await or a read.
Poll(c) ==
  /\ call = "none"
  /\ call' = c
  /\ UNCHANGED <<input, taken, rs, answer, out, ws, wcall, wrote, wire>>

\* One round of the loop in which the inner stream delivers n bytes.
ReadMore(n) ==
  /\ Polling /\ HasRoom
  /\ n <= MaxLen - Size(rs)
  /\ taken + n <= input.len
  /\ taken' = taken + n
  /\ rs' = Parsed([rs EXCEPT !.to = @ + n])
  /\ UNCHANGED <<input, call, answer, out, ws, wcall, wrote, wire>>

\* One round with a full buffer: nothing is read.
ParseFull ==
  /\ Polling /\ ~HasRoom
  /\ rs' = Parsed(rs)
  /\ UNCHANGED <<input, taken, call, answer, out, ws, wcall, wrote, wire>>

\* Mutant of Ended: what was read is dropped.
EndedEmpty(s) == [s EXCEPT !.st = IF s.err THEN "Error" ELSE "Header", !.from = s.to + 1]

\* The terminal state when the input ends before a header was found.
Ended(s) == [s EXCEPT !.st = IF s.err THEN "Error" ELSE "Header"]

\* EOF.  The call goes on: a read passes on what was kept.
ReadEof ==
  /\ Polling /\ HasRoom
  /\ taken = input.len
  /\ rs' = Ended(rs)
  /\ UNCHANGED <<input, taken, call, answer, out, ws, wcall, wrote, wire>>

\* The inner stream fails, after n more bytes; the call returns its error.
ReadFails(n) ==
  /\ Polling /\ HasRoom
  /\ input.fails
  /\ n <= MaxLen - Size(rs)
  /\ taken + n <= input.len
  /\ taken' = taken + n
  /\ rs' = Ended([rs EXCEPT !.to = @ + n])
  /\ answer' = IF call = "header" THEN "io" ELSE answer
  /\ call' = "none"
  /\ UNCHANGED <<input, out, ws, wcall, wrote, wire>>

\* The application drops the future: what was read stays in the state.
Cancel ==
  /\ Polling
  /\ call' = "none"
  /\ UNCHANGED <<input, taken, rs, answer, out, ws, wcall, wrote, wire>>

\* proxy_header() returns ReadState::header.
HeaderDone ==
  /\ call = "header" /\ rs.st # "Reading"
  /\ answer' = CASE rs.st = "Error" -> "error"
                 [] rs.st = "Header" /\ rs.hdr -> "some"
                 [] OTHER -> "no"
  /\ call' = "none"
  /\ UNCHANGED <<input, taken, rs, out, ws, wcall, wrote, wire>>
----------------------------------------------------------------------------
(* Reading: poll_read once the header has been dealt with.                 *)

Deliver(n, first) == out' = Append(out, [from |-> first, to |-> first + n - 1])

Kept == rs.st \in {"Error", "Header"} /\ Size(rs) > 0

\* Bytes kept with the header come first.
ReadKept(room) ==
  /\ call = "read" /\ Kept
  /\ LET n == IF room < Size(rs) THEN room ELSE Size(rs) IN
       /\ Deliver(n, rs.from)
       /\ rs' = [rs EXCEPT !.from = @ + n]
  /\ call' = "none"
  /\ UNCHANGED <<input, taken, answer, ws, wcall, wrote, wire>>

Direct == call = "read" /\ rs.st # "Reading" /\ ~Kept

\* Then the inner stream is read.
ReadInner(room, n) ==
  /\ Direct
  /\ n <= room
  /\ taken + n <= input.len
  /\ Deliver(n, taken + 1)
  /\ taken' = taken + n
  /\ call' = "none"
  /\ UNCHANGED <<input, rs, answer, ws, wcall, wrote, wire>>

\* The inner stream is at its end, or fails: the application is told.
ReadInnerEnds ==
  /\ Direct
  /\ taken = input.len \/ input.fails
  /\ call' = "none"
  /\ UNCHANGED <<input, taken, rs, answer, out, ws, wcall, wrote, wire>>
----------------------------------------------------------------------------
(* Writing: poll_write, poll_write_header_once.                            *)

PollWrite(n) ==
  /\ wcall = 0
  /\ wrote + n <= MaxData
  /\ wcall' = n
  /\ UNCHANGED <<input, taken, rs, call, answer, out, ws, wrote, wire>>

\* Mutant of WriteHeader: what is left of the header after a short write is lost.
WriteHeaderOnce(n) ==
  /\ wcall > 0 /\ n <= ws
  /\ wire' = Append(wire, [what |-> "header", from |-> OutLen - ws + 1, to |-> OutLen - ws + n])
  /\ ws' = 0
  /\ UNCHANGED <<input, taken, rs, call, answer, out, wcall, wrote>>

\* The inner stream takes n bytes of the header.
WriteHeader(n) ==
  /\ wcall > 0 /\ n <= ws
  /\ wire' = Append(wire, [what |-> "header", from |-> OutLen - ws + 1, to |-> OutLen - ws + n])
  /\ ws' = ws - n
  /\ UNCHANGED <<input, taken, rs, call, answer, out, wcall, wrote>>

\* It fails, or the caller gives up: the rest of the header is kept for the next
\* write.
WriteFails ==
  /\ wcall > 0
  /\ wcall' = 0
  /\ UNCHANGED <<input, taken, rs, call, answer, out, ws, wrote, wire>>

\* The header is out: the inner stream takes n bytes of the application's.
WriteData(n) ==
  /\ wcall > 0 /\ ws = 0
  /\ n <= wcall
  /\ wire' = Append(wire, [what |-> "data", from |-> wrote + 1, to |-> wrote + n])
  /\ wrote' = wrote + n
  /\ wcall' = 0
  /\ UNCHANGED <<input, taken, rs, call, answer, out, ws>>
----------------------------------------------------------------------------
Positions(n) == 1..n

ReadStep ==
  \/ \E n \in Positions(MaxLen) : ReadMore(n)
  \/ ParseFull \/ ReadEof \/ HeaderDone \/ ReadInnerEnds
  \/ \E room \in Rooms : ReadKept(room) \/ \E n \in Positions(room) : ReadInner(room, n)

Next ==
  \/ \E c \in {"header", "read"} : Poll(c)
  \/ ReadStep
  \/ Cancel
  \/ \E n \in 0..MaxLen : ReadFails(n)
  \/ \E n \in Positions(MaxData) : PollWrite(n) \/ WriteData(n)
  \/ \E n \in Positions(OutLen) : WriteHeader(n)
  \/ WriteFails

\* The task that polls is polled again when the inner stream is ready, and the
\* inner stream delivers what it has.
Spec == Init /\ [][Next]_vars /\ WF_vars(ReadStep)
----------------------------------------------------------------------------
\* Types: the parser's panic, a state of none of the read states, is never reached
\* ("hack around a bug in the proxy_protocol crate", proxy_proto.rs:112).
TypeOK ==
  /\ input \in Inputs
  /\ taken \in 0..input.len
  /\ rs \in ReadStates
  /\ call \in {"none", "header", "read"}
  /\ answer \in {"none", "io", "error", "some", "no"}
  /\ out \in Seq(Interval)
  /\ ws \in 0..OutLen
  /\ wcall \in 0..MaxData
  /\ wrote \in 0..MaxData
  /\ wire \in Seq(Writes)

\* Where the application's bytes begin: after the header, if one was found.
First == IF rs.hdr THEN input.hdr + 1 ELSE 1

\* The next byte the application is due.
Due == IF out = <<>> THEN First ELSE out[Len(out)].to + 1

\* The application gets every byte behind the header, or every byte when there
\* is none, once and in order, however the input is cut into reads: deliveries
\* follow each other, and the bytes due are the ones kept, then the inner
\* stream's (poll_read_header_once's buffer, `remainder.split_to`).
BytesInOrder ==
  /\ out # <<>> => out[1].from = First
  /\ \A i \in 1..(Len(out) - 1) : out[i + 1].from = out[i].to + 1
  /\ rs.st = "Reading" => out = <<>> /\ rs.from = 1 /\ rs.to = taken
  /\ Kept => rs.from = Due /\ rs.to = taken
  /\ ~Kept /\ rs.st # "Reading" => Due = taken + 1

\* The header can be found in the input wherever the input is cut.  It cannot
\* when the input ends before MIN_HEADER_LEN, or when the last byte that can be
\* looked at is '\r': the input is then taken to have no header (README).
Findable ==
  /\ input.kind = "proxy" /\ ~input.fails
  /\ input.hdr <= input.len /\ input.hdr <= MaxLen
  /\ MinLen <= input.len /\ input.len \notin input.cr

\* Where the input is cut does not decide what the header is: a header that is
\* there is found, and nothing else is ever taken for one (MIN_HEADER_LEN, the
\* '\r' test, last_err in poll_read_header_once), nor does it make the parser
\* panic.
CutIndependent ==
  /\ rs.st # "panic"
  /\ rs.hdr => input.kind = "proxy" /\ input.hdr <= MaxLen
  /\ rs.st \in {"Header", "Error"} /\ Findable => rs.hdr

\* The header goes out whole, once, and before any byte of the application,
\* whose bytes follow in order: short writes and failed writes of the header
\* included (poll_write_header_once).
WireInOrder ==
  /\ \A i \in 1..Len(wire) :
       LET before == wire[i - 1] IN
       /\ i = 1 => wire[i].from = 1
       /\ i > 1 /\ wire[i].what = before.what => wire[i].from = before.to + 1
       /\ i > 1 /\ wire[i].what # before.what =>
            before.what = "header" /\ before.to = OutLen /\ wire[i].from = 1
  /\ wire # <<>> /\ wire[1].what = "data" => input.mode # "outgoing"

\* Neither half loses, repeats or reorders a byte, whatever the stream below does.
BytesKept == TypeOK /\ BytesInOrder /\ WireInOrder

\* MAX_HEADER_LEN bytes that end in '\r': the loop neither reads nor parses, and
\* goes round for ever.
Spinning == call # "none" /\ rs.st = "Reading" /\ ~HasRoom /\ Size(rs) \in input.cr

\* A call that waits for the header comes to its end, whatever is sent and however
\* it is cut (the bound MAX_HEADER_LEN, and EOF), but for that one input.
Settles == (call = "header") ~> (call # "header" \/ Spinning)
=============================================================================
