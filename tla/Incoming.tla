------------------------------ MODULE Incoming ------------------------------
(***************************************************************************)
(* RawSession: the streams the service opens (IncomingStreams::accept on   *)
(* top of Heartbeat and Typed), the tasks that answer commands and         *)
(* heartbeats, and RpcClient::rpc.                                         *)
(*                                                                         *)
(* The service writes a stream in two parts, its type and its request, and *)
(* may end it anywhere; a stream of a lost connection ends too (StreamsRe- *)
(* achEnd of MuxSession).  What a tunnel does with a connection is in      *)
(* NgrokSession, when heartbeats are sent in Heartbeat.                    *)
(***************************************************************************)
EXTENDS Integers, Sequences

CONSTANTS
  MaxStreams,  \* bound: streams the service opens
  Budgets,     \* bound: streams and calls of one behaviour; they share nothing
               \* but the connection
  Types,       \* types they may have
  Handlers,    \* commands the application has a handler for
  Window,      \* heartbeat answers the peer's window has room for
  Replies      \* what the service may answer to an RPC

Commands == {"Restart", "Stop", "Update"}
AllTypes == Commands \cup {"Proxy", "StopTunnel", "Heartbeat", "Unknown"}
AllReplies == {"ok", "error", "both", "junk"}

ASSUME IncomingAssumption ==
  /\ MaxStreams \in Nat /\ Budgets \subseteq [streams : 0..MaxStreams, calls : 0..1]
  /\ Types \subseteq AllTypes /\ Handlers \subseteq Commands
  /\ Window \in Nat /\ Replies \subseteq AllReplies

VARIABLES
  budget,    \* see Budgets
  opened,    \* streams opened so far
  typ,       \* type of each stream, once it has arrived
  body,      \* its request: not there yet, well formed, or not
  ended,     \* the stream has ended
  queue,     \* streams opened and not accepted, in order
  loop,      \* where IncomingStreams::accept is, and in which stream
  session,   \* IncomingStreams::session is set
  got,       \* streams that were acted upon by the loop, in order
  bad,       \* streams the loop dropped with a warning, or unread
  task,      \* the task spawned for a stream
  answer,    \* what it wrote
  held,      \* the HeartbeatCtl in RpcClient
  conn,      \* the connection: "up" or "lost"
  rpc,       \* RpcClient::rpc: where it is, or its result
  reply      \* what has come back

vars == <<budget, opened, typ, body, ended, queue, loop, session, got, bad, task, answer, held, conn,
          rpc, reply>>
service == <<budget, opened, typ, body, ended, conn>>
rpcVars == <<rpc, reply>>
taskVars == <<task, answer>>
----------------------------------------------------------------------------
None == "none"
Streams == 1..MaxStreams
Tasks == {"none", "read", "run", "write", "echo", "exited"}
Results == {"open_err", "send_err", "invalid", "error", "ok"}

\* RawSession::start; session is set for the first connection only.
Init ==
  /\ budget \in Budgets
  /\ opened = 0
  /\ typ = [s \in Streams |-> None]
  /\ body = [s \in Streams |-> None]
  /\ ended = [s \in Streams |-> FALSE]
  /\ queue = <<>>
  /\ loop = [pc |-> "accept", s |-> 0]
  /\ session \in BOOLEAN
  /\ got = <<>> /\ bad = {}
  /\ task = [s \in Streams |-> "none"]
  /\ answer = [s \in Streams |-> <<>>]
  /\ held = TRUE
  /\ conn = "up"
  /\ rpc = "idle" /\ reply = None
----------------------------------------------------------------------------
(* The service.                                                            *)

ServiceSame == UNCHANGED <<budget, loop, session, got, bad, taskVars, held, rpcVars>>

OpenStream ==
  /\ conn = "up" /\ opened < budget.streams
  /\ opened' = opened + 1
  /\ queue' = Append(queue, opened')
  /\ UNCHANGED <<typ, body, ended, conn>> /\ ServiceSame

WriteType(s, t) ==
  /\ s <= opened /\ ~ended[s] /\ typ[s] = None
  /\ typ' = [typ EXCEPT ![s] = t]
  /\ UNCHANGED <<opened, body, ended, queue, conn>> /\ ServiceSame

WriteBody(s, b) ==
  /\ typ[s] # None /\ ~ended[s] /\ body[s] = None
  /\ body' = [body EXCEPT ![s] = b]
  /\ UNCHANGED <<opened, typ, ended, queue, conn>> /\ ServiceSame

EndStream(s) ==
  /\ s <= opened /\ ~ended[s]
  /\ ended' = [ended EXCEPT ![s] = TRUE]
  /\ UNCHANGED <<opened, typ, body, queue, conn>> /\ ServiceSame

LoseConnection ==
  /\ conn = "up"
  /\ conn' = "lost"
  /\ ended' = [s \in Streams |-> TRUE]
  /\ UNCHANGED <<opened, typ, body, queue>> /\ ServiceSame
----------------------------------------------------------------------------
(* IncomingStreams::accept, and accept_one around it.                      *)

At(pc, s) == loop' = [pc |-> pc, s |-> s]
Back == At("accept", 0)

\* Mutant of Accept: the latest stream first.
AcceptLast ==
  /\ loop.pc = "accept" /\ queue # <<>>
  /\ At("type", queue[Len(queue)])
  /\ queue' = SubSeq(queue, 1, Len(queue) - 1)
  /\ UNCHANGED <<service, session, got, bad, taskVars, held, rpcVars>>

Accept ==
  /\ loop.pc = "accept" /\ queue # <<>>
  /\ At("type", Head(queue))
  /\ queue' = Tail(queue)
  /\ UNCHANGED <<service, session, got, bad, taskVars, held, rpcVars>>

\* No stream is left on a connection that is lost: a transport error, and the
\* session is taken to be down.
AcceptFails ==
  /\ loop.pc = "accept" /\ queue = <<>> /\ conn = "lost"
  /\ At("down", 0)
  /\ UNCHANGED <<service, queue, session, got, bad, taskVars, held, rpcVars>>

\* Mutant of NoType: a stream that ends with the connection is waited for.
NoTypeUp ==
  /\ loop.pc = "type" /\ typ[loop.s] = None /\ ended[loop.s] /\ conn = "up"
  /\ At("down", loop.s)
  /\ UNCHANGED <<service, queue, session, got, bad, taskVars, held, rpcVars>>

\* The stream ends before its type: Error::StreamClosed, which is a transport
\* error as well.
NoType ==
  /\ loop.pc = "type" /\ typ[loop.s] = None /\ ended[loop.s]
  /\ At("down", loop.s)
  /\ UNCHANGED <<service, queue, session, got, bad, taskVars, held, rpcVars>>

Spawn(t) ==
  /\ task' = [task EXCEPT ![loop.s] = t]
  /\ Back
  /\ UNCHANGED bad

\* What is done with a stream of type t.  A heartbeat is intercepted by Heart-
\* beat::accept_typed; a command gets a task; a StopTunnel without a Session is
\* dropped unread; an unknown type is an error that accept_one only logs.
Dispatch(t) ==
  CASE t = "Heartbeat" -> Spawn("echo")
    [] t \in Commands -> Spawn("read")
    [] t = "Proxy" \/ (t = "StopTunnel" /\ session) -> At("body", loop.s) /\ UNCHANGED <<task, bad>>
    [] OTHER -> Back /\ bad' = bad \cup {loop.s} /\ UNCHANGED task

ReadType ==
  /\ loop.pc = "type" /\ typ[loop.s] # None
  /\ Dispatch(typ[loop.s])
  /\ UNCHANGED <<service, queue, session, got, answer, held, rpcVars>>

\* A proxy header or a StopTunnel request has been read: the connection goes to
\* its tunnel, or the tunnel is closed with the error.
ReadBody ==
  /\ loop.pc = "body" /\ body[loop.s] = "good"
  /\ got' = Append(got, loop.s)
  /\ Back
  /\ UNCHANGED <<service, queue, session, bad, taskVars, held, rpcVars>>

\* Mutant of BadBody: a bad request is a transport error.
BadBodyDown ==
  /\ loop.pc = "body"
  /\ \/ body[loop.s] = "bad"
     \/ body[loop.s] = None /\ ended[loop.s] /\ typ[loop.s] = "Proxy"
  /\ bad' = bad \cup {loop.s}
  /\ At("down", loop.s)
  /\ UNCHANGED <<service, queue, session, got, taskVars, held, rpcVars>>

\* Mutant of BadBody: only a header cut short is given up.
BadBodyShort ==
  /\ loop.pc = "body"
  /\ body[loop.s] = None /\ ended[loop.s] /\ typ[loop.s] = "Proxy"
  /\ bad' = bad \cup {loop.s}
  /\ Back
  /\ UNCHANGED <<service, queue, session, got, taskVars, held, rpcVars>>

\* It does not parse, or a proxy header is cut short: logged.  A StopTunnel that
\* is cut short is read on: see Spinning.
BadBody ==
  /\ loop.pc = "body"
  /\ \/ body[loop.s] = "bad"
     \/ body[loop.s] = None /\ ended[loop.s] /\ typ[loop.s] = "Proxy"
  /\ bad' = bad \cup {loop.s}
  /\ Back
  /\ UNCHANGED <<service, queue, session, got, taskVars, held, rpcVars>>
----------------------------------------------------------------------------
(* The tasks: handle_req for a command, start_responder for heartbeats.    *)

To(s, pc) == task' = [task EXCEPT ![s] = pc]
LoopSame == UNCHANGED <<service, queue, loop, session, got, bad, held, rpcVars>>

\* Mutant of ReadReq: without a handler there is no answer.
ReadReqSilent(s) ==
  /\ task[s] = "read" /\ body[s] # None
  /\ To(s, IF body[s] = "bad" \/ typ[s] \notin Handlers THEN "exited" ELSE "run")
  /\ LoopSame /\ UNCHANGED answer

\* The request is read; without a handler the answer is NOT_IMPLEMENTED.
ReadReq(s) ==
  /\ task[s] = "read" /\ body[s] # None
  /\ To(s, IF body[s] = "bad" THEN "exited" ELSE IF typ[s] \in Handlers THEN "run" ELSE "write")
  /\ LoopSame /\ UNCHANGED answer

RunHandler(s) ==
  /\ task[s] = "run"
  /\ To(s, "write")
  /\ LoopSame /\ UNCHANGED answer

\* Mutant of WriteAnswer: the answer is retried when the stream has ended.
WriteAnswerAgain(s) ==
  /\ task[s] = "write"
  /\ answer' = [answer EXCEPT ![s] = Append(@, typ[s])]
  /\ To(s, IF ended[s] THEN "write" ELSE "exited")
  /\ LoopSame

\* The answer is written, or lost with a stream that has been reset.
WriteAnswer(s) ==
  /\ task[s] = "write"
  /\ answer' \in {[answer EXCEPT ![s] = <<typ[s]>>]} \cup (IF ended[s] THEN {answer} ELSE {})
  /\ To(s, "exited")
  /\ LoopSame

\* The responder echoes what it reads.  At the end of the stream it reads 0
\* bytes, again and again, and answers zeros until the window is full.
Echo(s) ==
  /\ task[s] = "echo"
  /\ body[s] # None \/ ended[s]
  /\ ended[s] \/ Len(answer[s]) = 0
  /\ Len(answer[s]) < Window
  /\ answer' = [answer EXCEPT ![s] = Append(@, IF body[s] # None /\ @ = <<>> THEN "id" ELSE "zero")]
  /\ LoopSame /\ UNCHANGED task

\* Mutant of EchoEnds: the responder looks at its stream only.
EchoEndsLost(s) ==
  /\ task[s] = "echo" /\ conn = "lost"
  /\ To(s, "exited")
  /\ LoopSame /\ UNCHANGED answer

\* A write on a connection that is lost fails; drop_waiter ends the task too.
EchoEnds(s) ==
  /\ task[s] = "echo" /\ (conn = "lost" \/ ~held)
  /\ To(s, "exited")
  /\ LoopSame /\ UNCHANGED answer

\* The last holder of the RpcClient drops it, with its HeartbeatCtl.
DropClient ==
  /\ held /\ rpc \in {"idle"} \cup Results
  /\ held' = FALSE
  /\ UNCHANGED <<service, queue, loop, session, got, bad, taskVars, rpcVars>>
----------------------------------------------------------------------------
(* RpcClient::rpc.                                                         *)

RpcSame == UNCHANGED <<service, queue, loop, session, got, bad, taskVars, held>>

\* open_typed, then the request: both fail on a connection that is lost.
Call ==
  /\ rpc = "idle" /\ held /\ budget.calls > 0
  /\ rpc' \in IF conn = "up" THEN {"reading"} ELSE {"open_err", "send_err"}
  /\ RpcSame /\ UNCHANGED reply

\* An answer arrives, or a part of one.
Reply(w) ==
  /\ rpc = "reading" /\ conn = "up" /\ reply \in {None, "part"}
  /\ reply' = w
  /\ RpcSame /\ UNCHANGED rpc

\* Mutant of Decoded: an answer that parses is taken first.
DecodedOk ==
  CASE reply \in {None, "part", "junk"} -> "invalid"
    [] reply \in {"both", "ok"} -> "ok"
    [] OTHER -> "error"

\* What is read to the end: an error in it goes first, then the answer, and
\* what is neither is invalid.
Decoded ==
  CASE reply \in {None, "part", "junk"} -> "invalid"
    [] reply \in {"both", "error"} -> "error"
    [] OTHER -> "ok"

\* Mutant of Return: only an answer ends the call.
ReturnAnswered ==
  /\ rpc = "reading" /\ reply # None
  /\ rpc' = Decoded
  /\ RpcSame /\ UNCHANGED reply

\* The service ends the stream, or the connection is lost.  A muxado stream ends
\* its reads with EOF and never with an error, so RpcError::Receive is not met.
Return ==
  /\ rpc = "reading"
  /\ rpc' = Decoded
  /\ RpcSame /\ UNCHANGED reply
----------------------------------------------------------------------------
LoopStep == Accept \/ AcceptFails \/ NoType \/ ReadType \/ ReadBody \/ BadBody
TaskStep(s) == ReadReq(s) \/ RunHandler(s) \/ WriteAnswer(s) \/ Echo(s) \/ EchoEnds(s)

Next ==
  \/ LoopStep \/ LoseConnection \/ DropClient
  \/ OpenStream
  \/ \E s \in Streams : EndStream(s) \/ TaskStep(s)
  \/ \E s \in Streams, t \in Types : WriteType(s, t)
  \/ \E s \in Streams, b \in {"good", "bad"} : WriteBody(s, b)
  \/ Call \/ Return
  \/ \E w \in Replies \cup {"part"} : Reply(w)

\* The loop and each task are tokio tasks: they run while they can.
Spec ==
  /\ Init /\ [][Next]_vars
  /\ WF_vars(LoopStep) /\ WF_vars(conn = "lost" /\ Return)
  /\ \A s \in Streams : WF_vars(TaskStep(s))
----------------------------------------------------------------------------
\* Types: the accept loop is always in a stream that was opened, an answered
\* command has one answer, and a responder never writes past the peer's window
\* (handle_req, start_responder).
TypeOK ==
  /\ budget \in Budgets
  /\ opened \in 0..MaxStreams /\ queue \in Seq(1..opened)
  /\ typ \in [Streams -> Types \cup {None}] /\ body \in [Streams -> {None, "good", "bad"}]
  /\ ended \in [Streams -> BOOLEAN]
  /\ loop \in [pc : {"accept", "type", "body", "down"}, s : 0..opened]
  /\ session \in BOOLEAN
  /\ got \in Seq(Streams) /\ bad \subseteq Streams
  /\ task \in [Streams -> Tasks]
  /\ \A s \in Streams : Len(answer[s]) <= (IF typ[s] = "Heartbeat" THEN Window ELSE 1)
  /\ held \in BOOLEAN /\ conn \in {"up", "lost"}
  /\ rpc \in {"idle", "reading"} \cup Results
  /\ reply \in Replies \cup {None, "part"}

\* Connections and the closing of tunnels take effect in the order in which the
\* service opened their streams, so a tunnel never gets a connection the service
\* sent after it was stopped (the loop reads headers and StopTunnel in line).
InOrder == \A i, j \in 1..Len(got) : i < j => got[i] < got[j]

\* The session is taken for lost only when the connection is, or when a stream
\* ended before its type: bad requests, unknown types and failed commands cost
\* no more than their own stream (accept_one).
DownHasCause ==
  loop.pc = "down" =>
    conn = "lost" \/ (loop.s # 0 /\ typ[loop.s] = None /\ ended[loop.s])

\* The loop acts on streams one by one, and what one holds harms no other.
LoopIsOrderly == TypeOK /\ InOrder /\ DownHasCause

\* read_req at the end of a stream: the loop neither waits nor ends.
Spinning ==
  loop.pc = "body" /\ typ[loop.s] = "StopTunnel" /\ body[loop.s] = None /\ ended[loop.s]

\* The loop waits for bytes of a stream.
Waiting ==
  \/ loop.pc = "type" /\ typ[loop.s] = None
  \/ loop.pc = "body" /\ body[loop.s] = None

Queued(s) == \E i \in 1..Len(queue) : queue[i] = s

\* A stream that is there is seen through, unless the loop waits in line for the
\* bytes of an earlier one: a command or a heartbeat never holds the loop.
StreamsAreSeen ==
  \A s \in Streams :
    Queued(s) ~> (~Queued(s) \/ Waiting \/ loop.pc = "down")

\* The loop learns of the loss of the connection, except in Spinning, and an RPC
\* that waits for its answer returns.
LossIsSeen ==
  /\ conn = "lost" ~> (loop.pc = "down" \/ Spinning)
  /\ (rpc = "reading" /\ conn = "lost") ~> rpc # "reading"

\* A command that has arrived whole is answered, whatever the loop waits for and
\* whether or not there is a handler, unless its stream has ended.
CommandsAnswered ==
  \A s \in Streams :
    (task[s] = "read" /\ body[s] = "good") ~> (answer[s] # <<>> \/ ended[s])

\* The heartbeat responders end with the session, even one that is blocked in a
\* write after the end of its stream.
RespondersEnd == \A s \in Streams : (task[s] = "echo" /\ ~held) ~> task[s] # "echo"

\* The spawned tasks do their work and are over, whatever the accept loop does.
TasksServe == CommandsAnswered /\ RespondersEnd

\* An RPC is a success only if the service said so: an answer cut short, or one
\* that carries an error as well, is none.
RpcIsTrue == rpc = "ok" => reply = "ok"
=============================================================================
