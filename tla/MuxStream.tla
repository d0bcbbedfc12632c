----------------------------- MODULE MuxStream -----------------------------
(***************************************************************************)
(* One muxado stream between the end that opened it and the end that       *)
(* accepted it, over a session that stays up.  Each end has                *)
(*   - the application's Stream object (muxado/src/stream.rs),             *)
(*   - the manager's StreamHandle for it (muxado/src/stream_manager.rs),   *)
(*   - the two bounded channels between them,                              *)
(*   - the session's reader and writer tasks (muxado/src/session.rs).      *)
(* `wire` is the connection under the session: reliable and in order.      *)
(*                                                                         *)
(* A byte is known by its position in the sequence of bytes its end ever   *)
(* wrote: a data frame carries the positions off .. off+len-1, a WNDINC    *)
(* the positions it gives back.  Only len is in the real frame; off exists *)
(* so that order, loss and credit can be stated without sums.              *)
(***************************************************************************)
EXTENDS Integers, Sequences

CONSTANTS
  W,           \* the window of each end (SessionBuilder::window_size)
  WireCap,     \* frames the connection holds
  SysCap,      \* capacity of the manager's channel of system frames
  WriteSizes,  \* lengths of the buffers given to poll_write
  ReadSizes,   \* lengths of the buffers given to poll_read
  MaxBytes,    \* bound: bytes each end writes
  MayDrop      \* the ends whose application may drop its Stream

Ends == {"opener", "acceptor"}

ASSUME WindowAssumption == W \in [Ends -> Nat \ {0}]
ASSUME BoundAssumption  ==
  /\ WireCap \in Nat \ {0}
  /\ SysCap \in Nat
  /\ WriteSizes \subseteq Nat
  /\ ReadSizes \subseteq Nat \ {0}
  /\ MaxBytes \in [Ends -> Nat]
  /\ MayDrop \subseteq Ends

VARIABLES
  stream,      \* the Stream objects
  handle,      \* the StreamHandles
  sinkClosed,  \* SinkCloser.code # 0, shared by stream and handle
  toSession,   \* channel from the stream to the writer task
  toStream,    \* channel from the reader task to the stream
  sysq,        \* StreamManager.sys_rx
  wire,        \* wire[e]: frames sent by e and not yet read by its peer
  shrunk,      \* the reader of e stalled on a frame it has already counted
  sent,        \* history: bytes of e accepted by poll_write
  recvd,       \* history: bytes of its peer counted by the handle of e
  rd           \* history: bytes poll_read of e has returned

vars == <<stream, handle, sinkClosed, toSession, toStream, sysq, wire,
          shrunk, sent, recvd, rd>>
----------------------------------------------------------------------------
Peer(e) == IF e = "opener" THEN "acceptor" ELSE "opener"

\* Mutant of LesserOf: the request is not cut to what there is.
Requested(a, b) == b

LesserOf(a, b) == IF a < b THEN a ELSE b

Frame(typ, syn, fin, off, len, err) ==
  [typ |-> typ, syn |-> syn, fin |-> fin, off |-> off, len |-> len, err |-> err]

Data(syn, off, len) == Frame("data", syn, FALSE, off, len, "none")

\* Mutant of Fin: the flag is forgotten.
EmptyData(off)      == Frame("data", FALSE, FALSE, off, 0, "none")
Fin(off)            == Frame("data", FALSE, TRUE, off, 0, "none")
WndInc(off, len)    == Frame("wndinc", FALSE, FALSE, off, len, "none")
Rst(err)            == Frame("rst", FALSE, FALSE, 0, 0, err)

Frames == [typ : {"data", "wndinc", "rst"}, syn : BOOLEAN, fin : BOOLEAN,
           off : Nat, len : Nat, err : {"none", "StreamClosed", "FlowControl"}]

\* struct Stream, and whether the application has it
Streams == [st : {"unborn", "open", "dropped"}, window : Nat, readBuf : Nat,
            writeClosed : BOOLEAN, dataReadClosed : BOOLEAN, needsSyn : BOOLEAN]

\* struct StreamHandle, and whether it is in the manager's map
Handles == [st : {"none", "live", "removed"}, needsFin : BOOLEAN,
            dataWriteClosed : BOOLEAN, window : Nat]

NewStream(e, st) ==
  [st |-> st, window |-> W[e], readBuf |-> 0, writeClosed |-> FALSE,
   dataReadClosed |-> FALSE, needsSyn |-> e = "opener"]

NewHandle(e, st) ==
  [st |-> st, needsFin |-> TRUE, dataWriteClosed |-> FALSE, window |-> W[e]]

(***************************************************************************)
(* The opener has its Stream and its handle (MuxadoOpen::open); the other  *)
(* side learns of the stream with the SYN frame.                           *)
(***************************************************************************)
Init ==
  /\ stream = [e \in Ends |-> NewStream(e, IF e = "opener" THEN "open" ELSE "unborn")]
  /\ handle = [e \in Ends |-> NewHandle(e, IF e = "opener" THEN "live" ELSE "none")]
  /\ sinkClosed = [e \in Ends |-> FALSE]
  /\ toSession = [e \in Ends |-> <<>>]
  /\ toStream = [e \in Ends |-> <<>>]
  /\ sysq = [e \in Ends |-> <<>>]
  /\ wire = [e \in Ends |-> <<>>]
  /\ shrunk = [e \in Ends |-> FALSE]
  /\ sent = [e \in Ends |-> 0]
  /\ recvd = [e \in Ends |-> 0]
  /\ rd = [e \in Ends |-> 0]
----------------------------------------------------------------------------
(* Channels.  A futures mpsc channel of size W takes W messages plus one   *)
(* per sender, and each of these has one sender.                           *)

HasRoom(e, q) == Len(q) <= W[e]

\* StreamSender::poll_ready fails: closed by the session, or the receiver is gone.
SinkErr(e) == sinkClosed[e] \/ handle[e].st = "removed"

\* Mutant of InboundClosed: the handle goes as soon as our FIN is sent.
HalfClosed(e) == ~handle[e].needsFin

\* The stream sees its inbound channel closed: the handle held the sender.
InboundClosed(e) == handle[e].st = "removed"

(* Window::inc clamps to the size the window started with. *)
WindowInc(e, w, by) == LesserOf(w + by, W[e])
----------------------------------------------------------------------------
(* The application's end: poll_read, poll_write, poll_shutdown, drop.      *)

\* Stream::handle_frame
HandledBy(e, f) ==
  [stream[e] EXCEPT !.dataReadClosed = @ \/ f.fin,
            !.readBuf = IF f.typ = "data" THEN @ + f.len ELSE @,
            !.window = IF f.typ = "wndinc" THEN WindowInc(e, @, f.len) ELSE @]

\* Stream::poll_recv_frame_type, one turn of its loop.
RecvFrame(e) ==
  /\ \/ /\ toStream[e] # <<>>
        /\ stream' = [stream EXCEPT ![e] = HandledBy(e, Head(toStream[e]))]
        /\ toStream' = [toStream EXCEPT ![e] = Tail(@)]
     \/ /\ toStream[e] = <<>>
        /\ InboundClosed(e)
        /\ stream' = [stream EXCEPT ![e].dataReadClosed = TRUE]
        /\ UNCHANGED toStream
  /\ UNCHANGED <<handle, sinkClosed, toSession, sysq, wire, shrunk, sent, recvd, rd>>

\* Mutant of ReadRecv: the increment is announced before the bytes are read.
ReadRecvGrants(e) ==
  /\ stream[e].st = "open"
  /\ stream[e].readBuf = 0
  /\ toStream[e] # <<>> /\ ~SinkErr(e) /\ HasRoom(e, toSession[e])
  /\ stream' = [stream EXCEPT ![e] = HandledBy(e, Head(toStream[e]))]
  /\ toStream' = [toStream EXCEPT ![e] = Tail(@)]
  /\ toSession' = [toSession EXCEPT ![e] = Append(@, WndInc(rd[e], Head(toStream[e]).len))]
  /\ UNCHANGED <<handle, sinkClosed, sysq, wire, shrunk, sent, recvd, rd>>

\* poll_read with nothing buffered: take in frames until data, EOF or nothing.
ReadRecv(e) ==
  /\ stream[e].st = "open"
  /\ stream[e].readBuf = 0
  /\ ~stream[e].dataReadClosed
  /\ RecvFrame(e)

\* poll_read with bytes buffered: announce the increment, hand the bytes out.
Read(e, n) ==
  LET k == LesserOf(stream[e].readBuf, n) IN
  /\ stream[e].st = "open"
  /\ stream[e].readBuf > 0
  /\ \/ /\ SinkErr(e)
        /\ sinkClosed' = [sinkClosed EXCEPT ![e] = TRUE]
        /\ UNCHANGED toSession
     \/ /\ ~SinkErr(e)
        /\ HasRoom(e, toSession[e])
        /\ toSession' = [toSession EXCEPT ![e] = Append(@, WndInc(rd[e], k))]
        /\ UNCHANGED sinkClosed
  /\ stream' = [stream EXCEPT ![e].readBuf = @ - k]
  /\ rd' = [rd EXCEPT ![e] = @ + k]
  /\ UNCHANGED <<handle, toStream, sysq, wire, shrunk, sent, recvd>>

\* poll_write with an empty window: take in frames until a WNDINC or nothing.
WriteRecv(e) ==
  /\ stream[e].st = "open"
  /\ ~stream[e].writeClosed
  /\ stream[e].window = 0
  /\ RecvFrame(e)

\* Mutant of MayWrite: a closed writer is not noticed.
MayWriteLate(e) ==
  /\ stream[e].st = "open"
  /\ stream[e].window > 0 \/ (toStream[e] = <<>> /\ InboundClosed(e))

\* poll_write past the wait: a window, or an inbound channel that ended.
MayWrite(e) ==
  /\ stream[e].st = "open"
  /\ ~stream[e].writeClosed
  /\ stream[e].window > 0 \/ (toStream[e] = <<>> /\ InboundClosed(e))

Write(e, n) ==
  LET k == LesserOf(stream[e].window, n) IN
  /\ MayWrite(e)
  /\ ~SinkErr(e)
  /\ HasRoom(e, toSession[e])
  /\ sent[e] + k <= MaxBytes[e]
  /\ toSession' = [toSession EXCEPT
                     ![e] = Append(@, Data(stream[e].needsSyn, sent[e], k))]
  /\ stream' = [stream EXCEPT ![e].window = @ - k, ![e].needsSyn = FALSE]
  /\ sent' = [sent EXCEPT ![e] = @ + k]
  /\ UNCHANGED <<handle, sinkClosed, toStream, sysq, wire, shrunk, recvd, rd>>

\* The sink reports a reset: closed_err remembers it.
SinkFailed(e) ==
  /\ SinkErr(e)
  /\ sinkClosed' = [sinkClosed EXCEPT ![e] = TRUE]
  /\ stream' = [stream EXCEPT ![e].writeClosed = TRUE]
  /\ UNCHANGED <<handle, toSession, toStream, sysq, wire, shrunk, sent, recvd, rd>>

WriteFail(e) == MayWrite(e) /\ SinkFailed(e)

\* poll_flush fails on a closed sink only: a receiver that is gone counts as flushed.
FlushFail(e) == stream[e].st = "open" /\ sinkClosed[e] /\ SinkFailed(e)

Shutdown(e) ==
  /\ stream[e].st = "open"
  /\ ~stream[e].writeClosed
  /\ \/ SinkFailed(e)
     \/ /\ ~SinkErr(e)
        /\ HasRoom(e, toSession[e])
        /\ toSession' = [toSession EXCEPT ![e] = Append(@, Fin(sent[e]))]
        /\ stream' = [stream EXCEPT ![e].writeClosed = TRUE]
        /\ UNCHANGED <<handle, sinkClosed, toStream, sysq, wire, shrunk, sent, recvd, rd>>

\* Both channel ends of the Stream go: what was queued for it is lost, what
\* it queued for the session is not.
DropStream(e) ==
  /\ e \in MayDrop
  /\ stream[e].st = "open"
  /\ stream' = [stream EXCEPT ![e].st = "dropped"]
  /\ toStream' = [toStream EXCEPT ![e] = <<>>]
  /\ UNCHANGED <<handle, sinkClosed, toSession, sysq, wire, shrunk, sent, recvd, rd>>
----------------------------------------------------------------------------
(* The writer task: StreamManager::poll_next, then the frame to the wire.  *)

Transmit(e, f) == wire' = [wire EXCEPT ![e] = Append(@, f)]

\* System frames go first.
SendSys(e) ==
  /\ sysq[e] # <<>>
  /\ Len(wire[e]) < WireCap
  /\ Transmit(e, Head(sysq[e]))
  /\ sysq' = [sysq EXCEPT ![e] = Tail(@)]
  /\ UNCHANGED <<stream, handle, sinkClosed, toSession, toStream, shrunk, sent, recvd, rd>>

\* Mutant of TaskReady: the task of a stream that shut down is not polled.
TaskReadyOpen(e) ==
  /\ sysq[e] = <<>>
  /\ Len(wire[e]) < WireCap
  /\ handle[e].st = "live"
  /\ (toSession[e] # <<>> /\ ~stream[e].writeClosed) \/ stream[e].st = "dropped"

\* The stream's task yields: a frame, or the end of a dropped stream's channel.
TaskReady(e) ==
  /\ sysq[e] = <<>>
  /\ Len(wire[e]) < WireCap
  /\ handle[e].st = "live"
  /\ toSession[e] # <<>> \/ stream[e].st = "dropped"

ResetHere(e) == sinkClosed[e] /\ ~handle[e].needsFin

\* After a reset nothing more is sent: whatever is queued goes with the handle.
RemoveReset(e) ==
  /\ TaskReady(e)
  /\ ResetHere(e)
  /\ handle' = [handle EXCEPT ![e].st = "removed"]
  /\ toSession' = [toSession EXCEPT ![e] = <<>>]
  /\ UNCHANGED <<stream, sinkClosed, toStream, sysq, wire, shrunk, sent, recvd, rd>>

\* Mutant of SendFrame: every frame counts as an increment.
SendFrameCredit(e) ==
  /\ TaskReady(e)
  /\ ~ResetHere(e)
  /\ toSession[e] # <<>>
  /\ LET f == Head(toSession[e]) IN
     /\ handle' = [handle EXCEPT ![e].window = @ + f.len, ![e].needsFin = @ /\ ~f.fin]
     /\ Transmit(e, f)
  /\ toSession' = [toSession EXCEPT ![e] = Tail(@)]
  /\ UNCHANGED <<stream, sinkClosed, toStream, sysq, shrunk, sent, recvd, rd>>

SendFrame(e) ==
  /\ TaskReady(e)
  /\ ~ResetHere(e)
  /\ toSession[e] # <<>>
  /\ LET f == Head(toSession[e]) IN
     /\ handle' = [handle EXCEPT
                     ![e].window = IF f.typ = "wndinc" THEN @ + f.len ELSE @,
                     ![e].needsFin = @ /\ ~f.fin]
     /\ Transmit(e, f)
  /\ toSession' = [toSession EXCEPT ![e] = Tail(@)]
  /\ UNCHANGED <<stream, sinkClosed, toStream, sysq, shrunk, sent, recvd, rd>>

\* The dropped stream's channel is drained: a FIN unless one was sent.
RemoveDropped(e) ==
  /\ TaskReady(e)
  /\ ~ResetHere(e)
  /\ toSession[e] = <<>>
  /\ handle' = [handle EXCEPT ![e].st = "removed", ![e].needsFin = FALSE]
  /\ IF handle[e].needsFin THEN Transmit(e, Fin(sent[e])) ELSE UNCHANGED wire
  /\ UNCHANGED <<stream, sinkClosed, toSession, toStream, sysq, shrunk, sent, recvd, rd>>
----------------------------------------------------------------------------
(* The reader task: Reader::handle_frame and send_to_stream.               *)

Arriving(e) == Head(wire[Peer(e)])

\* Mutant of ReadSyn: the frame that carried the SYN is not handed on.
ReadSynOnly(e) ==
  /\ wire[Peer(e)] # <<>>
  /\ Arriving(e).syn
  /\ handle[e].st = "none"
  /\ handle' = [handle EXCEPT ![e] = NewHandle(e, "live")]
  /\ stream' = [stream EXCEPT ![e] = NewStream(e, "open")]
  /\ wire' = [wire EXCEPT ![Peer(e)] = Tail(@)]
  /\ UNCHANGED <<sinkClosed, toSession, toStream, sysq, shrunk, sent, recvd, rd>>

\* A SYN creates the handle and queues the Stream for accept; the frame
\* itself is handed to the stream afterwards.
ReadSyn(e) ==
  /\ wire[Peer(e)] # <<>>
  /\ Arriving(e).syn
  /\ handle[e].st = "none"
  /\ handle' = [handle EXCEPT ![e] = NewHandle(e, "live")]
  /\ stream' = [stream EXCEPT ![e] = NewStream(e, "open")]
  /\ UNCHANGED <<sinkClosed, toSession, toStream, sysq, wire, shrunk, sent, recvd, rd>>

\* A frame other than an unprocessed SYN is at hand.
Reading(e, typ) ==
  /\ wire[Peer(e)] # <<>>
  /\ Arriving(e).typ = typ
  /\ ~(Arriving(e).syn /\ handle[e].st = "none")

Consume(e) ==
  /\ wire' = [wire EXCEPT ![Peer(e)] = Tail(@)]
  /\ shrunk' = [shrunk EXCEPT ![e] = FALSE]

\* Mutant of ToShrink: a retried frame is counted again.
ToShrinkAgain(e) == Arriving(e).len

\* Bytes of the frame still to be taken from the handle's window.
ToShrink(e) == IF shrunk[e] THEN 0 ELSE Arriving(e).len

ReadRst(e) ==
  /\ Reading(e, "rst")
  /\ IF handle[e].st = "live"
     THEN /\ sinkClosed' = [sinkClosed EXCEPT ![e] = TRUE]
          /\ handle' = [handle EXCEPT ![e].dataWriteClosed = TRUE,
                                      ![e].needsFin = FALSE]
     ELSE UNCHANGED <<sinkClosed, handle>>
  /\ Consume(e)
  /\ UNCHANGED <<stream, toSession, toStream, sysq, sent, recvd, rd>>

\* The window check and, when the channel has room, the delivery.
Admit(e) ==
  /\ handle[e].st = "live"
  /\ ~(Arriving(e).typ = "data" /\ handle[e].dataWriteClosed)
  /\ ToShrink(e) <= handle[e].window

\* Mutant of Counted: our own FIN closes the peer's direction too.
CountedMixed(e) ==
  /\ handle' = [handle EXCEPT
                  ![e].window = @ - ToShrink(e),
                  ![e].dataWriteClosed = @ \/ Arriving(e).fin \/ ~handle[e].needsFin]
  /\ recvd' = [recvd EXCEPT ![e] = @ + ToShrink(e)]

Counted(e) ==
  /\ handle' = [handle EXCEPT ![e].window = @ - ToShrink(e),
                              ![e].dataWriteClosed = @ \/ Arriving(e).fin]
  /\ recvd' = [recvd EXCEPT ![e] = @ + ToShrink(e)]

\* Data or a WNDINC for a stream with room.
Deliver(e) ==
  /\ Reading(e, "data") \/ Reading(e, "wndinc")
  /\ IF Arriving(e).typ = "wndinc" THEN handle[e].st = "live" ELSE Admit(e)
  /\ stream[e].st = "open"
  /\ HasRoom(e, toStream[e])
  /\ toStream' = [toStream EXCEPT ![e] = Append(@, Arriving(e))]
  /\ IF Arriving(e).typ = "data" THEN Counted(e) ELSE UNCHANGED <<handle, recvd>>
  /\ Consume(e)
  /\ UNCHANGED <<stream, sinkClosed, toSession, sysq, sent, rd>>

\* Mutant of Stall: a frame that finds the channel full is lost.
StallLossy(e) ==
  /\ Reading(e, "data")
  /\ Admit(e)
  /\ stream[e].st = "open"
  /\ ~HasRoom(e, toStream[e])
  /\ Counted(e)
  /\ Consume(e)
  /\ UNCHANGED <<stream, sinkClosed, toSession, toStream, sysq, sent, rd>>

\* The channel is full: the bytes are counted once, the reader waits.
Stall(e) ==
  /\ Reading(e, "data")
  /\ Admit(e)
  /\ stream[e].st = "open"
  /\ ~HasRoom(e, toStream[e])
  /\ ~shrunk[e]
  /\ handle' = [handle EXCEPT ![e].window = @ - ToShrink(e)]
  /\ recvd' = [recvd EXCEPT ![e] = @ + ToShrink(e)]
  /\ shrunk' = [shrunk EXCEPT ![e] = TRUE]
  /\ UNCHANGED <<stream, sinkClosed, toSession, toStream, sysq, wire, sent, rd>>

\* A WNDINC or a FIN nobody can take any more is dropped without a reset.
Ignore(e) ==
  /\ \/ Reading(e, "wndinc") /\ (handle[e].st # "live" \/ stream[e].st = "dropped")
     \/ /\ Reading(e, "data")
        /\ Arriving(e).fin
        /\ \/ handle[e].st # "live"
           \/ handle[e].dataWriteClosed
           \/ stream[e].st = "dropped"
  /\ handle' = [handle EXCEPT ![e].dataWriteClosed =
                    @ \/ (Arriving(e).fin /\ handle[e].st = "live")]
  /\ Consume(e)
  /\ UNCHANGED <<stream, sinkClosed, toSession, toStream, sysq, sent, recvd, rd>>

\* The data cannot be delivered, err says why: answer with an RST.
Refuse(e, err) ==
  /\ Reading(e, "data")
  /\ ~Arriving(e).fin
  /\ Len(sysq[e]) <= SysCap
  /\ sysq' = [sysq EXCEPT ![e] = Append(@, Rst(err))]
  /\ Consume(e)
  /\ UNCHANGED <<stream, toSession, toStream, sent, rd>>

\* Nobody knows the stream (any more).
RefuseUnknown(e) ==
  /\ handle[e].st # "live"
  /\ Refuse(e, "StreamClosed")
  /\ UNCHANGED <<handle, sinkClosed, recvd>>

CloseWriters(e, w) ==
  /\ handle' = [handle EXCEPT ![e].dataWriteClosed = TRUE, ![e].needsFin = FALSE,
                              ![e].window = w]
  /\ sinkClosed' = [sinkClosed EXCEPT ![e] = TRUE]

\* After a FIN or a reset, or to a Stream that was dropped.
RefuseClosed(e) ==
  /\ handle[e].st = "live"
  /\ Refuse(e, "StreamClosed")
  /\ \/ /\ handle[e].dataWriteClosed
        /\ CloseWriters(e, handle[e].window)
        /\ UNCHANGED recvd
     \/ /\ Admit(e)
        /\ stream[e].st = "dropped"
        /\ CloseWriters(e, handle[e].window - ToShrink(e))
        /\ recvd' = [recvd EXCEPT ![e] = @ + ToShrink(e)]

\* More data than the window announced.
RefuseFlow(e) ==
  /\ Reading(e, "data")
  /\ handle[e].st = "live"
  /\ ~handle[e].dataWriteClosed
  /\ ToShrink(e) > handle[e].window
  /\ Refuse(e, "FlowControl")
  /\ CloseWriters(e, handle[e].window)
  /\ UNCHANGED recvd
----------------------------------------------------------------------------
AppRead(e)  == ReadRecv(e) \/ \E n \in ReadSizes : Read(e, n)
AppWrite(e) ==
  WriteRecv(e) \/ WriteFail(e) \/ FlushFail(e) \/ \E n \in WriteSizes : Write(e, n)
AppClose(e) == Shutdown(e) \/ DropStream(e)

WriterTask(e) == SendSys(e) \/ RemoveReset(e) \/ SendFrame(e) \/ RemoveDropped(e)

ReaderTask(e) ==
  ReadSyn(e) \/ ReadRst(e) \/ Deliver(e) \/ Stall(e) \/ Ignore(e)
    \/ RefuseUnknown(e) \/ RefuseClosed(e) \/ RefuseFlow(e)

Next == \E e \in Ends :
  AppRead(e) \/ AppWrite(e) \/ AppClose(e) \/ WriterTask(e) \/ ReaderTask(e)

Spec == Init /\ [][Next]_vars

(***************************************************************************)
(* The two tasks of each end run on tokio, which polls a task that was     *)
(* woken: weak fairness.  The application is fair only where it is said to *)
(* keep reading or writing.                                                *)
(***************************************************************************)
TaskFairness == \A e \in Ends : WF_vars(WriterTask(e)) /\ WF_vars(ReaderTask(e))
ReadFairness == \A e \in Ends : WF_vars(AppRead(e))

FairSpec == Spec /\ TaskFairness /\ ReadFairness
----------------------------------------------------------------------------
(* Type invariant of the stream, its handles and the channels. *)
TypeOK ==
  /\ stream \in [Ends -> Streams]
  /\ handle \in [Ends -> Handles]
  /\ sinkClosed \in [Ends -> BOOLEAN]
  /\ toSession \in [Ends -> Seq(Frames)]
  /\ toStream \in [Ends -> Seq(Frames)]
  /\ sysq \in [Ends -> Seq(Frames)]
  /\ wire \in [Ends -> Seq(Frames)]
  /\ shrunk \in [Ends -> BOOLEAN]
  /\ sent \in [Ends -> Nat]
  /\ recvd \in [Ends -> Nat]
  /\ rd \in [Ends -> Nat]

FramesOf(q) == {q[i] : i \in DOMAIN q}

(***************************************************************************)
(* Whatever window the peer believes in, the bytes an end holds for an     *)
(* application that has not read them never exceed its own window: the     *)
(* check in send_to_stream bounds the memory of a stream.                  *)
(***************************************************************************)
BufferBounded == \A e \in Ends : recvd[e] - rd[e] <= W[e]

(***************************************************************************)
(* Two ends of this implementation with the same window never accuse each  *)
(* other of a flow control violation: the writer's Window and the reader's *)
(* StreamHandle.window cannot drift apart, whatever the interleaving.      *)
(***************************************************************************)
NoFlowControlReset ==
  \A e \in Ends : \A f \in FramesOf(sysq[e]) \cup FramesOf(wire[e]) :
    f.err # "FlowControl"

(***************************************************************************)
(* Each direction of the stream implements the abstract byte pipe.         *)
(***************************************************************************)
Forth == INSTANCE BytePipe WITH
  written   <- sent["opener"],
  delivered <- rd["acceptor"],
  ended     <- stream["opener"].writeClosed \/ stream["opener"].st = "dropped",
  broken    <- sinkClosed["acceptor"],
  eof       <- stream["acceptor"].dataReadClosed /\ stream["acceptor"].readBuf = 0

Back == INSTANCE BytePipe WITH
  written   <- sent["acceptor"],
  delivered <- rd["opener"],
  ended     <- stream["acceptor"].writeClosed \/ stream["acceptor"].st = "dropped",
  broken    <- sinkClosed["opener"],
  eof       <- stream["opener"].dataReadClosed /\ stream["opener"].readBuf = 0

ImplementsPipe == Forth!PipeSpec /\ Back!PipeSpec

(***************************************************************************)
(* The accounting behind NoFlowControlReset and BufferBounded, stated for  *)
(* the writer e and the reader p of one direction.  Credit(e) is what the  *)
(* writer has been given back so far, Granted(p) what the manager of the   *)
(* reader has announced.  An increment is announced once, in order, and    *)
(* only for bytes that were read; it may be lost, when the writer is gone, *)
(* so Credit(e) <= Granted(p) <= rd[p].                                    *)
(***************************************************************************)
Credit(e)  == sent[e] + stream[e].window - W[e]
Granted(p) == recvd[p] + handle[p].window - W[p]

Within(q, t, lo, hi) ==
  \A i \in DOMAIN q : q[i].typ = t => lo <= q[i].off /\ q[i].off + q[i].len <= hi

Ordered(q, t) ==
  \A i, j \in DOMAIN q :
    i < j /\ q[i].typ = t /\ q[j].typ = t => q[i].off + q[i].len <= q[j].off

Before(q, r, t) ==
  \A i \in DOMAIN q, j \in DOMAIN r :
    q[i].typ = t /\ r[j].typ = t => q[i].off + q[i].len <= r[j].off

\* The frames of type t in q cover lo up to hi without a gap.
Linked(q, t, lo, hi) ==
  /\ \A i \in DOMAIN q : q[i].typ = t =>
       \/ q[i].off = lo
       \/ \E j \in DOMAIN q : j < i /\ q[j].typ = t /\ q[j].off + q[j].len = q[i].off
  /\ \/ hi = lo
     \/ \E j \in DOMAIN q : q[j].typ = t /\ q[j].off + q[j].len = hi

\* The data frames of q carry the bytes from..to without gap or overlap.
Contiguous(q, from, to) ==
  Within(q, "data", from, to) /\ Ordered(q, "data") /\ Linked(q, "data", from, to)

(***************************************************************************)
(* As long as nobody dropped its Stream every byte written is read,        *)
(* buffered or on its way, once: retries after a stall, half-closes and    *)
(* the handover of the SYN frame lose and repeat nothing.                  *)
(***************************************************************************)
NoByteLost ==
  (\A e \in Ends : stream[e].st # "dropped") =>
    \A e \in Ends :
      Contiguous(toStream[e] \o wire[Peer(e)] \o toSession[Peer(e)],
                 rd[e] + stream[e].readBuf, sent[Peer(e)])

\* Nothing of an end has happened before its SYN is read.
Untouched(e) ==
  handle[e].st = "none" =>
    handle[e].window = W[e] /\ stream[e] = NewStream(e, "unborn") /\ ~sinkClosed[e]

\* The manager's channel carries resets only, and a reset stream is not heard again.
ResetIsFinal(e) ==
  /\ \A i \in DOMAIN sysq[e] : sysq[e][i].typ = "rst"
  /\ sinkClosed[e] /\ handle[e].st = "live" => ~handle[e].needsFin

\* Increments the reader p has queued but not announced.
Queued(p) ==
  /\ Granted(p) <= rd[p]
  /\ Within(toSession[p], "wndinc", Granted(p), rd[p])
  /\ Ordered(toSession[p], "wndinc")
  /\ ~SinkErr(p) => Linked(toSession[p], "wndinc", Granted(p), rd[p])

\* Increments on their way from p to the writer e.
Announced(e, p) ==
  /\ Credit(e) <= Granted(p)
  /\ Within(wire[p], "wndinc", Credit(e), Granted(p))
  /\ Ordered(wire[p], "wndinc")
  /\ Within(toStream[e], "wndinc", Credit(e), Granted(p))
  /\ Ordered(toStream[e], "wndinc")
  /\ Before(toStream[e], wire[p], "wndinc")

\* Data on its way from e to the handle of p.
Outstanding(e, p) ==
  /\ Within(wire[e], "data", 0, sent[e])
  /\ Ordered(wire[e], "data")
  /\ Within(toSession[e], "data", recvd[p], sent[e])
  /\ Ordered(toSession[e], "data")
  /\ Before(wire[e], toSession[e], "data")
  /\ recvd[p] <= sent[e]
  /\ \A i \in DOMAIN wire[e] : wire[e][i].typ = "data" =>
       recvd[p] <= wire[e][i].off + (IF shrunk[p] /\ i = 1 THEN wire[e][i].len ELSE 0)
  /\ shrunk[p] => wire[e] # <<>> /\ wire[e][1].typ = "data"

FlowInv ==
  \A e \in Ends :
    /\ Untouched(e)
    /\ ResetIsFinal(e)
    /\ Queued(e)
    /\ Announced(e, Peer(e))
    /\ Outstanding(e, Peer(e))

(***************************************************************************)
(* An end that keeps reading receives every byte its peer wrote, when no   *)
(* Stream is dropped: no increment is lost and no task stays asleep.       *)
(***************************************************************************)
Delivery ==
  \A e \in Ends : \A k \in 1..MaxBytes[e] : sent[e] >= k ~> rd[Peer(e)] >= k

(***************************************************************************)
(* A peer that shut down or dropped a stream it had used is seen as EOF or *)
(* as a failing write.                                                     *)
(***************************************************************************)
CloseIsSeen ==
  \A e \in Ends :
    (stream[e].writeClosed /\ ~stream[e].needsSyn)
      ~> (stream[Peer(e)].dataReadClosed \/ stream[Peer(e)].st = "dropped"
            \/ sinkClosed[e])

(***************************************************************************)
(* Bytes and the end both arrive: whatever the half-closes, full channels  *)
(* and stalled polls, no task of the two ends waits for the other.         *)
(***************************************************************************)
Delivers == Delivery /\ CloseIsSeen
============================================================================
