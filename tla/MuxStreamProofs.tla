-------------------------- MODULE MuxStreamProofs --------------------------
(***************************************************************************)
(* MuxStream for every window, capacity and bound.  First its types and    *)
(* the accounting of flow control: TypeOK and FlowInv are inductive, and   *)
(* what follows from them.  Then each direction is a byte pipe, whoever    *)
(* resets or drops the stream, and when nobody drops it no byte is lost:   *)
(* both follow from what the frames on their way to an end, from its       *)
(* channel back to the writer's, hold.                                     *)
(***************************************************************************)
EXTENDS MuxStream, TLAPS

----------------------------------------------------------------------------
(* Typing *)

LEMMA PeerType == ASSUME NEW e \in Ends
                  PROVE  Peer(e) \in Ends /\ Peer(e) # e /\ Peer(Peer(e)) = e
BY DEF Peer, Ends

LEMMA DataType == ASSUME NEW syn \in BOOLEAN, NEW off \in Nat, NEW len \in Nat
                  PROVE  Data(syn, off, len) \in Frames
BY DEF Data, Frame, Frames

LEMMA FinType == ASSUME NEW off \in Nat PROVE Fin(off) \in Frames
BY DEF Fin, Frame, Frames

LEMMA WndIncType == ASSUME NEW off \in Nat, NEW len \in Nat
                    PROVE  WndInc(off, len) \in Frames
BY DEF WndInc, Frame, Frames

LEMMA RstType == ASSUME NEW err \in {"StreamClosed", "FlowControl"}
                 PROVE  Rst(err) \in Frames
BY DEF Rst, Frame, Frames

LEMMA ArrivingType ==
  ASSUME TypeOK, NEW e \in Ends, wire[Peer(e)] # <<>>
  PROVE  /\ Arriving(e) \in Frames
         /\ ToShrink(e) \in Nat
         /\ Tail(wire[Peer(e)]) \in Seq(Frames)
<1>1. wire[Peer(e)] \in Seq(Frames)
  BY PeerType DEF TypeOK
<1>2. Arriving(e) \in Frames /\ Tail(wire[Peer(e)]) \in Seq(Frames)
  BY <1>1 DEF Arriving
<1> QED
  BY <1>2 DEF ToShrink, Frames

(* The initial state is well typed: the opener's Stream and handle exist,  *)
(* the acceptor's are those of a stream it has not heard of.               *)
LEMMA InitType == Init => TypeOK
BY WindowAssumption DEF Init, TypeOK, NewStream, NewHandle, Streams, Handles, Ends

LEMMA HandledType ==
  ASSUME NEW s \in Streams, NEW b \in BOOLEAN, NEW r \in Nat, NEW w \in Nat
  PROVE  [s EXCEPT !.dataReadClosed = b, !.readBuf = r, !.window = w] \in Streams
BY DEF Streams

LEMMA RecvType ==
  ASSUME TypeOK, NEW e \in Ends, RecvFrame(e)
  PROVE  TypeOK'
<1>1. CASE /\ toStream[e] # <<>>
           /\ stream' = [stream EXCEPT ![e] = HandledBy(e, Head(toStream[e]))]
           /\ toStream' = [toStream EXCEPT ![e] = Tail(@)]
  <2> DEFINE f == Head(toStream[e])
  <2>1. f \in Frames /\ Tail(toStream[e]) \in Seq(Frames)
    BY <1>1 DEF TypeOK
  <2>2. (stream[e].dataReadClosed \/ f.fin) \in BOOLEAN
    OBVIOUS
  <2>3. (IF f.typ = "data" THEN stream[e].readBuf + f.len ELSE stream[e].readBuf) \in Nat
    BY <2>1 DEF TypeOK, Frames, Streams
  <2>4. (IF f.typ = "wndinc" THEN WindowInc(e, stream[e].window, f.len)
                             ELSE stream[e].window) \in Nat
    BY <2>1, WindowAssumption DEF TypeOK, Frames, Streams, WindowInc, LesserOf
  <2>5. HandledBy(e, f) \in Streams
    <3>1. stream[e] \in Streams
      BY DEF TypeOK
    <3> QED
      BY <3>1, <2>2, <2>3, <2>4, HandledType, Zenon DEF HandledBy
  <2> QED
    BY <1>1, <2>1, <2>5 DEF RecvFrame, TypeOK
<1>2. CASE /\ toStream[e] = <<>>
           /\ stream' = [stream EXCEPT ![e].dataReadClosed = TRUE]
           /\ UNCHANGED toStream
  BY <1>2, ZenonT(40) DEF RecvFrame, TypeOK, Streams
<1> QED
  BY <1>1, <1>2 DEF RecvFrame

LEMMA AppType ==
  ASSUME TypeOK, NEW e \in Ends, AppRead(e) \/ AppWrite(e) \/ AppClose(e)
  PROVE  TypeOK'
<1>0. /\ sent[e] \in Nat /\ rd[e] \in Nat /\ stream[e] \in Streams
      /\ toSession[e] \in Seq(Frames)
  BY DEF TypeOK
<1>1. CASE ReadRecv(e) \/ WriteRecv(e)
  BY <1>1, RecvType DEF ReadRecv, WriteRecv
<1>2. ASSUME NEW n \in ReadSizes, Read(e, n)
      PROVE  TypeOK'
  <2> DEFINE k == LesserOf(stream[e].readBuf, n)
  <2>1. k \in Nat /\ stream[e].readBuf - k \in Nat
    BY <1>0, BoundAssumption DEF LesserOf, Streams
  <2>2. WndInc(rd[e], k) \in Frames
    BY <1>0, <2>1, WndIncType
  <2>3. Append(toSession[e], WndInc(rd[e], k)) \in Seq(Frames)
    BY <1>0, <2>2
  <2>4. stream' \in [Ends -> Streams] /\ rd' \in [Ends -> Nat]
    <3> DEFINE r == stream[e].readBuf - k
               d == rd[e] + k
    <3>1. r \in Nat /\ d \in Nat
      BY <1>0, <2>1
    <3>2. stream' = [stream EXCEPT ![e].readBuf = r] /\ rd' = [rd EXCEPT ![e] = d]
      BY <1>2 DEF Read
    <3> HIDE DEF r, d
    <3>3. [stream[e] EXCEPT !.readBuf = r] \in Streams
      BY <1>0, <3>1 DEF Streams
    <3> QED
      BY <3>1, <3>2, <3>3 DEF TypeOK
  <2>5. toSession' \in [Ends -> Seq(Frames)] /\ sinkClosed' \in [Ends -> BOOLEAN]
    BY <1>2, <2>3 DEF Read, TypeOK
  <2> QED
    BY <1>2, <2>4, <2>5 DEF Read, TypeOK
<1>3. ASSUME NEW n \in WriteSizes, Write(e, n)
      PROVE  TypeOK'
  <2> DEFINE k == LesserOf(stream[e].window, n)
  <2>1. k \in Nat /\ stream[e].window - k \in Nat
    BY <1>0, BoundAssumption DEF LesserOf, Streams
  <2>2. Data(stream[e].needsSyn, sent[e], k) \in Frames
    BY <1>0, <2>1, DataType DEF Streams
  <2>3. Append(toSession[e], Data(stream[e].needsSyn, sent[e], k)) \in Seq(Frames)
    BY <1>0, <2>2
  <2>4. stream' \in [Ends -> Streams] /\ sent' \in [Ends -> Nat]
    <3> DEFINE w == stream[e].window - k
               d == sent[e] + k
    <3>1. w \in Nat /\ d \in Nat
      BY <1>0, <2>1
    <3>2. /\ stream' = [stream EXCEPT ![e].window = w, ![e].needsSyn = FALSE]
          /\ sent' = [sent EXCEPT ![e] = d]
      BY <1>3 DEF Write
    <3> HIDE DEF w, d
    <3>3. [stream[e] EXCEPT !.window = w, !.needsSyn = FALSE] \in Streams
      BY <1>0, <3>1 DEF Streams
    <3> QED
      BY <3>1, <3>2, <3>3 DEF TypeOK
  <2>5. toSession' \in [Ends -> Seq(Frames)]
    BY <1>3, <2>3 DEF Write, TypeOK
  <2> QED
    BY <1>3, <2>4, <2>5 DEF Write, TypeOK
<1>4. CASE SinkFailed(e)
  BY <1>4, ZenonT(40) DEF SinkFailed, TypeOK, Streams
<1>5. CASE Shutdown(e)
  <2>1. Append(toSession[e], Fin(sent[e])) \in Seq(Frames)
    BY <1>0, FinType
  <2>2. CASE ~SinkFailed(e)
    <3>0. stream' = [stream EXCEPT ![e].writeClosed = TRUE]
      BY <1>5, <2>2 DEF Shutdown
    <3>1. stream' \in [Ends -> Streams]
      BY <3>0, ZenonT(40) DEF TypeOK, Streams
    <3> QED
      BY <1>5, <2>1, <2>2, <3>1 DEF Shutdown, TypeOK
  <2> QED
    BY <1>4, <2>2
<1>6. CASE DropStream(e)
  <2>1. stream' \in [Ends -> Streams]
    BY <1>6 DEF DropStream, TypeOK, Streams
  <2>2. toStream' \in [Ends -> Seq(Frames)]
    BY <1>6 DEF DropStream, TypeOK
  <2> QED
    BY <1>6, <2>1, <2>2 DEF DropStream, TypeOK
<1> QED
  BY <1>1, <1>2, <1>3, <1>4, <1>5, <1>6 DEF AppRead, AppWrite, AppClose, WriteFail, FlushFail

LEMMA WriterType ==
  ASSUME TypeOK, NEW e \in Ends, WriterTask(e)
  PROVE  TypeOK'
<1>0. /\ sent[e] \in Nat /\ handle[e] \in Handles
      /\ toSession[e] \in Seq(Frames) /\ sysq[e] \in Seq(Frames)
      /\ wire[e] \in Seq(Frames)
  BY DEF TypeOK
<1>1. CASE SendSys(e)
  <2>1. Head(sysq[e]) \in Frames /\ Tail(sysq[e]) \in Seq(Frames)
    BY <1>0, <1>1 DEF SendSys
  <2>2. Append(wire[e], Head(sysq[e])) \in Seq(Frames)
    BY <1>0, <2>1
  <2> QED
    BY <1>1, <2>1, <2>2 DEF SendSys, Transmit, TypeOK
<1>2. CASE RemoveReset(e)
  <2>1. handle' \in [Ends -> Handles]
    BY <1>2 DEF RemoveReset, TypeOK, Handles
  <2>2. toSession' \in [Ends -> Seq(Frames)]
    BY <1>2 DEF RemoveReset, TypeOK
  <2> QED
    BY <1>2, <2>1, <2>2 DEF RemoveReset, TypeOK
<1>3. CASE SendFrame(e)
  <2> DEFINE f == Head(toSession[e])
  <2>1. f \in Frames /\ Tail(toSession[e]) \in Seq(Frames)
    BY <1>0, <1>3 DEF SendFrame
  <2>2. Append(wire[e], f) \in Seq(Frames)
    BY <1>0, <2>1
  <2>3. handle' \in [Ends -> Handles]
    <3> DEFINE w == IF f.typ = "wndinc" THEN handle[e].window + f.len ELSE handle[e].window
               b == handle[e].needsFin /\ ~f.fin
    <3>1. w \in Nat
      BY <1>0, <2>1 DEF Handles, Frames
    <3>2. b \in BOOLEAN
      OBVIOUS
    <3>3. handle' = [handle EXCEPT ![e] = [@ EXCEPT !.window = w, !.needsFin = b]]
      BY <1>3, Zenon DEF SendFrame
    <3>4. [handle[e] EXCEPT !.window = w, !.needsFin = b] \in Handles
      <4> HIDE DEF w, b
      <4> QED BY <1>0, <3>1, <3>2 DEF Handles
    <3> HIDE DEF w, b
    <3> QED
      BY <3>3, <3>4 DEF TypeOK
  <2> QED
    BY <1>3, <2>1, <2>2, <2>3 DEF SendFrame, Transmit, TypeOK
<1>4. CASE RemoveDropped(e)
  <2>1. Append(wire[e], Fin(sent[e])) \in Seq(Frames)
    BY <1>0, FinType
  <2> QED
    BY <1>4, <2>1, ZenonT(40) DEF RemoveDropped, Transmit, TypeOK, Handles
<1> QED
  BY <1>1, <1>2, <1>3, <1>4 DEF WriterTask

LEMMA CountedType ==
  ASSUME TypeOK, NEW e \in Ends, wire[Peer(e)] # <<>>, ToShrink(e) <= handle[e].window,
         Counted(e)
  PROVE  handle' \in [Ends -> Handles] /\ recvd' \in [Ends -> Nat]
<1> DEFINE w == handle[e].window - ToShrink(e)
           d == recvd[e] + ToShrink(e)
           b == handle[e].dataWriteClosed \/ Arriving(e).fin
<1>1. w \in Nat /\ d \in Nat
  BY ArrivingType DEF TypeOK, Handles
<1>2. b \in BOOLEAN
  OBVIOUS
<1>3. /\ handle' = [handle EXCEPT ![e].window = w, ![e].dataWriteClosed = b]
      /\ recvd' = [recvd EXCEPT ![e] = d]
  BY Zenon DEF Counted
<1> HIDE DEF w, d, b
<1> QED
  BY <1>1, <1>2, <1>3, ZenonT(40) DEF TypeOK, Handles

LEMMA ConsumeType ==
  ASSUME TypeOK, NEW e \in Ends, wire[Peer(e)] # <<>>, Consume(e)
  PROVE  wire' \in [Ends -> Seq(Frames)] /\ shrunk' \in [Ends -> BOOLEAN]
BY PeerType, ArrivingType DEF Consume, TypeOK

LEMMA RefuseType ==
  ASSUME TypeOK, NEW e \in Ends, NEW err \in {"StreamClosed", "FlowControl"},
         Refuse(e, err)
  PROVE  /\ wire[Peer(e)] # <<>>
         /\ wire' \in [Ends -> Seq(Frames)] /\ shrunk' \in [Ends -> BOOLEAN]
         /\ sysq' \in [Ends -> Seq(Frames)]
         /\ UNCHANGED <<stream, toSession, toStream, sent, rd>>
<1>1. wire[Peer(e)] # <<>>
  BY DEF Refuse, Reading
<1>2. wire' \in [Ends -> Seq(Frames)] /\ shrunk' \in [Ends -> BOOLEAN]
  BY <1>1, ConsumeType DEF Refuse
<1>3. Append(sysq[e], Rst(err)) \in Seq(Frames)
  BY RstType DEF TypeOK
<1> QED
  BY <1>1, <1>2, <1>3 DEF Refuse, TypeOK

LEMMA CloseWritersType ==
  ASSUME TypeOK, NEW e \in Ends, NEW w \in Nat, CloseWriters(e, w)
  PROVE  handle' \in [Ends -> Handles] /\ sinkClosed' \in [Ends -> BOOLEAN]
<1>1. handle' \in [Ends -> Handles]
  <2>1. handle \in [Ends -> Handles]
    BY DEF TypeOK
  <2>2. handle' = [handle EXCEPT ![e] = [@ EXCEPT !.dataWriteClosed = TRUE,
                                                  !.needsFin = FALSE, !.window = w]]
    BY DEF CloseWriters
  <2>3. [handle[e] EXCEPT !.dataWriteClosed = TRUE, !.needsFin = FALSE, !.window = w]
          \in Handles
    BY <2>1 DEF Handles
  <2> QED
    BY <2>1, <2>2, <2>3
<1>2. sinkClosed' \in [Ends -> BOOLEAN]
  BY DEF CloseWriters, TypeOK
<1> QED
  BY <1>1, <1>2

LEMMA ReaderType ==
  ASSUME TypeOK, NEW e \in Ends, ReaderTask(e)
  PROVE  TypeOK'
<1>0. handle[e] \in Handles /\ toStream[e] \in Seq(Frames) /\ recvd[e] \in Nat
  BY DEF TypeOK
<1>1. CASE ReadSyn(e)
  <2>1. NewHandle(e, "live") \in Handles /\ NewStream(e, "open") \in Streams
    BY WindowAssumption DEF NewHandle, NewStream, Handles, Streams
  <2> QED
    BY <1>1, <2>1 DEF ReadSyn, TypeOK
<1>2. CASE ReadRst(e)
  <2>1. wire' \in [Ends -> Seq(Frames)] /\ shrunk' \in [Ends -> BOOLEAN]
    BY <1>2, ConsumeType DEF ReadRst, Reading
  <2>2. handle' \in [Ends -> Handles] /\ sinkClosed' \in [Ends -> BOOLEAN]
    <3>1. CASE handle[e].st = "live"
      <4>1. handle' = [handle EXCEPT ![e].dataWriteClosed = TRUE, ![e].needsFin = FALSE]
        BY <1>2, <3>1 DEF ReadRst
      <4>2. sinkClosed' = [sinkClosed EXCEPT ![e] = TRUE]
        BY <1>2, <3>1 DEF ReadRst
      <4>3. handle' \in [Ends -> Handles]
        BY <4>1, ZenonT(40) DEF TypeOK, Handles
      <4> QED
        BY <4>2, <4>3 DEF TypeOK
    <3>2. CASE handle[e].st # "live"
      BY <1>2, <3>2 DEF ReadRst, TypeOK
    <3> QED
      BY <3>1, <3>2
  <2> QED
    BY <1>2, <2>1, <2>2 DEF ReadRst, TypeOK
<1>3. CASE Deliver(e)
  <2>0. wire[Peer(e)] # <<>>
    BY <1>3 DEF Deliver, Reading
  <2>1. wire' \in [Ends -> Seq(Frames)] /\ shrunk' \in [Ends -> BOOLEAN]
    BY <1>3, <2>0, ConsumeType DEF Deliver
  <2>2. Append(toStream[e], Arriving(e)) \in Seq(Frames)
    BY <1>0, <2>0, ArrivingType
  <2>3. handle' \in [Ends -> Handles] /\ recvd' \in [Ends -> Nat]
    <3>1. CASE Arriving(e).typ = "data"
      <4>1. Admit(e) /\ Counted(e)
        BY <1>3, <3>1 DEF Deliver
      <4> QED
        BY <2>0, <4>1, CountedType DEF Admit
    <3>2. CASE Arriving(e).typ # "data"
      BY <1>3, <3>2 DEF Deliver, TypeOK
    <3> QED
      BY <3>1, <3>2
  <2> QED
    BY <1>3, <2>1, <2>2, <2>3 DEF Deliver, TypeOK
<1>4. CASE Stall(e)
  <2> DEFINE w == handle[e].window - ToShrink(e)
             d == recvd[e] + ToShrink(e)
  <2>1. w \in Nat /\ d \in Nat
    BY <1>0, <1>4, ArrivingType DEF Stall, Admit, Reading, Handles
  <2>2. /\ handle' = [handle EXCEPT ![e].window = w]
        /\ recvd' = [recvd EXCEPT ![e] = d]
    BY <1>4 DEF Stall
  <2>3. handle' \in [Ends -> Handles] /\ recvd' \in [Ends -> Nat]
    <3> HIDE DEF w, d
    <3> QED BY <2>1, <2>2 DEF TypeOK, Handles
  <2> QED
    BY <1>4, <2>3 DEF Stall, TypeOK
<1>5. CASE Ignore(e)
  <2>0. wire[Peer(e)] # <<>>
    BY <1>5 DEF Ignore, Reading
  <2>1. wire' \in [Ends -> Seq(Frames)] /\ shrunk' \in [Ends -> BOOLEAN]
    BY <1>5, <2>0, ConsumeType DEF Ignore
  <2> DEFINE b == handle[e].dataWriteClosed \/ (Arriving(e).fin /\ handle[e].st = "live")
  <2>2. b \in BOOLEAN /\ handle' = [handle EXCEPT ![e].dataWriteClosed = b]
    BY <1>5, Zenon DEF Ignore
  <2>3. handle' \in [Ends -> Handles]
    <3> HIDE DEF b
    <3> QED BY <2>2 DEF TypeOK, Handles
  <2> QED
    BY <1>5, <2>1, <2>3 DEF Ignore, TypeOK
<1>6. CASE RefuseUnknown(e)
  BY <1>6, RefuseType DEF RefuseUnknown, TypeOK
<1>7. CASE RefuseClosed(e)
  <2>1. Refuse(e, "StreamClosed")
    BY <1>7 DEF RefuseClosed
  <2>2. CASE CloseWriters(e, handle[e].window) /\ UNCHANGED recvd
    BY <1>0, <2>1, <2>2, RefuseType, CloseWritersType DEF TypeOK, Handles
  <2>3. CASE /\ Admit(e)
             /\ CloseWriters(e, handle[e].window - ToShrink(e))
             /\ recvd' = [recvd EXCEPT ![e] = @ + ToShrink(e)]
    <3>1. handle[e].window - ToShrink(e) \in Nat /\ recvd[e] + ToShrink(e) \in Nat
      BY <1>0, <2>1, <2>3, RefuseType, ArrivingType DEF Admit, Handles
    <3>2. handle' \in [Ends -> Handles] /\ sinkClosed' \in [Ends -> BOOLEAN]
      BY <2>3, <3>1, CloseWritersType
    <3> QED
      BY <2>1, <2>3, <3>1, <3>2, RefuseType DEF TypeOK
  <2> QED
    BY <1>7, <2>2, <2>3 DEF RefuseClosed
<1>8. CASE RefuseFlow(e)
  BY <1>0, <1>8, RefuseType, CloseWritersType DEF RefuseFlow, TypeOK, Handles
<1> QED
  BY <1>1, <1>2, <1>3, <1>4, <1>5, <1>6, <1>7, <1>8 DEF ReaderTask

LEMMA NextType == TypeOK /\ [Next]_vars => TypeOK'
<1> SUFFICES ASSUME TypeOK, [Next]_vars PROVE TypeOK'
  OBVIOUS
<1>1. CASE UNCHANGED vars
  BY <1>1 DEF vars, TypeOK
<1>2. CASE Next
  BY <1>2, AppType, WriterType, ReaderType DEF Next
<1> QED
  BY <1>1, <1>2

(***************************************************************************)
(* Every reachable state is well typed: no window or buffer of a stream    *)
(* goes below zero, in particular the subtraction in send_to_stream never  *)
(* wraps.                                                                  *)
(***************************************************************************)
THEOREM Typing == Spec => []TypeOK
BY InitType, NextType, PTL DEF Spec
----------------------------------------------------------------------------
(* Appending to, and taking from, a channel of frames.                     *)

LEMMA FrameNat == ASSUME NEW f \in Frames PROVE f.off \in Nat /\ f.len \in Nat
BY DEF Frames

LEMMA AppendAt ==
  ASSUME NEW q \in Seq(Frames), NEW f \in Frames
  PROVE  /\ Append(q, f) \in Seq(Frames)
         /\ DOMAIN Append(q, f) = 1..(Len(q) + 1)
         /\ DOMAIN q = 1..Len(q)
         /\ \A i \in DOMAIN q : Append(q, f)[i] = q[i] /\ i # Len(q) + 1
         /\ Append(q, f)[Len(q) + 1] = f
         /\ Len(q) \in Nat
OBVIOUS

LEMMA TailAt ==
  ASSUME NEW q \in Seq(Frames), q # <<>>
  PROVE  /\ Tail(q) \in Seq(Frames) /\ Head(q) \in Frames
         /\ Head(q) = q[1] /\ 1 \in DOMAIN q
         /\ \A i \in DOMAIN Tail(q) : i \in Nat /\ i + 1 \in DOMAIN q /\ Tail(q)[i] = q[i + 1]
         /\ \A i \in DOMAIN q : i \in Nat /\ i >= 1
         /\ \A i \in DOMAIN q : i > 1 => i - 1 \in DOMAIN Tail(q) /\ Tail(q)[i - 1] = q[i]
OBVIOUS

LEMMA WithinWeaker ==
  ASSUME NEW q \in Seq(Frames), NEW t, NEW lo \in Int, NEW hi \in Int,
         NEW lo2 \in Int, NEW hi2 \in Int, lo2 <= lo, hi <= hi2, Within(q, t, lo, hi)
  PROVE  Within(q, t, lo2, hi2)
<1> SUFFICES ASSUME NEW i \in DOMAIN q, q[i].typ = t
             PROVE  lo2 <= q[i].off /\ q[i].off + q[i].len <= hi2
  BY DEF Within
<1>1. q[i] \in Frames
  OBVIOUS
<1>2. lo <= q[i].off /\ q[i].off + q[i].len <= hi
  BY DEF Within
<1> QED
  BY <1>1, <1>2, FrameNat

LEMMA WithinAppend ==
  ASSUME NEW q \in Seq(Frames), NEW f \in Frames, NEW t, NEW lo \in Int, NEW hi \in Int,
         Within(q, t, lo, hi), f.typ = t => lo <= f.off /\ f.off + f.len <= hi
  PROVE  Within(Append(q, f), t, lo, hi)
BY AppendAt DEF Within

LEMMA WithinTail ==
  ASSUME NEW q \in Seq(Frames), q # <<>>, NEW t, NEW lo \in Int, NEW hi \in Int,
         Within(q, t, lo, hi)
  PROVE  Within(Tail(q), t, lo, hi)
BY TailAt DEF Within

LEMMA WithinAfterHead ==
  ASSUME NEW q \in Seq(Frames), q # <<>>, NEW t, NEW lo \in Int, NEW hi \in Int,
         Within(q, t, lo, hi), Ordered(q, t), Head(q).typ = t
  PROVE  Within(Tail(q), t, Head(q).off + Head(q).len, hi)
BY TailAt DEF Within, Ordered

LEMMA OrderedAppend ==
  ASSUME NEW q \in Seq(Frames), NEW f \in Frames, NEW t, NEW lo \in Int, NEW hi \in Int,
         Ordered(q, t), Within(q, t, lo, hi), f.typ = t => hi <= f.off
  PROVE  Ordered(Append(q, f), t)
<1> SUFFICES ASSUME NEW i \in DOMAIN Append(q, f), NEW j \in DOMAIN Append(q, f), i < j,
                    Append(q, f)[i].typ = t, Append(q, f)[j].typ = t
             PROVE  Append(q, f)[i].off + Append(q, f)[i].len <= Append(q, f)[j].off
  BY DEF Ordered
<1>1. i \in DOMAIN q /\ Append(q, f)[i] = q[i] /\ q[i] \in Frames
  BY AppendAt
<1>2. CASE j \in DOMAIN q
  BY <1>1, <1>2, AppendAt DEF Ordered
<1>3. CASE j = Len(q) + 1
  <2>1. q[i].off + q[i].len <= hi
    BY <1>1 DEF Within
  <2>2. Append(q, f)[j] = f
    BY <1>3, AppendAt
  <2>3. hi <= f.off
    BY <2>2
  <2> QED
    BY <1>1, <2>1, <2>2, <2>3, FrameNat
<1> QED
  BY <1>2, <1>3, AppendAt

LEMMA OrderedTail ==
  ASSUME NEW q \in Seq(Frames), q # <<>>, NEW t, Ordered(q, t)
  PROVE  Ordered(Tail(q), t)
<1> SUFFICES ASSUME NEW i \in DOMAIN Tail(q), NEW j \in DOMAIN Tail(q), i < j,
                    Tail(q)[i].typ = t, Tail(q)[j].typ = t
             PROVE  Tail(q)[i].off + Tail(q)[i].len <= Tail(q)[j].off
  BY DEF Ordered
<1>1. /\ i + 1 \in DOMAIN q /\ j + 1 \in DOMAIN q /\ i + 1 < j + 1
      /\ Tail(q)[i] = q[i + 1] /\ Tail(q)[j] = q[j + 1]
  BY TailAt
<1> QED
  BY <1>1 DEF Ordered

LEMMA BeforeAppendRight ==
  ASSUME NEW q \in Seq(Frames), NEW r \in Seq(Frames), NEW f \in Frames, NEW t,
         NEW lo \in Int, NEW hi \in Int,
         Before(q, r, t), Within(q, t, lo, hi), f.typ = t => hi <= f.off
  PROVE  Before(q, Append(r, f), t)
<1> SUFFICES ASSUME NEW i \in DOMAIN q, NEW j \in DOMAIN Append(r, f),
                    q[i].typ = t, Append(r, f)[j].typ = t
             PROVE  q[i].off + q[i].len <= Append(r, f)[j].off
  BY DEF Before
<1>1. CASE j \in DOMAIN r
  BY <1>1, AppendAt DEF Before
<1>2. CASE j = Len(r) + 1
  <2>1. q[i] \in Frames /\ q[i].off + q[i].len <= hi
    BY DEF Within
  <2>2. Append(r, f)[j] = f
    BY <1>2, AppendAt
  <2>3. hi <= f.off
    BY <2>2
  <2> QED
    BY <2>1, <2>2, <2>3, FrameNat
<1> QED
  BY <1>1, <1>2, AppendAt

LEMMA BeforeTails ==
  ASSUME NEW q \in Seq(Frames), NEW r \in Seq(Frames), NEW t, Before(q, r, t)
  PROVE  /\ q # <<>> => Before(Tail(q), r, t)
         /\ r # <<>> => Before(q, Tail(r), t)
<1>1. ASSUME q # <<>> PROVE Before(Tail(q), r, t)
  BY <1>1, TailAt DEF Before
<1>2. ASSUME r # <<>> PROVE Before(q, Tail(r), t)
  BY <1>2, TailAt DEF Before
<1> QED
  BY <1>1, <1>2

\* The head of r moves to the end of q.
LEMMA BeforeMove ==
  ASSUME NEW q \in Seq(Frames), NEW r \in Seq(Frames), NEW t, r # <<>>,
         Before(q, r, t), Ordered(r, t), Ordered(q, t)
  PROVE  /\ Before(Append(q, Head(r)), Tail(r), t)
         /\ Ordered(Append(q, Head(r)), t)
<1> DEFINE f == Head(r)
           s == Append(q, f)
<1>1. f \in Frames /\ f = r[1] /\ 1 \in DOMAIN r
  BY TailAt
<1>2. Before(s, Tail(r), t)
  <2> SUFFICES ASSUME NEW i \in DOMAIN s, NEW j \in DOMAIN Tail(r),
                      s[i].typ = t, Tail(r)[j].typ = t
               PROVE  s[i].off + s[i].len <= Tail(r)[j].off
    BY DEF Before
  <2>1. j + 1 \in DOMAIN r /\ Tail(r)[j] = r[j + 1] /\ j + 1 > 1
    BY TailAt
  <2>2. CASE i \in DOMAIN q
    BY <1>1, <2>1, <2>2, AppendAt DEF Before
  <2>3. CASE i = Len(q) + 1
    <3>1. s[i] = r[1]
      BY <1>1, <2>3, AppendAt
    <3> QED
      BY <1>1, <2>1, <3>1 DEF Ordered
  <2> QED
    BY <1>1, <2>2, <2>3, AppendAt
<1>3. Ordered(s, t)
  <2> SUFFICES ASSUME NEW i \in DOMAIN s, NEW j \in DOMAIN s, i < j,
                      s[i].typ = t, s[j].typ = t
               PROVE  s[i].off + s[i].len <= s[j].off
    BY DEF Ordered
  <2>1. i \in DOMAIN q /\ s[i] = q[i]
    BY <1>1, AppendAt
  <2>2. CASE j \in DOMAIN q
    BY <1>1, <2>1, <2>2, AppendAt DEF Ordered
  <2>3. CASE j = Len(q) + 1
    <3>1. s[j] = r[1]
      BY <1>1, <2>3, AppendAt
    <3> QED
      BY <1>1, <2>1, <3>1 DEF Before
  <2> QED
    BY <1>1, <2>2, <2>3, AppendAt
<1> QED
  BY <1>2, <1>3

LEMMA LinkedAppend ==
  ASSUME NEW q \in Seq(Frames), NEW f \in Frames, NEW t, NEW lo \in Int, NEW hi \in Int,
         Linked(q, t, lo, hi), f.typ = t, f.off = hi
  PROVE  Linked(Append(q, f), t, lo, f.off + f.len)
<1> DEFINE s == Append(q, f)
<1>1. ASSUME NEW i \in DOMAIN s, s[i].typ = t
      PROVE  \/ s[i].off = lo
             \/ \E j \in DOMAIN s : j < i /\ s[j].typ = t /\ s[j].off + s[j].len = s[i].off
  <2>1. CASE i \in DOMAIN q
    <3>1. q[i] = s[i]
      BY <2>1, AppendAt
    <3>2. \A j \in DOMAIN q : j \in DOMAIN s /\ s[j] = q[j]
      BY AppendAt
    <3> HIDE DEF s
    <3> QED
      BY <1>1, <2>1, <3>1, <3>2 DEF Linked
  <2>2. CASE i = Len(q) + 1
    <3>1. s[i] = f
      BY <2>2, AppendAt
    <3>2. \A j \in DOMAIN q : j \in DOMAIN s /\ s[j] = q[j] /\ j < i
      BY <2>2, AppendAt
    <3> HIDE DEF s
    <3> QED
      BY <3>1, <3>2 DEF Linked
  <2> QED
    BY <1>1, <2>1, <2>2, AppendAt
<1>2. \E j \in DOMAIN s : s[j].typ = t /\ s[j].off + s[j].len = f.off + f.len
  <2>1. Len(q) + 1 \in DOMAIN s /\ s[Len(q) + 1] = f
    BY AppendAt
  <2> QED
    BY <2>1
<1> HIDE DEF s
<1>3. Linked(s, t, lo, f.off + f.len)
  BY <1>1, <1>2 DEF Linked
<1> QED
  BY <1>3 DEF s

LEMMA LinkedAppendOther ==
  ASSUME NEW q \in Seq(Frames), NEW f \in Frames, NEW t, NEW lo \in Int, NEW hi \in Int,
         Linked(q, t, lo, hi), f.typ # t
  PROVE  Linked(Append(q, f), t, lo, hi)
<1> DEFINE s == Append(q, f)
<1>1. \A j \in DOMAIN q : j \in DOMAIN s /\ s[j] = q[j]
  BY AppendAt
<1>2. \A i \in DOMAIN s : s[i].typ = t => i \in DOMAIN q
  BY AppendAt
<1> HIDE DEF s
<1>3. Linked(s, t, lo, hi)
  BY <1>1, <1>2 DEF Linked
<1> QED
  BY <1>3 DEF s

LEMMA LinkedTail ==
  ASSUME NEW q \in Seq(Frames), q # <<>>, NEW t, NEW lo \in Int, NEW hi \in Int,
         Linked(q, t, lo, hi), Within(q, t, lo, hi), Ordered(q, t)
  PROVE  /\ Head(q).typ # t => Linked(Tail(q), t, lo, hi)
         /\ Head(q).typ = t => /\ Head(q).off = lo
                               /\ Linked(Tail(q), t, lo + Head(q).len, hi)
<1> DEFINE s == Tail(q)
<1>0. /\ \A i \in DOMAIN s : i \in Nat /\ i + 1 \in DOMAIN q /\ s[i] = q[i + 1]
      /\ \A i \in DOMAIN q : i \in Nat /\ i >= 1 /\ q[i] \in Frames
      /\ \A i \in DOMAIN q : i > 1 => i - 1 \in DOMAIN s /\ s[i - 1] = q[i]
      /\ Head(q) = q[1] /\ 1 \in DOMAIN q
  BY TailAt
<1>1. ASSUME Head(q).typ = t PROVE Head(q).off = lo
  BY <1>0, <1>1 DEF Linked
<1> DEFINE b == IF Head(q).typ = t THEN lo + Head(q).len ELSE lo
<1>b. b \in Int
  BY <1>0, FrameNat
<1>2. ASSUME NEW i \in DOMAIN q, i > 1, q[i].typ = t
      PROVE  \/ q[i].off = b
             \/ \E j \in DOMAIN q : /\ j > 1 /\ j < i /\ q[j].typ = t
                                    /\ q[j].off + q[j].len = q[i].off
  <2>1. CASE q[i].off = lo
    <3>1. ASSUME Head(q).typ = t PROVE q[1].off + q[1].len <= q[i].off
      BY <1>0, <1>2, <3>1 DEF Ordered
    <3> QED
      BY <1>0, <1>1, <2>1, <3>1, FrameNat
  <2>2. ASSUME NEW j \in DOMAIN q, j < i, q[j].typ = t, q[j].off + q[j].len = q[i].off
        PROVE  \/ q[i].off = b
               \/ \E k \in DOMAIN q : /\ k > 1 /\ k < i /\ q[k].typ = t
                                      /\ q[k].off + q[k].len = q[i].off
    <3>1. CASE j = 1
      BY <1>0, <1>1, <2>2, <3>1
    <3>2. CASE j # 1
      BY <1>0, <2>2, <3>2
    <3> QED
      BY <3>1, <3>2
  <2> QED
    BY <1>2, <2>1, <2>2 DEF Linked
<1>3. hi = b \/ \E j \in DOMAIN q : j > 1 /\ q[j].typ = t /\ q[j].off + q[j].len = hi
  <2>1. CASE hi = lo
    <3>1. ASSUME Head(q).typ = t PROVE q[1].off + q[1].len <= hi
      BY <1>0, <3>1 DEF Within
    <3> QED
      BY <1>0, <1>1, <2>1, <3>1, FrameNat
  <2>2. ASSUME NEW j \in DOMAIN q, q[j].typ = t, q[j].off + q[j].len = hi
        PROVE  hi = b \/ \E k \in DOMAIN q : k > 1 /\ q[k].typ = t /\ q[k].off + q[k].len = hi
    BY <1>0, <1>1, <2>2
  <2> QED
    BY <2>1, <2>2 DEF Linked
<1>4. Linked(s, t, b, hi)
  <2> HIDE DEF s, b
  <2>1. ASSUME NEW i \in DOMAIN s, s[i].typ = t
        PROVE  \/ s[i].off = b
               \/ \E j \in DOMAIN s : j < i /\ s[j].typ = t /\ s[j].off + s[j].len = s[i].off
    <3>1. i + 1 \in DOMAIN q /\ i + 1 > 1 /\ s[i] = q[i + 1] /\ i \in Nat
      BY <1>0, <2>1, SMTT(30)
    <3>2. CASE q[i + 1].off = b
      BY <3>1, <3>2
    <3>3. ASSUME NEW j \in DOMAIN q, j > 1, j < i + 1, q[j].typ = t,
                 q[j].off + q[j].len = q[i + 1].off
          PROVE  \E k \in DOMAIN s : k < i /\ s[k].typ = t /\ s[k].off + s[k].len = s[i].off
      <4>1. j - 1 \in DOMAIN s /\ s[j - 1] = q[j] /\ j - 1 < i
        BY <1>0, <3>1, <3>3, SMTT(30)
      <4> QED
        BY <3>1, <3>3, <4>1
    <3> QED
      BY <1>2, <2>1, <3>1, <3>2, <3>3
  <2>2. hi = b \/ \E j \in DOMAIN s : s[j].typ = t /\ s[j].off + s[j].len = hi
    BY <1>0, <1>3
  <2> QED
    BY <2>1, <2>2 DEF Linked
<1> QED
  BY <1>1, <1>4

LEMMA Shift ==
  ASSUME NEW r \in Int, NEW h \in Int, NEW w \in Int, NEW k \in Int
  PROVE  /\ r + (h + k) - w = (r + h - w) + k
         /\ (r + k) + (h - k) - w = r + h - w
OBVIOUS

LEMMA Added ==
  ASSUME NEW r \in Nat, NEW a \in Nat, NEW k \in Nat, r <= a + 0
  PROVE  r + k \in Int /\ a + k \in Int /\ r + k <= a + k
OBVIOUS

LEMMA Between ==
  ASSUME NEW a \in Int, NEW b \in Int, NEW c \in Int, a <= b, b <= c
  PROVE  a <= c
OBVIOUS

----------------------------------------------------------------------------
(* FlowInv by its parts, and the parts that a step leaves alone.           *)

LEMMA Ints ==
  ASSUME TypeOK, NEW x \in Ends
  PROVE  /\ Credit(x) \in Int /\ Granted(x) \in Int /\ W[x] \in Nat \ {0}
         /\ sent[x] \in Nat /\ rd[x] \in Nat /\ recvd[x] \in Nat
         /\ stream[x].window \in Nat /\ handle[x].window \in Nat
         /\ stream[x] \in Streams /\ handle[x] \in Handles
         /\ toSession[x] \in Seq(Frames) /\ toStream[x] \in Seq(Frames)
         /\ wire[x] \in Seq(Frames) /\ sysq[x] \in Seq(Frames)
<1>1. stream[x] \in Streams /\ handle[x] \in Handles
  BY DEF TypeOK
<1>2. stream[x].window \in Nat /\ handle[x].window \in Nat
  BY <1>1 DEF Streams, Handles
<1> QED
  BY <1>1, <1>2, WindowAssumption, SMTT(30) DEF TypeOK, Credit, Granted

Parts(e, p) ==
  /\ Untouched(e) /\ Untouched(p)
  /\ ResetIsFinal(e) /\ ResetIsFinal(p)
  /\ Queued(e) /\ Queued(p)
  /\ Announced(e, p) /\ Announced(p, e)
  /\ Outstanding(e, p) /\ Outstanding(p, e)

LEMMA Split == ASSUME NEW e \in Ends PROVE FlowInv <=> Parts(e, Peer(e))
<1>1. \A x \in Ends : x = e \/ x = Peer(e)
  BY DEF Peer, Ends
<1> QED
  BY <1>1, PeerType, Zenon DEF FlowInv, Parts

LEMMA SplitPrime == ASSUME NEW e \in Ends PROVE FlowInv' <=> Parts(e, Peer(e))'
<1>1. \A x \in Ends : x = e \/ x = Peer(e)
  BY DEF Peer, Ends
<1> QED
  BY <1>1, PeerType, Zenon DEF FlowInv, Parts

LEMMA UntouchedSame ==
  ASSUME NEW x \in Ends, Untouched(x), handle'[x] = handle[x], stream'[x] = stream[x],
         sinkClosed'[x] = sinkClosed[x]
  PROVE  Untouched(x)'
BY DEF Untouched, NewStream

LEMMA ResetSame ==
  ASSUME NEW x \in Ends, ResetIsFinal(x), handle'[x] = handle[x], sysq'[x] = sysq[x],
         sinkClosed'[x] = sinkClosed[x]
  PROVE  ResetIsFinal(x)'
BY DEF ResetIsFinal

LEMMA QueuedSame ==
  ASSUME NEW x \in Ends, Queued(x), Granted(x)' = Granted(x), rd'[x] = rd[x],
         toSession'[x] = toSession[x], SinkErr(x) => SinkErr(x)'
  PROVE  Queued(x)'
BY DEF Queued, Within, Ordered, Linked

LEMMA AnnouncedSame ==
  ASSUME NEW x \in Ends, NEW y \in Ends, Announced(x, y), Credit(x)' = Credit(x),
         Granted(y)' = Granted(y), wire'[y] = wire[y], toStream'[x] = toStream[x]
  PROVE  Announced(x, y)'
BY DEF Announced, Within, Ordered, Before

LEMMA OutstandingSame ==
  ASSUME NEW x \in Ends, NEW y \in Ends, Outstanding(x, y), sent'[x] = sent[x],
         recvd'[y] = recvd[y], wire'[x] = wire[x], toSession'[x] = toSession[x],
         shrunk'[y] = shrunk[y]
  PROVE  Outstanding(x, y)'
BY DEF Outstanding, Within, Ordered, Before

LEMMA InitFlow == Init => FlowInv
<1> SUFFICES ASSUME Init, NEW e \in Ends
             PROVE  /\ Untouched(e) /\ ResetIsFinal(e) /\ Queued(e)
                    /\ Announced(e, Peer(e)) /\ Outstanding(e, Peer(e))
  BY DEF FlowInv
<1>0. TypeOK
  BY InitType
<1>1. \A x \in Ends : /\ stream[x].window = W[x] /\ handle[x].window = W[x]
                      /\ sent[x] = 0 /\ rd[x] = 0 /\ recvd[x] = 0
                      /\ toSession[x] = <<>> /\ toStream[x] = <<>>
                      /\ wire[x] = <<>> /\ sysq[x] = <<>>
                      /\ ~shrunk[x] /\ ~sinkClosed[x]
  BY DEF Init, NewStream, NewHandle
<1>2. \A x \in Ends : Credit(x) = 0 /\ Granted(x) = 0
  BY <1>1, WindowAssumption DEF Credit, Granted
<1>3. Untouched(e)
  BY <1>1 DEF Untouched, Init, NewHandle, Ends
<1>4. ResetIsFinal(e) /\ Queued(e)
  BY <1>1, <1>2 DEF ResetIsFinal, Queued, Within, Ordered, Linked
<1>5. Announced(e, Peer(e)) /\ Outstanding(e, Peer(e))
  BY <1>1, <1>2, PeerType DEF Announced, Outstanding, Within, Ordered, Before
<1> QED
  BY <1>3, <1>4, <1>5

----------------------------------------------------------------------------
(* The application's steps.                                                *)

LEMMA RecvFlow ==
  ASSUME TypeOK, TypeOK', FlowInv, NEW e \in Ends, stream[e].st = "open", RecvFrame(e)
  PROVE  FlowInv'
<1> DEFINE p == Peer(e)
<1>0. p \in Ends /\ p # e /\ Parts(e, p)
  BY PeerType, Split
<1> HIDE DEF p
<1>1. /\ stream'[p] = stream[p] /\ toStream'[p] = toStream[p]
      /\ UNCHANGED <<handle, sinkClosed, toSession, sysq, wire, shrunk, sent, recvd, rd>>
  BY <1>0 DEF RecvFrame, TypeOK
<1>2. Untouched(e)' /\ Untouched(p)'
  <2>1. handle[e].st # "none"
    BY <1>0 DEF Parts, Untouched, NewStream
  <2> QED
    BY <1>0, <1>1, <2>1, UntouchedSame DEF Parts, Untouched
<1>3. ResetIsFinal(e)' /\ ResetIsFinal(p)'
  BY <1>0, <1>1, ResetSame DEF Parts
<1>4. Granted(e)' = Granted(e) /\ Granted(p)' = Granted(p) /\ Credit(p)' = Credit(p)
  BY <1>1 DEF Granted, Credit
<1>5. Queued(e)' /\ Queued(p)'
  BY <1>0, <1>1, <1>4, QueuedSame DEF Parts, SinkErr
<1>6. Outstanding(e, p)' /\ Outstanding(p, e)'
  BY <1>0, <1>1, OutstandingSame DEF Parts
<1>7. Announced(p, e)'
  BY <1>0, <1>1, <1>4, AnnouncedSame DEF Parts
<1>8. Announced(e, p)'
  <2>1. CASE toStream'[e] = toStream[e] /\ Credit(e)' = Credit(e)
    BY <1>0, <1>1, <1>4, <2>1, AnnouncedSame DEF Parts
  <2>2. CASE /\ toStream[e] # <<>>
             /\ stream' = [stream EXCEPT ![e] = HandledBy(e, Head(toStream[e]))]
             /\ toStream' = [toStream EXCEPT ![e] = Tail(@)]
    <3> DEFINE q == toStream[e]
               f == Head(q)
    <3>0. /\ q \in Seq(Frames) /\ q # <<>> /\ f \in Frames /\ wire[p] \in Seq(Frames)
          /\ Credit(e) \in Int /\ Granted(p) \in Int /\ f.off \in Nat /\ f.len \in Nat
          /\ toStream'[e] = Tail(q) /\ Tail(q) \in Seq(Frames) /\ f = q[1] /\ 1 \in DOMAIN q
      <4>1. toStream'[e] = Tail(q)
        BY <2>2 DEF TypeOK
      <4>2. q \in Seq(Frames) /\ wire[p] \in Seq(Frames) /\ Credit(e) \in Int /\ Granted(p) \in Int
        BY <1>0, Ints
      <4> HIDE DEF q
      <4> QED
        BY <2>2, <4>1, <4>2, TailAt, FrameNat DEF q
    <3>b. /\ stream[e].window \in Nat /\ stream'[e].window \in Nat /\ sent'[e] = sent[e]
          /\ sent[e] \in Nat /\ W[e] \in Nat /\ Credit(e)' \in Int
      <4>1. stream'[e].window \in Nat
        BY DEF TypeOK, Streams
      <4> QED
        BY <1>1, <4>1, Ints DEF Credit
    <3>a. /\ Within(q, "wndinc", Credit(e), Granted(p)) /\ Ordered(q, "wndinc")
          /\ Before(q, wire[p], "wndinc") /\ Credit(e) <= Granted(p)
          /\ Within(wire[p], "wndinc", Credit(e), Granted(p))
          /\ Ordered(wire[p], "wndinc")
      BY <1>0 DEF Parts, Announced
    <3>1. CASE f.typ = "wndinc"
      <4>1. Credit(e)' <= f.off + f.len
        <5>1. stream'[e].window <= stream[e].window + f.len
          <6>1. stream'[e] = HandledBy(e, f) /\ stream[e] \in Streams
            BY <2>2 DEF TypeOK
          <6>2. HandledBy(e, f).window = WindowInc(e, stream[e].window, f.len)
            BY <3>1, <6>1 DEF HandledBy, Streams
          <6> QED
            BY <3>0, <3>b, <6>1, <6>2, SMTT(30) DEF WindowInc, LesserOf
        <5>2. Credit(e) <= f.off
          BY <3>0, <3>1, <3>a DEF Within
        <5>3. /\ Credit(e) = sent[e] + stream[e].window - W[e]
              /\ Credit(e)' = sent[e] + stream'[e].window - W[e]
          BY <3>b DEF Credit
        <5>4. f.off \in Nat /\ f.len \in Nat
          BY <3>0
        <5> HIDE DEF f
        <5> QED
          BY <3>b, <5>1, <5>2, <5>3, <5>4
      <4>2. f.off + f.len <= Granted(p)
        BY <3>0, <3>1, <3>a DEF Within
      <4>3. Within(Tail(q), "wndinc", f.off + f.len, Granted(p))
        BY <3>0, <3>1, <3>a, WithinAfterHead
      <4>4. Within(wire[p], "wndinc", f.off + f.len, Granted(p))
        <5>1. \A j \in DOMAIN wire[p] : wire[p][j].typ = "wndinc" => f.off + f.len <= wire[p][j].off
          BY <3>0, <3>1, <3>a DEF Before
        <5> QED
          BY <5>1, <3>a DEF Within
      <4> HIDE DEF q, f
      <4>5. /\ Within(Tail(q), "wndinc", Credit(e)', Granted(p))
            /\ Within(wire[p], "wndinc", Credit(e)', Granted(p))
            /\ Credit(e)' <= Granted(p)
        <5> DEFINE n == f.off + f.len
                   c == Credit(e)'
        <5>1. n \in Int /\ c \in Int /\ c <= n /\ n <= Granted(p)
          BY <3>0, <3>b, <4>1, <4>2
        <5>2. Within(Tail(q), "wndinc", n, Granted(p)) /\ Within(wire[p], "wndinc", n, Granted(p))
          BY <4>3, <4>4
        <5> HIDE DEF n, c
        <5>3. c <= Granted(p) /\ Granted(p) <= Granted(p)
          BY <3>0, <5>1
        <5>4. Within(Tail(q), "wndinc", c, Granted(p)) /\ Within(wire[p], "wndinc", c, Granted(p))
          BY <3>0, <5>1, <5>2, <5>3, WithinWeaker
        <5> QED
          BY <5>3, <5>4 DEF c
      <4>6. Ordered(Tail(q), "wndinc") /\ Before(Tail(q), wire[p], "wndinc")
        BY <3>0, <3>a, OrderedTail, BeforeTails
      <4> QED
        BY <1>1, <1>4, <3>0, <3>a, <4>5, <4>6 DEF Announced, Within, Ordered, Before
    <3>2. CASE f.typ # "wndinc"
      <4>1. Credit(e)' = Credit(e)
        BY <1>1, <2>2, <3>2 DEF HandledBy, Credit, TypeOK, Streams
      <4> HIDE DEF q, f
      <4>2. /\ Within(Tail(q), "wndinc", Credit(e), Granted(p)) /\ Ordered(Tail(q), "wndinc")
            /\ Before(Tail(q), wire[p], "wndinc")
        BY <3>0, <3>a, WithinTail, OrderedTail, BeforeTails
      <4> QED
        BY <1>1, <1>4, <3>0, <3>a, <4>1, <4>2 DEF Announced, Within, Ordered, Before
    <3> QED
      BY <3>1, <3>2
  <2>3. CASE /\ stream' = [stream EXCEPT ![e].dataReadClosed = TRUE]
             /\ UNCHANGED toStream
    BY <1>1, <2>1, <2>3 DEF Credit, TypeOK, Streams
  <2> QED
    BY <2>2, <2>3 DEF RecvFrame
<1> QED
  BY <1>2, <1>3, <1>5, <1>6, <1>7, <1>8, SplitPrime DEF Parts, p

\* A frame that is no WNDINC is queued for the session.
LEMMA QueuedOther ==
  ASSUME TypeOK, NEW x \in Ends, NEW f \in Frames, Queued(x), f.typ # "wndinc",
         Granted(x)' = Granted(x), rd'[x] = rd[x],
         toSession'[x] = Append(toSession[x], f), SinkErr(x) => SinkErr(x)'
  PROVE  Queued(x)'
<1> DEFINE q == toSession[x]
<1>0. q \in Seq(Frames) /\ Granted(x) \in Int /\ rd[x] \in Int
  BY Ints
<1>1. /\ Granted(x) <= rd[x] /\ Within(q, "wndinc", Granted(x), rd[x])
      /\ Ordered(q, "wndinc") /\ (~SinkErr(x) => Linked(q, "wndinc", Granted(x), rd[x]))
  BY DEF Queued
<1> HIDE DEF q
<1>2. Within(Append(q, f), "wndinc", Granted(x), rd[x])
  BY <1>0, <1>1, WithinAppend
<1>3. Ordered(Append(q, f), "wndinc")
  BY <1>0, <1>1, OrderedAppend
<1>4. ~SinkErr(x) => Linked(Append(q, f), "wndinc", Granted(x), rd[x])
  BY <1>0, <1>1, LinkedAppendOther
<1>5. toSession'[x] = Append(q, f)
  BY DEF q
<1> QED
  BY <1>1, <1>2, <1>3, <1>4, <1>5 DEF Queued, Within, Ordered, Linked

\* A frame of the stream is queued; data continues what was written.
LEMMA OutstandingQueued ==
  ASSUME TypeOK, TypeOK', NEW x \in Ends, NEW y \in Ends, NEW f \in Frames, Outstanding(x, y),
         toSession'[x] = Append(toSession[x], f), sent[x] <= sent'[x],
         f.typ = "data" => f.off = sent[x] /\ f.off + f.len <= sent'[x],
         recvd'[y] = recvd[y], wire'[x] = wire[x], shrunk'[y] = shrunk[y]
  PROVE  Outstanding(x, y)'
<1> DEFINE q == toSession[x]
           n == sent'[x]
<1>0. /\ q \in Seq(Frames) /\ wire[x] \in Seq(Frames) /\ recvd[y] \in Int /\ sent[x] \in Int
      /\ n \in Int /\ 0 \in Int
  BY Ints DEF TypeOK
<1>1. /\ Within(wire[x], "data", 0, sent[x]) /\ Ordered(wire[x], "data")
      /\ Within(q, "data", recvd[y], sent[x]) /\ Ordered(q, "data")
      /\ Before(wire[x], q, "data") /\ recvd[y] <= sent[x]
  BY DEF Outstanding
<1>2. toSession'[x] = Append(q, f) /\ sent[x] <= n
  OBVIOUS
<1>3. f.typ = "data" => sent[x] <= f.off /\ recvd[y] <= f.off /\ f.off + f.len <= n
  BY <1>0, <1>1, FrameNat
<1> HIDE DEF q, n
<1>4. Within(wire[x], "data", 0, n) /\ Within(q, "data", recvd[y], n)
  BY <1>0, <1>1, <1>2, WithinWeaker
<1>5. Within(Append(q, f), "data", recvd[y], n)
  BY <1>0, <1>3, <1>4, WithinAppend
<1>6. Ordered(Append(q, f), "data")
  BY <1>0, <1>1, <1>3, OrderedAppend
<1>7. Before(wire[x], Append(q, f), "data")
  BY <1>0, <1>1, <1>3, BeforeAppendRight
<1>8. recvd[y] <= n
  BY <1>0, <1>1, <1>2
<1>9. sent'[x] = n
  BY DEF n
<1> QED
  BY <1>1, <1>2, <1>4, <1>5, <1>6, <1>7, <1>8, <1>9
     DEF Outstanding, Within, Ordered, Before

LEMMA ReadFlow ==
  ASSUME TypeOK, TypeOK', FlowInv, NEW e \in Ends, NEW n \in ReadSizes, Read(e, n)
  PROVE  FlowInv'
<1> DEFINE p == Peer(e)
           k == LesserOf(stream[e].readBuf, n)
<1>0. p \in Ends /\ p # e /\ Parts(e, p)
  BY PeerType, Split
<1>k. k \in Nat
  BY BoundAssumption DEF TypeOK, Streams, LesserOf
<1> HIDE DEF p
<1>1. /\ stream'[p] = stream[p] /\ toSession'[p] = toSession[p] /\ rd'[p] = rd[p]
      /\ sinkClosed'[p] = sinkClosed[p]
      /\ UNCHANGED <<handle, toStream, sysq, wire, shrunk, sent, recvd>>
      /\ rd'[e] = rd[e] + k
  BY <1>0 DEF Read, TypeOK
<1>w. stream'[e].window = stream[e].window
  BY DEF Read, TypeOK, Streams
<1>2. \/ SinkErr(e) /\ sinkClosed'[e] /\ toSession'[e] = toSession[e]
      \/ /\ ~SinkErr(e) /\ sinkClosed'[e] = sinkClosed[e]
         /\ toSession'[e] = Append(toSession[e], WndInc(rd[e], k))
  BY DEF Read, TypeOK
<1> HIDE DEF k
<1>3. Untouched(e)' /\ Untouched(p)'
  <2>1. handle[e].st # "none"
    BY <1>0 DEF Parts, Untouched, NewStream, Read
  <2> QED
    BY <1>0, <1>1, <2>1, UntouchedSame DEF Parts, Untouched
<1>4. ResetIsFinal(e)' /\ ResetIsFinal(p)'
  <2>1. ResetIsFinal(p)'
    BY <1>0, <1>1, ResetSame DEF Parts
  <2>2. ResetIsFinal(e)'
    BY <1>0, <1>1, <1>2 DEF Parts, ResetIsFinal, SinkErr
  <2> QED
    BY <2>1, <2>2
<1>5. /\ Granted(e)' = Granted(e) /\ Granted(p)' = Granted(p)
      /\ Credit(e)' = Credit(e) /\ Credit(p)' = Credit(p)
  BY <1>1, <1>w DEF Granted, Credit
<1>6. Queued(p)'
  BY <1>0, <1>1, <1>5, QueuedSame DEF Parts, SinkErr
<1>7. Announced(e, p)' /\ Announced(p, e)'
  BY <1>0, <1>1, <1>5, AnnouncedSame DEF Parts
<1>8. Outstanding(p, e)'
  BY <1>0, <1>1, OutstandingSame DEF Parts
<1> DEFINE q == toSession[e]
           f == WndInc(rd[e], k)
<1>9. /\ q \in Seq(Frames) /\ Granted(e) \in Int /\ rd[e] \in Nat /\ f \in Frames
      /\ f.typ = "wndinc" /\ f.off = rd[e] /\ f.len = k
  BY <1>k, Ints, WndIncType DEF WndInc, Frame
<1>10. /\ Granted(e) <= rd[e] /\ Within(q, "wndinc", Granted(e), rd[e])
       /\ Ordered(q, "wndinc") /\ (~SinkErr(e) => Linked(q, "wndinc", Granted(e), rd[e]))
  BY <1>0 DEF Parts, Queued
<1> HIDE DEF q, f
<1>11. Queued(e)'
  <2> DEFINE d == rd[e] + k
  <2>0. d \in Int /\ rd[e] <= d /\ rd'[e] = d /\ Granted(e) <= d
    BY <1>1, <1>k, <1>9, <1>10
  <2> HIDE DEF d
  <2>1. Within(q, "wndinc", Granted(e), d)
    BY <1>9, <1>10, <2>0, WithinWeaker
  <2>2. CASE SinkErr(e) /\ sinkClosed'[e] /\ toSession'[e] = q
    BY <1>5, <1>10, <2>0, <2>1, <2>2 DEF Queued, SinkErr, Within, Ordered
  <2>3. CASE ~SinkErr(e) /\ toSession'[e] = Append(q, f)
    <3>1. f.off + f.len = d /\ Granted(e) <= f.off
      BY <1>9, <1>10 DEF d
    <3>2. Within(Append(q, f), "wndinc", Granted(e), d)
      BY <1>9, <2>0, <2>1, <3>1, WithinAppend
    <3>3. Ordered(Append(q, f), "wndinc")
      BY <1>9, <1>10, OrderedAppend
    <3>4. Linked(Append(q, f), "wndinc", Granted(e), d)
      BY <1>9, <1>10, <2>3, <3>1, LinkedAppend
    <3> QED
      BY <1>5, <2>0, <2>3, <3>2, <3>3, <3>4 DEF Queued, Within, Ordered, Linked
  <2> QED
    BY <1>2, <2>2, <2>3 DEF q, f
<1>12. Outstanding(e, p)'
  <2>1. CASE toSession'[e] = q
    BY <1>0, <1>1, <2>1, OutstandingSame DEF Parts, q
  <2>2. CASE toSession'[e] = Append(q, f)
    <3>1. sent[e] <= sent'[e]
      BY <1>1, Ints
    <3> QED
      BY <1>0, <1>1, <1>9, <2>2, <3>1, OutstandingQueued DEF Parts, q
  <2> QED
    BY <1>2, <2>1, <2>2 DEF q, f
<1> QED
  BY <1>3, <1>4, <1>6, <1>7, <1>8, <1>11, <1>12, SplitPrime DEF Parts, p

\* poll_write and poll_shutdown queue a data frame and leave the credit alone.
LEMMA QueueDataFlow ==
  ASSUME TypeOK, TypeOK', FlowInv, NEW e \in Ends, NEW f \in Frames, stream[e].st = "open",
         f.typ = "data", f.off = sent[e], f.off + f.len <= sent'[e], sent[e] <= sent'[e],
         toSession' = [toSession EXCEPT ![e] = Append(@, f)],
         Credit(e)' = Credit(e), sent'[Peer(e)] = sent[Peer(e)],
         stream'[Peer(e)] = stream[Peer(e)],
         UNCHANGED <<handle, sinkClosed, toStream, sysq, wire, shrunk, recvd, rd>>
  PROVE  FlowInv'
<1> DEFINE p == Peer(e)
<1>0. p \in Ends /\ p # e /\ Parts(e, p)
  BY PeerType, Split
<1>1. /\ stream'[p] = stream[p] /\ toSession'[p] = toSession[p] /\ sent'[p] = sent[p]
      /\ toSession'[e] = Append(toSession[e], f)
  BY <1>0 DEF TypeOK
<1> HIDE DEF p
<1>3. Untouched(e)' /\ Untouched(p)'
  <2>1. handle[e].st # "none"
    BY <1>0 DEF Parts, Untouched, NewStream
  <2> QED
    BY <1>0, <1>1, <2>1, UntouchedSame DEF Parts, Untouched
<1>4. ResetIsFinal(e)' /\ ResetIsFinal(p)'
  BY <1>0, ResetSame DEF Parts
<1>5. /\ Granted(e)' = Granted(e) /\ Granted(p)' = Granted(p)
      /\ Credit(e)' = Credit(e) /\ Credit(p)' = Credit(p)
  BY <1>1 DEF Granted, Credit
<1>6. Queued(p)'
  BY <1>0, <1>1, <1>5, QueuedSame DEF Parts, SinkErr
<1>7. Announced(e, p)' /\ Announced(p, e)'
  BY <1>0, <1>5, AnnouncedSame DEF Parts
<1>8. Outstanding(p, e)'
  BY <1>0, <1>1, OutstandingSame DEF Parts
<1>9. Queued(e)'
  BY <1>0, <1>1, <1>5, QueuedOther DEF Parts, SinkErr
<1>10. Outstanding(e, p)'
  BY <1>0, <1>1, OutstandingQueued DEF Parts
<1> QED
  BY <1>3, <1>4, <1>6, <1>7, <1>8, <1>9, <1>10, SplitPrime DEF Parts, p

LEMMA WriteFlow ==
  ASSUME TypeOK, TypeOK', FlowInv, NEW e \in Ends, NEW n \in WriteSizes, Write(e, n)
  PROVE  FlowInv'
<1> DEFINE p == Peer(e)
           k == LesserOf(stream[e].window, n)
           f == Data(stream[e].needsSyn, sent[e], k)
<1>0. p \in Ends /\ p # e
  BY PeerType
<1>1. k \in Nat /\ stream[e].window \in Nat /\ stream[e].needsSyn \in BOOLEAN /\ sent[e] \in Nat
  BY BoundAssumption DEF TypeOK, Streams, LesserOf
<1>2. f \in Frames /\ f.typ = "data" /\ f.off = sent[e] /\ f.len = k
  BY <1>1, DataType DEF Data, Frame
<1>3. /\ toSession' = [toSession EXCEPT ![e] = Append(@, f)]
      /\ sent'[e] = sent[e] + k /\ sent'[p] = sent[p] /\ stream'[p] = stream[p]
      /\ UNCHANGED <<handle, sinkClosed, toStream, sysq, wire, shrunk, recvd, rd>>
      /\ stream[e].st = "open"
  BY <1>0 DEF Write, MayWrite, TypeOK
<1>4. stream'[e].window = stream[e].window - k
  BY DEF Write, TypeOK, Streams
<1> HIDE DEF p, k, f
<1>5. Credit(e)' = Credit(e)
  <2>1. W[e] \in Int
    BY Ints
  <2> QED
    BY <1>1, <1>3, <1>4, <2>1 DEF Credit
<1>6. f.off + f.len <= sent'[e] /\ sent[e] <= sent'[e]
  BY <1>1, <1>2, <1>3
<1> QED
  BY <1>2, <1>3, <1>5, <1>6, QueueDataFlow DEF p

LEMMA SinkFailedFlow ==
  ASSUME TypeOK, TypeOK', FlowInv, NEW e \in Ends, stream[e].st = "open", SinkFailed(e)
  PROVE  FlowInv'
<1> DEFINE p == Peer(e)
<1>0. p \in Ends /\ p # e /\ Parts(e, p)
  BY PeerType, Split
<1> HIDE DEF p
<1>1. /\ stream'[p] = stream[p] /\ sinkClosed'[p] = sinkClosed[p] /\ SinkErr(e) /\ sinkClosed'[e]
      /\ UNCHANGED <<handle, toSession, toStream, sysq, wire, shrunk, sent, recvd, rd>>
  BY <1>0 DEF SinkFailed, TypeOK
<1>2. stream'[e].window = stream[e].window
  BY DEF SinkFailed, TypeOK, Streams
<1>3. Untouched(e)' /\ Untouched(p)'
  <2>1. handle[e].st # "none"
    BY <1>0 DEF Parts, Untouched, NewStream
  <2> QED
    BY <1>0, <1>1, <2>1, UntouchedSame DEF Parts, Untouched
<1>4. ResetIsFinal(e)' /\ ResetIsFinal(p)'
  <2>1. ResetIsFinal(p)'
    BY <1>0, <1>1, ResetSame DEF Parts
  <2>2. ResetIsFinal(e)'
    BY <1>0, <1>1 DEF Parts, ResetIsFinal, SinkErr
  <2> QED
    BY <2>1, <2>2
<1>5. /\ Granted(e)' = Granted(e) /\ Granted(p)' = Granted(p)
      /\ Credit(e)' = Credit(e) /\ Credit(p)' = Credit(p)
  BY <1>1, <1>2 DEF Granted, Credit
<1>6. Queued(e)' /\ Queued(p)'
  BY <1>0, <1>1, <1>5, QueuedSame DEF Parts, SinkErr
<1>7. Announced(e, p)' /\ Announced(p, e)'
  BY <1>0, <1>1, <1>5, AnnouncedSame DEF Parts
<1>8. Outstanding(e, p)' /\ Outstanding(p, e)'
  BY <1>0, <1>1, OutstandingSame DEF Parts
<1> QED
  BY <1>3, <1>4, <1>6, <1>7, <1>8, SplitPrime DEF Parts, p

LEMMA ShutdownFlow ==
  ASSUME TypeOK, TypeOK', FlowInv, NEW e \in Ends, Shutdown(e)
  PROVE  FlowInv'
<1>0. Peer(e) \in Ends /\ Peer(e) # e /\ stream[e].st = "open"
  BY PeerType DEF Shutdown
<1>1. CASE SinkFailed(e)
  BY <1>0, <1>1, SinkFailedFlow
<1>2. CASE ~SinkFailed(e)
  <2> DEFINE f == Fin(sent[e])
  <2>1. /\ toSession' = [toSession EXCEPT ![e] = Append(@, f)]
        /\ stream' = [stream EXCEPT ![e].writeClosed = TRUE]
        /\ UNCHANGED <<handle, sinkClosed, toStream, sysq, wire, shrunk, sent, recvd, rd>>
    BY <1>2 DEF Shutdown
  <2>2. sent[e] \in Nat
    BY Ints
  <2>3. f \in Frames /\ f.typ = "data" /\ f.off = sent[e] /\ f.len = 0
    BY <2>2, FinType DEF Fin, Frame
  <2>4. stream'[Peer(e)] = stream[Peer(e)] /\ stream'[e].window = stream[e].window
    BY <1>0, <2>1 DEF TypeOK, Streams
  <2> HIDE DEF f
  <2>5. Credit(e)' = Credit(e)
    BY <2>1, <2>4 DEF Credit
  <2>6. f.off + f.len <= sent'[e] /\ sent[e] <= sent'[e]
    BY <2>1, <2>2, <2>3
  <2> QED
    BY <1>0, <2>1, <2>3, <2>4, <2>5, <2>6, QueueDataFlow
<1> QED
  BY <1>1, <1>2

LEMMA DropFlow ==
  ASSUME TypeOK, TypeOK', FlowInv, NEW e \in Ends, DropStream(e)
  PROVE  FlowInv'
<1> DEFINE p == Peer(e)
<1>0. p \in Ends /\ p # e /\ Parts(e, p)
  BY PeerType, Split
<1> HIDE DEF p
<1>1. /\ stream'[p] = stream[p] /\ toStream'[p] = toStream[p] /\ toStream'[e] = <<>>
      /\ stream[e].st = "open"
      /\ UNCHANGED <<handle, sinkClosed, toSession, sysq, wire, shrunk, sent, recvd, rd>>
  BY <1>0 DEF DropStream, TypeOK
<1>2. stream'[e].window = stream[e].window
  BY DEF DropStream, TypeOK, Streams
<1>3. Untouched(e)' /\ Untouched(p)'
  <2>1. handle[e].st # "none"
    BY <1>0, <1>1 DEF Parts, Untouched, NewStream
  <2> QED
    BY <1>0, <1>1, <2>1, UntouchedSame DEF Parts, Untouched
<1>4. ResetIsFinal(e)' /\ ResetIsFinal(p)'
  BY <1>0, <1>1, ResetSame DEF Parts
<1>5. /\ Granted(e)' = Granted(e) /\ Granted(p)' = Granted(p)
      /\ Credit(e)' = Credit(e) /\ Credit(p)' = Credit(p)
  BY <1>1, <1>2 DEF Granted, Credit
<1>6. Queued(e)' /\ Queued(p)'
  BY <1>0, <1>1, <1>5, QueuedSame DEF Parts, SinkErr
<1>7. Announced(e, p)' /\ Announced(p, e)'
  <2>1. Announced(p, e)'
    BY <1>0, <1>1, <1>5, AnnouncedSame DEF Parts
  <2>2. Announced(e, p)'
    BY <1>0, <1>1, <1>5 DEF Parts, Announced, Within, Ordered, Before
  <2> QED
    BY <2>1, <2>2
<1>8. Outstanding(e, p)' /\ Outstanding(p, e)'
  BY <1>0, <1>1, OutstandingSame DEF Parts
<1> QED
  BY <1>3, <1>4, <1>6, <1>7, <1>8, SplitPrime DEF Parts, p

----------------------------------------------------------------------------
(* The writer task's steps.                                                *)

\* A frame that is neither data nor a WNDINC, or a final FIN, goes to the wire.
LEMMA AnnouncedOther ==
  ASSUME TypeOK, NEW x \in Ends, NEW y \in Ends, NEW f \in Frames, Announced(x, y),
         f.typ # "wndinc", Credit(x)' = Credit(x), Granted(y)' = Granted(y),
         wire'[y] = Append(wire[y], f), toStream'[x] = toStream[x]
  PROVE  Announced(x, y)'
<1> DEFINE q == wire[y]
           r == toStream[x]
<1>0. q \in Seq(Frames) /\ r \in Seq(Frames) /\ Credit(x) \in Int /\ Granted(y) \in Int
  BY Ints
<1>1. /\ Credit(x) <= Granted(y)
      /\ Within(q, "wndinc", Credit(x), Granted(y)) /\ Ordered(q, "wndinc")
      /\ Within(r, "wndinc", Credit(x), Granted(y)) /\ Ordered(r, "wndinc")
      /\ Before(r, q, "wndinc")
  BY DEF Announced
<1>2. wire'[y] = Append(q, f) /\ toStream'[x] = r
  OBVIOUS
<1> HIDE DEF q, r
<1>3. Within(Append(q, f), "wndinc", Credit(x), Granted(y)) /\ Ordered(Append(q, f), "wndinc")
      /\ Before(r, Append(q, f), "wndinc")
  BY <1>0, <1>1, WithinAppend, OrderedAppend, BeforeAppendRight
<1> QED
  BY <1>1, <1>2, <1>3 DEF Announced, Within, Ordered, Before

\* A frame is put on the wire while nothing is queued, or one that is no data.
LEMMA OutstandingSent ==
  ASSUME TypeOK, NEW x \in Ends, NEW y \in Ends, NEW f \in Frames, Outstanding(x, y),
         \/ f.typ # "data"
         \/ f.off = sent[x] /\ f.len = 0 /\ toSession[x] = <<>>,
         wire'[x] = Append(wire[x], f), toSession'[x] = toSession[x],
         sent'[x] = sent[x], recvd'[y] = recvd[y], shrunk'[y] = shrunk[y]
  PROVE  Outstanding(x, y)'
<1> DEFINE q == wire[x]
           s == Append(q, f)
<1>0. /\ q \in Seq(Frames) /\ toSession[x] \in Seq(Frames) /\ sent[x] \in Int
      /\ recvd[y] \in Int /\ sent[x] \in Nat /\ 0 \in Int
  BY Ints
<1>1. /\ Within(q, "data", 0, sent[x]) /\ Ordered(q, "data")
      /\ Within(toSession[x], "data", recvd[y], sent[x]) /\ Ordered(toSession[x], "data")
      /\ Before(q, toSession[x], "data") /\ recvd[y] <= sent[x]
      /\ \A i \in DOMAIN q : q[i].typ = "data" =>
           recvd[y] <= q[i].off + (IF shrunk[y] /\ i = 1 THEN q[i].len ELSE 0)
      /\ shrunk[y] => q # <<>> /\ q[1].typ = "data"
  BY DEF Outstanding
<1>2. wire'[x] = s
  OBVIOUS
<1>3. f.typ = "data" => sent[x] <= f.off /\ f.off + f.len <= sent[x] /\ 0 <= f.off
                        /\ recvd[y] <= f.off /\ f.len = 0
  BY <1>0, <1>1, FrameNat
<1>4. /\ DOMAIN s = 1..(Len(q) + 1) /\ DOMAIN q = 1..Len(q) /\ Len(q) \in Nat
      /\ \A i \in DOMAIN q : s[i] = q[i]
      /\ s[Len(q) + 1] = f
      /\ q # <<>> => 1 \in DOMAIN q
      /\ s # <<>>
  <2> HIDE DEF q
  <2>1. /\ DOMAIN s = 1..(Len(q) + 1) /\ DOMAIN q = 1..Len(q) /\ Len(q) \in Nat
        /\ \A i \in DOMAIN q : s[i] = q[i]
        /\ s[Len(q) + 1] = f
    BY <1>0, AppendAt DEF s
  <2>2. q # <<>> => 1 \in DOMAIN q
    BY <1>0
  <2>3. s # <<>>
    BY <1>0, SMTT(30) DEF s
  <2> QED
    BY <2>1, <2>2, <2>3
<1>5. Within(s, "data", 0, sent[x]) /\ Ordered(s, "data")
  <2> HIDE DEF q
  <2> QED BY <1>0, <1>1, <1>3, WithinAppend, OrderedAppend DEF s
<1> HIDE DEF q, s
<1>6. Before(s, toSession[x], "data")
  <2>1. CASE f.typ # "data"
    BY <1>1, <1>4, <2>1 DEF Before
  <2>2. CASE toSession[x] = <<>>
    BY <2>2 DEF Before
  <2> QED
    BY <2>1, <2>2
<1>7. \A i \in DOMAIN s : s[i].typ = "data" =>
        recvd[y] <= s[i].off + (IF shrunk[y] /\ i = 1 THEN s[i].len ELSE 0)
  <2> SUFFICES ASSUME NEW i \in DOMAIN s, s[i].typ = "data"
               PROVE  recvd[y] <= s[i].off + (IF shrunk[y] /\ i = 1 THEN s[i].len ELSE 0)
    OBVIOUS
  <2>1. CASE i \in DOMAIN q
    BY <1>1, <1>4, <2>1
  <2>2. CASE i = Len(q) + 1
    <3>1. s[i] = f
      BY <1>4, <2>2
    <3> QED
      BY <1>0, <1>3, <3>1, FrameNat
  <2> QED
    BY <1>4, <2>1, <2>2
<1>8. shrunk[y] => s # <<>> /\ s[1].typ = "data"
  BY <1>1, <1>4
<1> QED
  BY <1>1, <1>2, <1>5, <1>6, <1>7, <1>8 DEF Outstanding, Within, Ordered, Before

LEMMA SendSysFlow ==
  ASSUME TypeOK, TypeOK', FlowInv, NEW e \in Ends, SendSys(e)
  PROVE  FlowInv'
<1> DEFINE p == Peer(e)
           f == Head(sysq[e])
<1>0. p \in Ends /\ p # e /\ Parts(e, p)
  BY PeerType, Split
<1>1. /\ wire'[e] = Append(wire[e], f) /\ wire'[p] = wire[p]
      /\ sysq'[p] = sysq[p] /\ sysq'[e] = Tail(sysq[e])
      /\ UNCHANGED <<stream, handle, sinkClosed, toSession, toStream, shrunk, sent, recvd, rd>>
  BY <1>0 DEF SendSys, Transmit, TypeOK
<1>2. f \in Frames /\ f.typ = "rst" /\ \A i \in DOMAIN Tail(sysq[e]) : Tail(sysq[e])[i].typ = "rst"
  <2>1. sysq[e] \in Seq(Frames) /\ sysq[e] # <<>>
    BY Ints DEF SendSys
  <2>2. \A i \in DOMAIN sysq[e] : sysq[e][i].typ = "rst"
    BY <1>0 DEF Parts, ResetIsFinal
  <2> QED
    BY <2>1, <2>2, TailAt
<1> HIDE DEF p, f
<1>3. Untouched(e)' /\ Untouched(p)'
  BY <1>0, <1>1, UntouchedSame DEF Parts
<1>4. ResetIsFinal(e)' /\ ResetIsFinal(p)'
  <2>1. ResetIsFinal(p)'
    BY <1>0, <1>1, ResetSame DEF Parts
  <2>2. ResetIsFinal(e)'
    BY <1>0, <1>1, <1>2 DEF Parts, ResetIsFinal
  <2> QED
    BY <2>1, <2>2
<1>5. /\ Granted(e)' = Granted(e) /\ Granted(p)' = Granted(p)
      /\ Credit(e)' = Credit(e) /\ Credit(p)' = Credit(p)
  BY <1>1 DEF Granted, Credit
<1>6. Queued(e)' /\ Queued(p)'
  BY <1>0, <1>1, <1>5, QueuedSame DEF Parts, SinkErr
<1>7. Announced(e, p)'
  BY <1>0, <1>1, <1>5, AnnouncedSame DEF Parts
<1>8. Announced(p, e)'
  BY <1>0, <1>1, <1>2, <1>5, AnnouncedOther DEF Parts
<1>9. Outstanding(p, e)'
  BY <1>0, <1>1, OutstandingSame DEF Parts
<1>10. Outstanding(e, p)'
  BY <1>0, <1>1, <1>2, OutstandingSent DEF Parts
<1> QED
  BY <1>3, <1>4, <1>6, <1>7, <1>8, <1>9, <1>10, SplitPrime DEF Parts, p

LEMMA RemoveResetFlow ==
  ASSUME TypeOK, TypeOK', FlowInv, NEW e \in Ends, RemoveReset(e)
  PROVE  FlowInv'
<1> DEFINE p == Peer(e)
<1>0. p \in Ends /\ p # e /\ Parts(e, p)
  BY PeerType, Split
<1> HIDE DEF p
<1>1. /\ handle'[p] = handle[p] /\ toSession'[p] = toSession[p] /\ toSession'[e] = <<>>
      /\ UNCHANGED <<stream, sinkClosed, toStream, sysq, wire, shrunk, sent, recvd, rd>>
  BY <1>0 DEF RemoveReset, TypeOK
<1>2. handle'[e].st = "removed" /\ handle'[e].window = handle[e].window
  BY DEF RemoveReset, TypeOK, Handles
<1>3. Untouched(e)' /\ Untouched(p)'
  <2>1. Untouched(p)'
    BY <1>0, <1>1, UntouchedSame DEF Parts
  <2>2. Untouched(e)'
    BY <1>2 DEF Untouched
  <2> QED
    BY <2>1, <2>2
<1>4. ResetIsFinal(e)' /\ ResetIsFinal(p)'
  <2>1. ResetIsFinal(p)'
    BY <1>0, <1>1, ResetSame DEF Parts
  <2>2. ResetIsFinal(e)'
    BY <1>0, <1>1, <1>2 DEF Parts, ResetIsFinal
  <2> QED
    BY <2>1, <2>2
<1>5. /\ Granted(e)' = Granted(e) /\ Granted(p)' = Granted(p)
      /\ Credit(e)' = Credit(e) /\ Credit(p)' = Credit(p)
  BY <1>1, <1>2 DEF Granted, Credit
<1>6. Queued(e)' /\ Queued(p)'
  <2>1. Queued(p)'
    BY <1>0, <1>1, <1>5, QueuedSame DEF Parts, SinkErr
  <2>2. Queued(e)'
    BY <1>0, <1>1, <1>2, <1>5 DEF Parts, Queued, SinkErr, Within, Ordered
  <2> QED
    BY <2>1, <2>2
<1>7. Announced(e, p)' /\ Announced(p, e)'
  BY <1>0, <1>1, <1>5, AnnouncedSame DEF Parts
<1>8. Outstanding(e, p)' /\ Outstanding(p, e)'
  <2>1. Outstanding(p, e)'
    BY <1>0, <1>1, OutstandingSame DEF Parts
  <2>2. Outstanding(e, p)'
    BY <1>0, <1>1 DEF Parts, Outstanding, Within, Ordered, Before
  <2> QED
    BY <2>1, <2>2
<1> QED
  BY <1>3, <1>4, <1>6, <1>7, <1>8, SplitPrime DEF Parts, p

LEMMA RemoveDroppedFlow ==
  ASSUME TypeOK, TypeOK', FlowInv, NEW e \in Ends, RemoveDropped(e)
  PROVE  FlowInv'
<1> DEFINE p == Peer(e)
           f == Fin(sent[e])
<1>0. p \in Ends /\ p # e /\ Parts(e, p)
  BY PeerType, Split
<1>f. f \in Frames /\ f.typ = "data" /\ f.off = sent[e] /\ f.len = 0
  BY Ints, FinType DEF Fin, Frame
<1>1. /\ handle'[p] = handle[p] /\ wire'[p] = wire[p] /\ toSession[e] = <<>>
      /\ wire'[e] = wire[e] \/ wire'[e] = Append(wire[e], f)
      /\ UNCHANGED <<stream, sinkClosed, toSession, toStream, sysq, shrunk, sent, recvd, rd>>
  BY <1>0, SMTT(30) DEF RemoveDropped, Transmit, TypeOK
<1> HIDE DEF p, f
<1>2. handle'[e].st = "removed" /\ handle'[e].window = handle[e].window
  BY DEF RemoveDropped, TypeOK, Handles
<1>3. Untouched(e)' /\ Untouched(p)'
  <2>1. Untouched(p)'
    BY <1>0, <1>1, UntouchedSame DEF Parts
  <2>2. Untouched(e)'
    BY <1>2 DEF Untouched
  <2> QED
    BY <2>1, <2>2
<1>4. ResetIsFinal(e)' /\ ResetIsFinal(p)'
  <2>1. ResetIsFinal(p)'
    BY <1>0, <1>1, ResetSame DEF Parts
  <2>2. ResetIsFinal(e)'
    BY <1>0, <1>1, <1>2 DEF Parts, ResetIsFinal
  <2> QED
    BY <2>1, <2>2
<1>5. /\ Granted(e)' = Granted(e) /\ Granted(p)' = Granted(p)
      /\ Credit(e)' = Credit(e) /\ Credit(p)' = Credit(p)
  BY <1>1, <1>2 DEF Granted, Credit
<1>6. Queued(e)' /\ Queued(p)'
  <2>1. Queued(p)'
    BY <1>0, <1>1, <1>5, QueuedSame DEF Parts, SinkErr
  <2>2. Queued(e)'
    BY <1>0, <1>1, <1>2, <1>5 DEF Parts, Queued, SinkErr, Within, Ordered
  <2> QED
    BY <2>1, <2>2
<1>7. Announced(e, p)'
  BY <1>0, <1>1, <1>5, AnnouncedSame DEF Parts
<1>8. Announced(p, e)'
  <2>1. CASE wire'[e] = wire[e]
    BY <1>0, <1>1, <1>5, <2>1, AnnouncedSame DEF Parts
  <2>2. CASE wire'[e] = Append(wire[e], f)
    BY <1>0, <1>1, <1>5, <1>f, <2>2, AnnouncedOther DEF Parts
  <2> QED
    BY <1>1, <2>1, <2>2
<1>9. Outstanding(p, e)'
  BY <1>0, <1>1, OutstandingSame DEF Parts
<1>10. Outstanding(e, p)'
  <2>1. CASE wire'[e] = wire[e]
    BY <1>0, <1>1, <2>1, OutstandingSame DEF Parts
  <2>2. CASE wire'[e] = Append(wire[e], f)
    BY <1>0, <1>1, <1>f, <2>2, OutstandingSent DEF Parts
  <2> QED
    BY <1>1, <2>1, <2>2
<1> QED
  BY <1>3, <1>4, <1>6, <1>7, <1>8, <1>9, <1>10, SplitPrime DEF Parts, p

LEMMA SendFrameFlow ==
  ASSUME TypeOK, TypeOK', FlowInv, NEW e \in Ends, SendFrame(e)
  PROVE  FlowInv'
<1> DEFINE p == Peer(e)
           q == toSession[e]
           f == Head(q)
<1>0. p \in Ends /\ p # e /\ Parts(e, p)
  BY PeerType, Split
<1>1. /\ handle'[p] = handle[p] /\ wire'[p] = wire[p] /\ toSession'[p] = toSession[p]
      /\ wire'[e] = Append(wire[e], f) /\ toSession'[e] = Tail(q)
      /\ UNCHANGED <<stream, sinkClosed, toStream, sysq, shrunk, sent, recvd, rd>>
      /\ handle[e].st = "live" /\ q # <<>>
  BY <1>0, SMTT(30) DEF SendFrame, TaskReady, Transmit, TypeOK
<1>2. q \in Seq(Frames) /\ wire[e] \in Seq(Frames) /\ handle[e] \in Handles /\ toStream[p] \in Seq(Frames)
  BY <1>0, Ints
<1>3. handle'[e].st = "live" /\ handle'[e].needsFin = (handle[e].needsFin /\ ~f.fin)
  BY <1>1, <1>2, Zenon DEF SendFrame, TypeOK, Handles
<1>4. handle'[e].window = IF f.typ = "wndinc" THEN handle[e].window + f.len ELSE handle[e].window
  BY <1>2 DEF SendFrame, TypeOK, Handles
<1> HIDE DEF p, q
<1>5. /\ f \in Frames /\ f.off \in Nat /\ f.len \in Nat /\ Tail(q) \in Seq(Frames)
      /\ f = q[1] /\ 1 \in DOMAIN q
  BY <1>1, <1>2, TailAt, FrameNat
<1>n. f.off \in Nat /\ f.len \in Nat
  BY <1>5
<1> HIDE DEF f
<1>6. ~SinkErr(e)
  BY <1>0, <1>1 DEF SendFrame, ResetHere, SinkErr, Parts, ResetIsFinal
<1>7. /\ Granted(e) \in Int /\ Granted(e)' \in Int /\ Granted(p) \in Int
      /\ rd[e] \in Int /\ handle[e].window \in Nat /\ recvd[e] \in Nat /\ W[e] \in Nat
      /\ Credit(p) \in Int /\ sent[e] \in Int /\ recvd[p] \in Int
  <2>1. handle'[e].window \in Nat
    BY DEF TypeOK, Handles
  <2>2. /\ Granted(e) \in Int /\ Granted(p) \in Int /\ Credit(p) \in Int /\ W[e] \in Nat
        /\ handle[e].window \in Nat /\ recvd[e] \in Nat /\ recvd[p] \in Nat
        /\ rd[e] \in Nat /\ sent[e] \in Nat
    BY <1>0, Ints
  <2>3. Granted(e)' = recvd[e] + handle'[e].window - W[e]
    BY <1>1 DEF Granted
  <2> QED
    BY <2>1, <2>2, <2>3
<1>8. Granted(p)' = Granted(p) /\ Credit(e)' = Credit(e) /\ Credit(p)' = Credit(p)
  BY <1>1 DEF Granted, Credit
<1>9. /\ f.typ # "wndinc" => Granted(e)' = Granted(e)
      /\ f.typ = "wndinc" => Granted(e)' = Granted(e) + f.len
  <2>1. /\ Granted(e) = recvd[e] + handle[e].window - W[e]
        /\ Granted(e)' = recvd[e] + handle'[e].window - W[e]
    BY <1>1 DEF Granted
  <2>2. ASSUME f.typ # "wndinc" PROVE Granted(e)' = Granted(e)
    <3>1. handle'[e].window = handle[e].window
      BY <1>4, <2>2
    <3> QED
      BY <2>1, <3>1
  <2>3. ASSUME f.typ = "wndinc" PROVE Granted(e)' = Granted(e) + f.len
    <3>1. handle'[e].window = handle[e].window + f.len
      BY <1>4, <2>3
    <3>2. /\ recvd[e] \in Int /\ handle[e].window \in Int /\ W[e] \in Int
          /\ f.len \in Int
      BY ONLY <1>n, <1>7
    <3>3. recvd[e] + (handle[e].window + f.len) - W[e] = (recvd[e] + handle[e].window - W[e]) + f.len
      BY ONLY <3>2, Shift
    <3> QED
      BY ONLY <2>1, <3>1, <3>3
  <2> QED
    BY <2>2, <2>3
<1>10. Untouched(e)' /\ Untouched(p)'
  <2>1. Untouched(p)'
    BY <1>0, <1>1, UntouchedSame DEF Parts
  <2>2. Untouched(e)'
    BY <1>3 DEF Untouched
  <2> QED
    BY <2>1, <2>2
<1>11. ResetIsFinal(e)' /\ ResetIsFinal(p)'
  <2>1. ResetIsFinal(p)'
    BY <1>0, <1>1, ResetSame DEF Parts
  <2>2. ResetIsFinal(e)'
    BY <1>0, <1>1, <1>6 DEF Parts, ResetIsFinal, SinkErr
  <2> QED
    BY <2>1, <2>2
<1>12. Queued(p)'
  BY <1>0, <1>1, <1>8, QueuedSame DEF Parts, SinkErr
<1>q. /\ Granted(e) <= rd[e] /\ Within(q, "wndinc", Granted(e), rd[e])
      /\ Ordered(q, "wndinc") /\ Linked(q, "wndinc", Granted(e), rd[e])
  BY <1>0, <1>6 DEF Parts, Queued, q
<1>g. f.typ = "wndinc" => /\ f.off = Granted(e)
                          /\ f.off + f.len = Granted(e)'
                          /\ Granted(e)' <= rd[e]
  <2>1. ASSUME f.typ = "wndinc" PROVE f.off = Granted(e) /\ f.off + f.len <= rd[e]
    <3>1. f.off = Granted(e)
      BY <1>1, <1>2, <1>7, <1>q, <2>1, LinkedTail, SMTT(30) DEF f
    <3>2. f.off + f.len <= rd[e]
      BY <1>5, <1>q, <2>1 DEF Within
    <3> QED
      BY <3>1, <3>2
  <2> QED
    BY <1>9, <2>1
<1>13. Queued(e)'
  <2> DEFINE g == Granted(e)'
  <2>1. /\ g <= rd[e] /\ Within(Tail(q), "wndinc", g, rd[e])
        /\ Linked(Tail(q), "wndinc", g, rd[e])
    <3>1. CASE f.typ = "wndinc"
      <4>1. Within(Tail(q), "wndinc", f.off + f.len, rd[e])
        BY <1>1, <1>2, <1>7, <1>q, <3>1, WithinAfterHead DEF f
      <4>2. Linked(Tail(q), "wndinc", Granted(e) + f.len, rd[e])
        BY <1>1, <1>2, <1>7, <1>q, <3>1, LinkedTail DEF f
      <4> QED
        BY <1>9, <1>g, <3>1, <4>1, <4>2
    <3>2. CASE f.typ # "wndinc"
      <4>1. Within(Tail(q), "wndinc", Granted(e), rd[e]) /\ Linked(Tail(q), "wndinc", Granted(e), rd[e])
        BY <1>1, <1>2, <1>7, <1>q, <3>2, WithinTail, LinkedTail DEF f
      <4> QED
        BY <1>9, <1>q, <3>2, <4>1
    <3> QED
      BY <3>1, <3>2
  <2>2. Ordered(Tail(q), "wndinc")
    BY <1>1, <1>2, <1>q, OrderedTail
  <2> QED
    BY <1>1, <2>1, <2>2 DEF Queued, Within, Ordered, Linked
<1>14. Announced(e, p)'
  BY <1>0, <1>1, <1>8, AnnouncedSame DEF Parts
<1>15. Announced(p, e)'
  <2>1. CASE f.typ # "wndinc"
    BY <1>0, <1>1, <1>5, <1>8, <1>9, <2>1, AnnouncedOther DEF Parts
  <2>2. CASE f.typ = "wndinc"
    <3> DEFINE g == Granted(e)'
    <3>0. /\ g \in Int /\ Granted(e) <= g /\ f.off = Granted(e) /\ f.off + f.len = g
      BY <1>5, <1>7, <1>9, <1>g, <2>2
    <3>1. /\ Credit(p) <= Granted(e)
          /\ Within(wire[e], "wndinc", Credit(p), Granted(e)) /\ Ordered(wire[e], "wndinc")
          /\ Within(toStream[p], "wndinc", Credit(p), Granted(e)) /\ Ordered(toStream[p], "wndinc")
          /\ Before(toStream[p], wire[e], "wndinc")
      BY <1>0 DEF Parts, Announced
    <3> HIDE DEF g
    <3>2. Credit(p) <= g /\ Credit(p) <= Credit(p)
      BY <1>7, <3>0, <3>1
    <3>3. Within(wire[e], "wndinc", Credit(p), g) /\ Within(toStream[p], "wndinc", Credit(p), g)
      BY <1>2, <1>7, <3>0, <3>1, <3>2, WithinWeaker, SMTT(30)
    <3>4. Within(Append(wire[e], f), "wndinc", Credit(p), g)
      <4>1. Credit(p) <= f.off /\ f.off + f.len <= g
        BY <1>7, <3>0, <3>1
      <4> QED
        BY <1>2, <1>5, <1>7, <3>0, <3>3, <4>1, WithinAppend
    <3>5. Granted(e) <= f.off
      BY <1>7, <3>0
    <3>6. Ordered(Append(wire[e], f), "wndinc")
      BY <1>2, <1>5, <1>7, <3>1, <3>5, OrderedAppend
    <3>7. Before(toStream[p], Append(wire[e], f), "wndinc")
      BY <1>2, <1>5, <1>7, <3>1, <3>5, BeforeAppendRight
    <3>8. Granted(e)' = g
      BY DEF g
    <3> QED
      BY <1>1, <1>8, <3>1, <3>2, <3>3, <3>4, <3>6, <3>7, <3>8
         DEF Announced, Within, Ordered, Before
  <2> QED
    BY <2>1, <2>2
<1>16. Outstanding(p, e)'
  BY <1>0, <1>1, OutstandingSame DEF Parts
<1>17. Outstanding(e, p)'
  <2> DEFINE w == wire[e]
             s == Append(w, f)
  <2>0. /\ Within(w, "data", 0, sent[e]) /\ Ordered(w, "data")
        /\ Within(q, "data", recvd[p], sent[e]) /\ Ordered(q, "data")
        /\ Before(w, q, "data") /\ recvd[p] <= sent[e]
        /\ \A i \in DOMAIN w : w[i].typ = "data" =>
             recvd[p] <= w[i].off + (IF shrunk[p] /\ i = 1 THEN w[i].len ELSE 0)
        /\ shrunk[p] => w # <<>> /\ w[1].typ = "data"
    BY <1>0 DEF Parts, Outstanding, q
  <2>1. f.typ = "data" => 0 <= f.off /\ recvd[p] <= f.off /\ f.off + f.len <= sent[e]
    BY <1>5, <1>7, <2>0, SMTT(30) DEF Within
  <2>2. /\ s \in Seq(Frames) /\ DOMAIN s = 1..(Len(w) + 1) /\ DOMAIN w = 1..Len(w) /\ Len(w) \in Nat
        /\ (\A i \in DOMAIN w : s[i] = w[i]) /\ s[Len(w) + 1] = f
    BY <1>2, <1>5, AppendAt
  <2>3. w # <<>> => 1 \in DOMAIN w
    BY <1>2
  <2>4. s # <<>>
    <3>1. Len(s) = Len(w) + 1 /\ Len(w) \in Nat
      BY <1>2, <1>5
    <3> HIDE DEF s
    <3> QED
      BY <3>1
  <2>5. Before(s, Tail(q), "data") /\ Ordered(s, "data")
    BY <1>1, <1>2, <2>0, BeforeMove DEF f
  <2>6. Within(s, "data", 0, sent[e])
    BY <1>2, <1>5, <1>7, <2>0, <2>1, WithinAppend
  <2>7. Within(Tail(q), "data", recvd[p], sent[e]) /\ Ordered(Tail(q), "data")
    BY <1>1, <1>2, <1>7, <2>0, WithinTail, OrderedTail
  <2> HIDE DEF w, s
  <2>8. \A i \in DOMAIN s : s[i].typ = "data" =>
          recvd[p] <= s[i].off + (IF shrunk[p] /\ i = 1 THEN s[i].len ELSE 0)
    <3> SUFFICES ASSUME NEW i \in DOMAIN s, s[i].typ = "data"
                 PROVE  recvd[p] <= s[i].off + (IF shrunk[p] /\ i = 1 THEN s[i].len ELSE 0)
      OBVIOUS
    <3>1. CASE i \in DOMAIN w
      BY <2>0, <2>2, <3>1
    <3>2. CASE i = Len(w) + 1
      <4>1. s[i] = f
        BY <2>2, <3>2
      <4> QED
        BY <1>5, <1>7, <2>1, <4>1, SMTT(30)
    <3> QED
      BY <2>2, <3>1, <3>2
  <2>9. shrunk[p] => s # <<>> /\ s[1].typ = "data"
    BY <2>0, <2>2, <2>3, <2>4
  <2>10. wire'[e] = s
    BY <1>1 DEF s, w
  <2> QED
    BY <1>1, <2>0, <2>5, <2>6, <2>7, <2>8, <2>9, <2>10 DEF Outstanding, Within, Ordered, Before
<1> QED
  BY <1>10, <1>11, <1>12, <1>13, <1>14, <1>15, <1>16, <1>17, SplitPrime DEF Parts, p

----------------------------------------------------------------------------
(* The reader task.                                                        *)

\* The frame at the head of the wire from y leaves it: it reaches the stream
\* of x, or nobody.
LEMMA AnnouncedConsumed ==
  ASSUME TypeOK, NEW x \in Ends, NEW y \in Ends, Announced(x, y), wire[y] # <<>>,
         Credit(x)' = Credit(x), Granted(y)' = Granted(y), wire'[y] = Tail(wire[y]),
         toStream'[x] = toStream[x] \/ toStream'[x] = Append(toStream[x], Head(wire[y]))
  PROVE  Announced(x, y)'
<1> DEFINE w == wire[y]
           q == toStream[x]
           f == Head(w)
<1>0. /\ w \in Seq(Frames) /\ q \in Seq(Frames) /\ w # <<>>
      /\ Credit(x) \in Int /\ Granted(y) \in Int
  BY Ints
<1>1. /\ Credit(x) <= Granted(y)
      /\ Within(w, "wndinc", Credit(x), Granted(y)) /\ Ordered(w, "wndinc")
      /\ Within(q, "wndinc", Credit(x), Granted(y)) /\ Ordered(q, "wndinc")
      /\ Before(q, w, "wndinc")
  BY DEF Announced
<1> HIDE DEF w, q
<1>2. /\ Within(Tail(w), "wndinc", Credit(x), Granted(y)) /\ Ordered(Tail(w), "wndinc")
      /\ Before(q, Tail(w), "wndinc")
  BY <1>0, <1>1, WithinTail, OrderedTail, BeforeTails
<1>3. f \in Frames /\ f = w[1] /\ 1 \in DOMAIN w
  BY <1>0, TailAt
<1>4. Before(Append(q, f), Tail(w), "wndinc") /\ Ordered(Append(q, f), "wndinc")
  BY <1>0, <1>1, BeforeMove
<1>5. Within(Append(q, f), "wndinc", Credit(x), Granted(y))
  <2>1. f.typ = "wndinc" => Credit(x) <= f.off /\ f.off + f.len <= Granted(y)
    BY <1>1, <1>3 DEF Within
  <2> HIDE DEF f
  <2> QED
    BY <1>0, <1>1, <1>3, <2>1, WithinAppend
<1>6. wire'[y] = Tail(w) /\ (toStream'[x] = q \/ toStream'[x] = Append(q, f))
  BY DEF w, q
<1> HIDE DEF f
<1>7. CASE toStream'[x] = q
  BY <1>1, <1>2, <1>6, <1>7 DEF Announced, Within, Ordered, Before
<1>8. CASE toStream'[x] = Append(q, f)
  BY <1>1, <1>2, <1>4, <1>5, <1>6, <1>8 DEF Announced, Within, Ordered, Before
<1> QED
  BY <1>6, <1>7, <1>8

\* The same frame, with its bytes counted by the handle of y or by nobody.
LEMMA OutstandingConsumed ==
  ASSUME TypeOK, NEW x \in Ends, NEW y \in Ends, Outstanding(x, y), wire[x] # <<>>,
         sent'[x] = sent[x], toSession'[x] = toSession[x],
         wire'[x] = Tail(wire[x]), ~shrunk'[y],
         \/ recvd'[y] = recvd[y]
         \/ /\ Head(wire[x]).typ = "data" /\ ~shrunk[y]
            /\ recvd'[y] = recvd[y] + Head(wire[x]).len
  PROVE  Outstanding(x, y)'
<1> DEFINE w == wire[x]
           q == toSession[x]
           n == recvd'[y]
<1>0. /\ w \in Seq(Frames) /\ q \in Seq(Frames) /\ w # <<>>
      /\ sent[x] \in Int /\ recvd[y] \in Nat
  BY Ints
<1>1. /\ Within(w, "data", 0, sent[x]) /\ Ordered(w, "data")
      /\ Within(q, "data", recvd[y], sent[x]) /\ Ordered(q, "data")
      /\ Before(w, q, "data") /\ recvd[y] <= sent[x]
      /\ \A i \in DOMAIN w : w[i].typ = "data" =>
           recvd[y] <= w[i].off + (IF shrunk[y] /\ i = 1 THEN w[i].len ELSE 0)
  BY DEF Outstanding
<1>2. /\ Tail(w) \in Seq(Frames) /\ Head(w) = w[1] /\ 1 \in DOMAIN w /\ w[1] \in Frames
      /\ \A i \in DOMAIN Tail(w) : /\ i \in Nat /\ i + 1 \in DOMAIN w /\ i + 1 # 1
                                   /\ Tail(w)[i] = w[i + 1] /\ 1 < i + 1
  <2> HIDE DEF w
  <2> QED BY <1>0, TailAt
<1>3. \/ n = recvd[y]
      \/ w[1].typ = "data" /\ ~shrunk[y] /\ n = recvd[y] + w[1].len
  BY <1>2
<1>4. wire'[x] = Tail(w) /\ toSession'[x] = q /\ recvd'[y] = n
  OBVIOUS
<1> HIDE DEF w, q, n
<1>5. w[1].off \in Nat /\ w[1].len \in Nat
  BY <1>2, FrameNat
<1>6. n \in Nat
  BY <1>0, <1>3, <1>5
<1>7. n = recvd[y] \/ (w[1].typ = "data" /\ n <= w[1].off + w[1].len)
  <2>1. ASSUME w[1].typ = "data", ~shrunk[y] PROVE recvd[y] <= w[1].off
    <3>1. recvd[y] <= w[1].off + 0
      BY <1>1, <1>2, <2>1
    <3> QED
      BY <1>5, <3>1
  <2>2. CASE w[1].typ = "data" /\ ~shrunk[y] /\ n = recvd[y] + w[1].len
    BY <1>0, <1>5, <2>1, <2>2
  <2> QED
    BY <1>3, <2>2
<1>8. n <= sent[x]
  <2>1. w[1].typ = "data" => w[1].off + w[1].len <= sent[x]
    BY <1>1, <1>2 DEF Within
  <2> QED
    BY <1>0, <1>1, <1>5, <1>6, <1>7, <2>1
<1>9. ASSUME NEW i \in DOMAIN Tail(w), Tail(w)[i].typ = "data"
      PROVE  n <= Tail(w)[i].off
  <2>1. Tail(w)[i] = w[i + 1] /\ i + 1 \in DOMAIN w /\ i + 1 # 1 /\ w[i + 1] \in Frames
    BY <1>0, <1>2, <1>9
  <2>2. recvd[y] <= w[i + 1].off
    <3>1. recvd[y] <= w[i + 1].off + 0
      BY <1>1, <1>9, <2>1
    <3> QED
      BY <2>1, <3>1, FrameNat
  <2>3. w[1].typ = "data" => w[1].off + w[1].len <= w[i + 1].off
    BY <1>1, <1>2, <1>9, <2>1 DEF Ordered
  <2>4. w[i + 1].off \in Int /\ n \in Int /\ w[1].off + w[1].len \in Int
    BY <1>5, <1>6, <2>1, FrameNat
  <2>5. n <= w[i + 1].off
    BY ONLY <1>7, <2>2, <2>3, <2>4, Between
  <2> QED
    BY <2>1, <2>5
<1>10. Within(q, "data", n, sent[x])
  <2> SUFFICES ASSUME NEW j \in DOMAIN q, q[j].typ = "data"
               PROVE  n <= q[j].off /\ q[j].off + q[j].len <= sent[x]
    BY DEF Within
  <2>1. recvd[y] <= q[j].off /\ q[j].off + q[j].len <= sent[x] /\ q[j] \in Frames
    BY <1>0, <1>1 DEF Within
  <2>2. w[1].typ = "data" => w[1].off + w[1].len <= q[j].off
    BY <1>1, <1>2 DEF Before
  <2>3. q[j].off \in Int /\ n \in Int /\ w[1].off + w[1].len \in Int
    BY <1>5, <1>6, <2>1, FrameNat
  <2>4. n <= q[j].off
    BY ONLY <1>7, <2>1, <2>2, <2>3, Between
  <2> QED
    BY <2>1, <2>4
<1>11. /\ Within(Tail(w), "data", 0, sent[x]) /\ Ordered(Tail(w), "data")
       /\ Before(Tail(w), q, "data")
  BY <1>0, <1>1, WithinTail, OrderedTail, BeforeTails
<1>12. \A i \in DOMAIN Tail(w) : Tail(w)[i].typ = "data" =>
         n <= Tail(w)[i].off + (IF shrunk'[y] /\ i = 1 THEN Tail(w)[i].len ELSE 0)
  <2> SUFFICES ASSUME NEW i \in DOMAIN Tail(w), Tail(w)[i].typ = "data"
               PROVE  n <= Tail(w)[i].off + 0
    OBVIOUS
  <2>1. Tail(w)[i].off \in Nat /\ n <= Tail(w)[i].off
    BY <1>2, <1>9, FrameNat
  <2> QED
    BY <1>6, <2>1
<1> QED
  BY <1>1, <1>4, <1>8, <1>10, <1>11, <1>12 DEF Outstanding, Within, Ordered, Before

\* The bytes of the head are counted while it stays on the wire.
LEMMA OutstandingStalled ==
  ASSUME TypeOK, NEW x \in Ends, NEW y \in Ends, Outstanding(x, y), wire[x] # <<>>,
         sent'[x] = sent[x], toSession'[x] = toSession[x], wire'[x] = wire[x],
         shrunk'[y], Head(wire[x]).typ = "data", ~shrunk[y],
         recvd'[y] = recvd[y] + Head(wire[x]).len
  PROVE  Outstanding(x, y)'
<1> DEFINE w == wire[x]
           q == toSession[x]
           n == recvd'[y]
           h == w[1].off + w[1].len
<1>0. /\ w \in Seq(Frames) /\ q \in Seq(Frames) /\ w # <<>>
      /\ sent[x] \in Int /\ recvd[y] \in Nat
  BY Ints
<1>1. /\ Within(w, "data", 0, sent[x]) /\ Ordered(w, "data")
      /\ Within(q, "data", recvd[y], sent[x]) /\ Ordered(q, "data")
      /\ Before(w, q, "data")
      /\ \A i \in DOMAIN w : w[i].typ = "data" =>
           recvd[y] <= w[i].off + (IF shrunk[y] /\ i = 1 THEN w[i].len ELSE 0)
  BY DEF Outstanding
<1>2. Head(w) = w[1] /\ 1 \in DOMAIN w /\ w[1] \in Frames /\ DOMAIN w = 1..Len(w)
  <2> HIDE DEF w
  <2> QED BY <1>0, TailAt
<1>3. w[1].typ = "data" /\ n = recvd[y] + w[1].len
  BY <1>2
<1>4. wire'[x] = w /\ toSession'[x] = q /\ recvd'[y] = n
  OBVIOUS
<1> HIDE DEF w, q, n
<1>5. w[1].off \in Nat /\ w[1].len \in Nat
  BY <1>2, FrameNat
<1>6. n \in Int /\ h \in Int /\ n <= h
  <2>1. recvd[y] <= w[1].off + 0
    BY <1>1, <1>2, <1>3
  <2>2. recvd[y] \in Nat
    BY <1>0
  <2>3. n = recvd[y] + w[1].len
    BY <1>3
  <2>4. recvd[y] + w[1].len \in Int /\ h \in Int /\ recvd[y] + w[1].len <= h
    BY <1>5, <2>1, <2>2, Added
  <2> QED
    BY <2>3, <2>4
<1> HIDE DEF h
<1>7. h <= sent[x]
  BY <1>1, <1>2, <1>3 DEF Within, h
<1>8. ASSUME NEW i \in DOMAIN w, w[i].typ = "data"
      PROVE  n <= w[i].off + (IF shrunk'[y] /\ i = 1 THEN w[i].len ELSE 0)
  <2>1. CASE i = 1
    BY <1>6, <2>1 DEF h
  <2>2. CASE i # 1
    <3>1. h <= w[i].off
      BY <1>1, <1>2, <1>3, <1>8, <2>2 DEF Ordered, h
    <3>2. w[i].off \in Int
      BY <1>0, <1>8, FrameNat
    <3>3. n <= w[i].off /\ w[i].off = w[i].off + 0
      BY ONLY <1>6, <3>1, <3>2, Between
    <3> QED
      BY <2>2, <3>3
  <2> QED
    BY <2>1, <2>2
<1>9. Within(q, "data", n, sent[x])
  <2> SUFFICES ASSUME NEW j \in DOMAIN q, q[j].typ = "data"
               PROVE  n <= q[j].off /\ q[j].off + q[j].len <= sent[x]
    BY DEF Within
  <2>1. q[j].off + q[j].len <= sent[x] /\ q[j] \in Frames
    BY <1>0, <1>1 DEF Within
  <2>2. h <= q[j].off
    BY <1>1, <1>2, <1>3 DEF Before, h
  <2>3. q[j].off \in Int
    BY <2>1, FrameNat
  <2> QED
    BY <1>6, <2>1, <2>2, <2>3, Between
<1>10. n <= sent[x]
  BY <1>0, <1>6, <1>7, Between
<1> QED
  BY <1>0, <1>1, <1>3, <1>4, <1>8, <1>9, <1>10 DEF Outstanding, Within, Ordered, Before

\* What the steps that take a frame from the wire have in common.
LEMMA ConsumedFlow ==
  ASSUME TypeOK, TypeOK', FlowInv, NEW e \in Ends, NEW p \in Ends, p = Peer(e),
         wire[p] # <<>>, Consume(e),
         stream' = stream, toSession' = toSession, sent' = sent, rd' = rd,
         handle'[p] = handle[p], sinkClosed'[p] = sinkClosed[p], sysq'[p] = sysq[p],
         toStream'[p] = toStream[p], recvd'[p] = recvd[p],
         toStream'[e] = toStream[e] \/ toStream'[e] = Append(toStream[e], Head(wire[p])),
         Untouched(e)', ResetIsFinal(e)', Granted(e)' = Granted(e),
         SinkErr(e) => SinkErr(e)',
         \/ recvd'[e] = recvd[e]
         \/ /\ Head(wire[p]).typ = "data" /\ ~shrunk[e]
            /\ recvd'[e] = recvd[e] + Head(wire[p]).len
  PROVE  FlowInv'
<1>0. p # e /\ Parts(e, p)
  BY PeerType, Split
<1>1. /\ wire'[p] = Tail(wire[p]) /\ wire'[e] = wire[e]
      /\ shrunk'[p] = shrunk[p] /\ ~shrunk'[e]
  BY <1>0 DEF Consume, TypeOK
<1>2. Credit(e)' = Credit(e) /\ Credit(p)' = Credit(p) /\ Granted(p)' = Granted(p)
  BY DEF Credit, Granted
<1>3. Untouched(p)' /\ ResetIsFinal(p)'
  BY <1>0, UntouchedSame, ResetSame DEF Parts
<1>4. Queued(e)' /\ Queued(p)'
  <2>1. SinkErr(p) => SinkErr(p)'
    BY DEF SinkErr
  <2> QED
    BY <1>0, <1>2, <2>1, QueuedSame DEF Parts
<1>5. Announced(p, e)'
  BY <1>0, <1>1, <1>2, AnnouncedSame DEF Parts
<1>6. Announced(e, p)'
  BY <1>0, <1>1, <1>2, AnnouncedConsumed DEF Parts
<1>7. Outstanding(e, p)'
  BY <1>0, <1>1, OutstandingSame DEF Parts
<1>8. Outstanding(p, e)'
  BY <1>0, <1>1, OutstandingConsumed DEF Parts
<1> QED
  BY <1>3, <1>4, <1>5, <1>6, <1>7, <1>8, SplitPrime DEF Parts

LEMMA ReadSynFlow ==
  ASSUME TypeOK, TypeOK', FlowInv, NEW e \in Ends, ReadSyn(e)
  PROVE  FlowInv'
<1> DEFINE p == Peer(e)
<1>0. p \in Ends /\ p # e /\ Parts(e, p)
  BY PeerType, Split
<1> HIDE DEF p
<1>1. /\ handle'[p] = handle[p] /\ stream'[p] = stream[p]
      /\ handle'[e] = NewHandle(e, "live") /\ stream'[e] = NewStream(e, "open")
      /\ UNCHANGED <<sinkClosed, toSession, toStream, sysq, wire, shrunk, sent, recvd, rd>>
  BY <1>0 DEF ReadSyn, TypeOK
<1>2. handle[e].window = W[e] /\ stream[e].window = W[e] /\ ~sinkClosed[e] /\ handle[e].st = "none"
  BY <1>0 DEF ReadSyn, Parts, Untouched, NewStream
<1>3. handle'[e].window = W[e] /\ stream'[e].window = W[e] /\ handle'[e].st = "live"
  BY <1>1 DEF NewHandle, NewStream
<1>4. Untouched(e)' /\ Untouched(p)'
  BY <1>0, <1>1, <1>3, UntouchedSame DEF Parts, Untouched
<1>5. ResetIsFinal(e)' /\ ResetIsFinal(p)'
  BY <1>0, <1>1, <1>2, ResetSame DEF Parts, ResetIsFinal
<1>6. /\ Credit(e)' = Credit(e) /\ Credit(p)' = Credit(p)
      /\ Granted(e)' = Granted(e) /\ Granted(p)' = Granted(p)
  BY <1>1, <1>2, <1>3 DEF Credit, Granted
<1>7. SinkErr(p) = SinkErr(p)' /\ ~SinkErr(e)
  BY <1>1, <1>2 DEF SinkErr
<1>8. Queued(e)' /\ Queued(p)'
  BY <1>0, <1>1, <1>6, <1>7, QueuedSame DEF Parts
<1>9. Announced(e, p)' /\ Announced(p, e)'
  BY <1>0, <1>1, <1>6, AnnouncedSame DEF Parts
<1>10. Outstanding(e, p)' /\ Outstanding(p, e)'
  BY <1>0, <1>1, OutstandingSame DEF Parts
<1> QED
  BY <1>4, <1>5, <1>8, <1>9, <1>10, SplitPrime DEF Parts, p

LEMMA ReadRstFlow ==
  ASSUME TypeOK, TypeOK', FlowInv, NEW e \in Ends, ReadRst(e)
  PROVE  FlowInv'
<1> DEFINE p == Peer(e)
<1>0. p \in Ends /\ p # e /\ Parts(e, p) /\ p = Peer(e)
  BY PeerType, Split
<1>1. wire[p] # <<>> /\ Consume(e) /\ UNCHANGED <<stream, toSession, toStream, sysq, sent, recvd, rd>>
  BY DEF ReadRst, Reading
<1> HIDE DEF p
<1>2. handle'[p] = handle[p] /\ sinkClosed'[p] = sinkClosed[p]
  BY <1>0, SMTT(30) DEF ReadRst, TypeOK
<1>3. /\ handle'[e].window = handle[e].window /\ handle'[e].st = handle[e].st
      /\ sinkClosed[e] => sinkClosed'[e]
      /\ sinkClosed'[e] /\ handle'[e].st = "live" => ~handle'[e].needsFin
      /\ handle[e].st # "live" => handle'[e] = handle[e] /\ sinkClosed'[e] = sinkClosed[e]
  BY DEF ReadRst, TypeOK, Handles
<1>4. Untouched(e)'
  <2>1. CASE handle[e].st = "none"
    BY <1>0, <1>1, <1>3, <2>1, UntouchedSame DEF Parts
  <2>2. CASE handle[e].st # "none"
    BY <1>3, <2>2 DEF Untouched
  <2> QED
    BY <2>1, <2>2
<1>5. ResetIsFinal(e)'
  BY <1>0, <1>1, <1>3 DEF Parts, ResetIsFinal
<1>6. Granted(e)' = Granted(e) /\ (SinkErr(e) => SinkErr(e)')
  BY <1>1, <1>3 DEF Granted, SinkErr
<1> QED
  BY <1>0, <1>1, <1>2, <1>4, <1>5, <1>6, ConsumedFlow

\* The window gives up what recvd takes in.
LEMMA GrantedCounted ==
  ASSUME TypeOK, NEW e \in Ends, NEW k \in Nat,
         handle'[e].window = handle[e].window - k, recvd'[e] = recvd[e] + k
  PROVE  Granted(e)' = Granted(e)
<1>1. recvd[e] \in Int /\ handle[e].window \in Int /\ W[e] \in Int /\ k \in Int
  BY Ints
<1>2. (recvd[e] + k) + (handle[e].window - k) - W[e] = recvd[e] + handle[e].window - W[e]
  BY ONLY <1>1, Shift
<1> QED
  BY <1>2 DEF Granted

LEMMA CountedFacts ==
  ASSUME TypeOK, NEW e \in Ends, wire[Peer(e)] # <<>>, Counted(e)
  PROVE  /\ handle'[e].window = handle[e].window - ToShrink(e)
         /\ handle'[e].st = handle[e].st /\ handle'[e].needsFin = handle[e].needsFin
         /\ \A x \in Ends : x # e => handle'[x] = handle[x] /\ recvd'[x] = recvd[x]
         /\ recvd'[e] = recvd[e] + ToShrink(e)
<1> DEFINE w == handle[e].window - ToShrink(e)
           d == recvd[e] + ToShrink(e)
           b == handle[e].dataWriteClosed \/ Arriving(e).fin
<1>1. /\ handle' = [handle EXCEPT ![e].window = w, ![e].dataWriteClosed = b]
      /\ recvd' = [recvd EXCEPT ![e] = d]
  BY Zenon DEF Counted
<1> HIDE DEF w, d, b
<1>2. /\ handle'[e].window = w
      /\ handle'[e].st = handle[e].st /\ handle'[e].needsFin = handle[e].needsFin
      /\ \A x \in Ends : x # e => handle'[x] = handle[x] /\ recvd'[x] = recvd[x]
      /\ recvd'[e] = d
  BY <1>1 DEF TypeOK, Handles
<1> QED
  BY <1>2 DEF w, d

\* How the counted bytes relate to the frame at hand.
LEMMA ToShrinkIs ==
  ASSUME TypeOK, NEW e \in Ends, wire[Peer(e)] # <<>>
  PROVE  /\ ToShrink(e) \in Nat
         /\ shrunk[e] => ToShrink(e) = 0
         /\ ~shrunk[e] => ToShrink(e) = Head(wire[Peer(e)]).len
         /\ \A d \in Nat : d = recvd[e] + ToShrink(e) =>
              \/ d = recvd[e]
              \/ ~shrunk[e] /\ d = recvd[e] + Head(wire[Peer(e)]).len
<1>1. Arriving(e).len \in Nat /\ recvd[e] \in Nat
  BY ArrivingType, FrameNat DEF TypeOK
<1> QED
  BY <1>1 DEF ToShrink, Arriving

LEMMA DeliverFlow ==
  ASSUME TypeOK, TypeOK', FlowInv, NEW e \in Ends, Deliver(e)
  PROVE  FlowInv'
<1> DEFINE p == Peer(e)
<1>0. p \in Ends /\ p # e /\ Parts(e, p) /\ p = Peer(e)
  BY PeerType, Split
<1>1. /\ wire[p] # <<>> /\ Consume(e) /\ UNCHANGED <<stream, sinkClosed, toSession, sysq, sent, rd>>
      /\ handle[e].st = "live" /\ Arriving(e) = Head(wire[p])
  BY DEF Deliver, Reading, Admit, Arriving
<1> HIDE DEF p
<1>2. toStream'[e] = Append(toStream[e], Head(wire[p])) /\ toStream'[p] = toStream[p]
  BY <1>0, <1>1 DEF Deliver, TypeOK
<1>3. CASE Arriving(e).typ = "data"
  <2>1. Counted(e)
    BY <1>3 DEF Deliver
  <2>2. /\ handle'[e].window = handle[e].window - ToShrink(e)
        /\ handle'[e].st = handle[e].st /\ handle'[e].needsFin = handle[e].needsFin
        /\ handle'[p] = handle[p] /\ recvd'[p] = recvd[p]
        /\ recvd'[e] = recvd[e] + ToShrink(e) /\ recvd'[e] \in Nat /\ ToShrink(e) \in Nat
    BY <1>0, <1>1, <2>1, CountedFacts, ToShrinkIs DEF TypeOK
  <2>3. Granted(e)' = Granted(e)
    BY <2>2, GrantedCounted
  <2>4. recvd'[e] = recvd[e] \/ (~shrunk[e] /\ recvd'[e] = recvd[e] + Head(wire[p]).len)
    BY <1>0, <1>1, <2>2, ToShrinkIs
  <2>5. Untouched(e)' /\ ResetIsFinal(e)' /\ (SinkErr(e) => SinkErr(e)')
    BY <1>0, <1>1, <2>2 DEF Parts, Untouched, ResetIsFinal, SinkErr
  <2> QED
    BY <1>0, <1>1, <1>2, <1>3, <2>2, <2>3, <2>4, <2>5, ConsumedFlow
<1>4. CASE Arriving(e).typ # "data"
  <2>1. handle' = handle /\ recvd' = recvd
    BY <1>4 DEF Deliver
  <2>2. Granted(e)' = Granted(e)
    BY <2>1 DEF Granted
  <2>3. Untouched(e)' /\ ResetIsFinal(e)' /\ (SinkErr(e) => SinkErr(e)')
    BY <1>0, <1>1, <2>1 DEF Parts, Untouched, ResetIsFinal, SinkErr
  <2> QED
    BY <1>0, <1>1, <1>2, <2>1, <2>2, <2>3, ConsumedFlow
<1> QED
  BY <1>3, <1>4

LEMMA StallFlow ==
  ASSUME TypeOK, TypeOK', FlowInv, NEW e \in Ends, Stall(e)
  PROVE  FlowInv'
<1> DEFINE p == Peer(e)
           w == handle[e].window - ToShrink(e)
<1>0. p \in Ends /\ p # e /\ Parts(e, p) /\ p = Peer(e)
  BY PeerType, Split
<1>1. /\ UNCHANGED <<stream, sinkClosed, toSession, toStream, sysq, wire, sent, rd>>
      /\ wire[p] # <<>> /\ Head(wire[p]).typ = "data" /\ ~shrunk[e] /\ handle[e].st = "live"
  BY DEF Stall, Reading, Admit, Arriving
<1>2. ToShrink(e) \in Nat /\ ToShrink(e) = Head(wire[p]).len
  BY <1>1, ToShrinkIs
<1> HIDE DEF p, w
<1>3. handle' = [handle EXCEPT ![e].window = w]
  BY DEF Stall, w
<1>4. /\ handle'[p] = handle[p] /\ handle'[e].window = w
      /\ handle'[e].st = "live" /\ handle'[e].needsFin = handle[e].needsFin
  BY <1>0, <1>1, <1>3 DEF TypeOK, Handles
<1>5. /\ recvd'[p] = recvd[p] /\ recvd'[e] = recvd[e] + ToShrink(e)
      /\ shrunk'[p] = shrunk[p] /\ shrunk'[e]
  BY <1>0 DEF Stall, TypeOK
<1>6. Credit(e)' = Credit(e) /\ Credit(p)' = Credit(p) /\ Granted(p)' = Granted(p)
  BY <1>1, <1>4, <1>5 DEF Credit, Granted
<1>7. Granted(e)' = Granted(e)
  BY <1>2, <1>4, <1>5, GrantedCounted DEF w
<1>8. Untouched(e)' /\ Untouched(p)'
  BY <1>0, <1>1, <1>4, UntouchedSame DEF Parts, Untouched
<1>9. ResetIsFinal(e)' /\ ResetIsFinal(p)'
  BY <1>0, <1>1, <1>4, ResetSame DEF Parts, ResetIsFinal
<1>10. Queued(e)' /\ Queued(p)'
  <2>1. (SinkErr(e) => SinkErr(e)') /\ (SinkErr(p) => SinkErr(p)')
    BY <1>1, <1>4 DEF SinkErr
  <2> QED
    BY <1>0, <1>1, <1>6, <1>7, <2>1, QueuedSame DEF Parts
<1>11. Announced(e, p)' /\ Announced(p, e)'
  BY <1>0, <1>1, <1>6, <1>7, AnnouncedSame DEF Parts
<1>12. Outstanding(e, p)'
  BY <1>0, <1>1, <1>5, OutstandingSame DEF Parts
<1>13. Outstanding(p, e)'
  BY <1>0, <1>1, <1>2, <1>5, OutstandingStalled DEF Parts
<1> QED
  BY <1>8, <1>9, <1>10, <1>11, <1>12, <1>13, SplitPrime DEF Parts, p

LEMMA IgnoreFlow ==
  ASSUME TypeOK, TypeOK', FlowInv, NEW e \in Ends, Ignore(e)
  PROVE  FlowInv'
<1> DEFINE p == Peer(e)
           b == handle[e].dataWriteClosed \/ (Arriving(e).fin /\ handle[e].st = "live")
<1>0. p \in Ends /\ p # e /\ Parts(e, p) /\ p = Peer(e)
  BY PeerType, Split
<1>1. /\ wire[p] # <<>> /\ Consume(e)
      /\ UNCHANGED <<stream, sinkClosed, toSession, toStream, sysq, sent, recvd, rd>>
  BY DEF Ignore, Reading
<1>2. handle' = [handle EXCEPT ![e].dataWriteClosed = b]
  BY Zenon DEF Ignore
<1> HIDE DEF p, b
<1>3. /\ handle'[p] = handle[p] /\ handle'[e].window = handle[e].window
      /\ handle'[e].st = handle[e].st /\ handle'[e].needsFin = handle[e].needsFin
  BY <1>0, <1>2 DEF TypeOK, Handles
<1>4. Granted(e)' = Granted(e)
  BY <1>1, <1>3 DEF Granted
<1>5. Untouched(e)' /\ ResetIsFinal(e)' /\ (SinkErr(e) => SinkErr(e)')
  <2>1. Untouched(e)'
    BY <1>0, <1>1, <1>3 DEF Parts, Untouched, NewStream
  <2>2. ResetIsFinal(e)' /\ (SinkErr(e) => SinkErr(e)')
    BY <1>0, <1>1, <1>3 DEF Parts, ResetIsFinal, SinkErr
  <2> QED
    BY <2>1, <2>2
<1> QED
  BY <1>0, <1>1, <1>3, <1>4, <1>5, ConsumedFlow

LEMMA RefuseFacts ==
  ASSUME TypeOK, NEW e \in Ends, NEW p \in Ends, p = Peer(e), p # e,
         NEW err \in {"StreamClosed", "FlowControl"}, Refuse(e, err), FlowInv
  PROVE  /\ wire[p] # <<>> /\ Consume(e) /\ Arriving(e) = Head(wire[p])
         /\ Head(wire[p]).typ = "data"
         /\ UNCHANGED <<stream, toSession, toStream, sent, rd>>
         /\ sysq'[p] = sysq[p] /\ \A i \in DOMAIN sysq'[e] : sysq'[e][i].typ = "rst"
<1>1. /\ wire[p] # <<>> /\ Consume(e) /\ Arriving(e) = Head(wire[p])
      /\ Head(wire[p]).typ = "data"
      /\ UNCHANGED <<stream, toSession, toStream, sent, rd>>
  BY DEF Refuse, Reading, Arriving
<1>2. sysq'[p] = sysq[p] /\ sysq'[e] = Append(sysq[e], Rst(err))
  BY DEF Refuse, TypeOK
<1>3. \A i \in DOMAIN sysq[e] : sysq[e][i].typ = "rst"
  BY DEF FlowInv, ResetIsFinal
<1>4. Rst(err) \in Frames /\ Rst(err).typ = "rst" /\ sysq[e] \in Seq(Frames)
  BY RstType, Ints DEF Rst, Frame
<1>5. \A i \in DOMAIN sysq'[e] : sysq'[e][i].typ = "rst"
  BY <1>2, <1>3, <1>4, AppendAt
<1> QED
  BY <1>1, <1>2, <1>5

LEMMA RefuseUnknownFlow ==
  ASSUME TypeOK, TypeOK', FlowInv, NEW e \in Ends, RefuseUnknown(e)
  PROVE  FlowInv'
<1> DEFINE p == Peer(e)
<1>0. p \in Ends /\ p # e /\ Parts(e, p) /\ p = Peer(e)
  BY PeerType, Split
<1> HIDE DEF p
<1>1. /\ wire[p] # <<>> /\ Consume(e)
      /\ UNCHANGED <<stream, toSession, toStream, sent, rd>>
      /\ sysq'[p] = sysq[p] /\ \A i \in DOMAIN sysq'[e] : sysq'[e][i].typ = "rst"
  BY <1>0, RefuseFacts DEF RefuseUnknown
<1>2. UNCHANGED <<handle, sinkClosed, recvd>>
  BY DEF RefuseUnknown
<1>3. Granted(e)' = Granted(e) /\ (SinkErr(e) => SinkErr(e)')
  BY <1>2 DEF Granted, SinkErr
<1>4. Untouched(e)'
  BY <1>0, <1>1, <1>2, UntouchedSame DEF Parts
<1>5. ResetIsFinal(e)'
  BY <1>0, <1>1, <1>2 DEF Parts, ResetIsFinal
<1> QED
  BY <1>0, <1>1, <1>2, <1>3, <1>4, <1>5, ConsumedFlow

\* Refusing data of a live stream closes its writers.
LEMMA RefusedFlow ==
  ASSUME TypeOK, TypeOK', FlowInv, NEW e \in Ends, handle[e].st = "live",
         NEW err \in {"StreamClosed", "FlowControl"}, Refuse(e, err),
         NEW k \in Nat, CloseWriters(e, handle[e].window - k),
         recvd' = [recvd EXCEPT ![e] = @ + k], k = 0 \/ k = ToShrink(e)
  PROVE  FlowInv'
<1> DEFINE p == Peer(e)
           w == handle[e].window - k
<1>0. p \in Ends /\ p # e /\ Parts(e, p) /\ p = Peer(e)
  BY PeerType, Split
<1>1. /\ wire[p] # <<>> /\ Consume(e) /\ Head(wire[p]).typ = "data"
      /\ UNCHANGED <<stream, toSession, toStream, sent, rd>>
      /\ sysq'[p] = sysq[p] /\ \A i \in DOMAIN sysq'[e] : sysq'[e][i].typ = "rst"
  BY <1>0, RefuseFacts
<1>2. handle' = [handle EXCEPT ![e].dataWriteClosed = TRUE, ![e].needsFin = FALSE,
                               ![e].window = w]
  BY DEF CloseWriters
<1> HIDE DEF p, w
<1>3. /\ handle'[p] = handle[p] /\ handle'[e].window = w
      /\ handle'[e].st = "live" /\ ~handle'[e].needsFin
  BY <1>0, <1>2 DEF TypeOK, Handles
<1>4. sinkClosed'[p] = sinkClosed[p] /\ sinkClosed'[e]
  BY <1>0 DEF CloseWriters, TypeOK
<1>5. recvd'[p] = recvd[p] /\ recvd'[e] = recvd[e] + k /\ recvd'[e] \in Nat /\ recvd[e] \in Nat
  BY <1>0 DEF TypeOK
<1>6. Granted(e)' = Granted(e)
  BY <1>3, <1>5, GrantedCounted DEF w
<1>7. recvd'[e] = recvd[e] \/ (~shrunk[e] /\ recvd'[e] = recvd[e] + Head(wire[p]).len)
  <2>1. CASE k = 0
    BY <1>5, <2>1
  <2>2. CASE k = ToShrink(e)
    BY <1>0, <1>1, <1>5, <2>2, ToShrinkIs
  <2> QED
    BY <2>1, <2>2
<1>8. Untouched(e)' /\ ResetIsFinal(e)' /\ (SinkErr(e) => SinkErr(e)')
  BY <1>1, <1>3, <1>4 DEF Untouched, ResetIsFinal, SinkErr
<1> QED
  BY <1>0, <1>1, <1>3, <1>4, <1>5, <1>6, <1>7, <1>8, ConsumedFlow

LEMMA ReaderFlow ==
  ASSUME TypeOK, TypeOK', FlowInv, NEW e \in Ends, ReaderTask(e)
  PROVE  FlowInv'
<1>0. /\ handle[e].window \in Nat /\ handle[e].window - 0 = handle[e].window
      /\ recvd \in [Ends -> Nat] /\ \A n \in Nat : n + 0 = n
  <2>1. handle[e].window \in Nat /\ recvd \in [Ends -> Nat]
    BY Ints DEF TypeOK
  <2> QED
    BY <2>1
<1>1. CASE ReadSyn(e) \/ ReadRst(e) \/ Deliver(e) \/ Stall(e) \/ Ignore(e) \/ RefuseUnknown(e)
  BY <1>1, ReadSynFlow, ReadRstFlow, DeliverFlow, StallFlow, IgnoreFlow, RefuseUnknownFlow
<1>2. ASSUME UNCHANGED recvd PROVE recvd' = [recvd EXCEPT ![e] = @ + 0]
  BY <1>0, <1>2
<1>3. CASE RefuseClosed(e)
  <2>1. handle[e].st = "live" /\ Refuse(e, "StreamClosed")
    BY <1>3 DEF RefuseClosed
  <2>2. CASE CloseWriters(e, handle[e].window) /\ UNCHANGED recvd
    BY <1>0, <1>2, <2>1, <2>2, RefusedFlow
  <2>3. CASE /\ CloseWriters(e, handle[e].window - ToShrink(e))
             /\ recvd' = [recvd EXCEPT ![e] = @ + ToShrink(e)]
    <3>1. ToShrink(e) \in Nat
      BY <2>1, ArrivingType DEF Refuse, Reading
    <3> QED
      BY <2>1, <2>3, <3>1, RefusedFlow
  <2> QED
    BY <1>3, <2>2, <2>3 DEF RefuseClosed
<1>4. CASE RefuseFlow(e)
  <2>1. /\ handle[e].st = "live" /\ Refuse(e, "FlowControl")
        /\ CloseWriters(e, handle[e].window) /\ UNCHANGED recvd
    BY <1>4 DEF RefuseFlow
  <2> QED
    BY <1>0, <1>2, <2>1, RefusedFlow
<1> QED
  BY <1>1, <1>3, <1>4 DEF ReaderTask

----------------------------------------------------------------------------
LEMMA NextFlow == TypeOK /\ TypeOK' /\ FlowInv /\ [Next]_vars => FlowInv'
<1> SUFFICES ASSUME TypeOK, TypeOK', FlowInv, [Next]_vars PROVE FlowInv'
  OBVIOUS
<1>1. CASE UNCHANGED vars
  BY <1>1 DEF vars, FlowInv, Untouched, NewStream, ResetIsFinal, Queued, Announced,
              Outstanding, SinkErr, Credit, Granted, Within, Ordered, Before, Linked
<1>2. ASSUME NEW e \in Ends, AppRead(e) \/ AppWrite(e) \/ AppClose(e) PROVE FlowInv'
  <2>1. CASE ReadRecv(e) \/ WriteRecv(e)
    BY <2>1, RecvFlow DEF ReadRecv, WriteRecv
  <2>2. CASE WriteFail(e) \/ FlushFail(e)
    BY <2>2, SinkFailedFlow DEF WriteFail, FlushFail, MayWrite
  <2> QED
    BY <1>2, <2>1, <2>2, ReadFlow, WriteFlow, ShutdownFlow, DropFlow
       DEF AppRead, AppWrite, AppClose
<1>3. ASSUME NEW e \in Ends, WriterTask(e) PROVE FlowInv'
  BY <1>3, SendSysFlow, RemoveResetFlow, SendFrameFlow, RemoveDroppedFlow DEF WriterTask
<1> QED
  BY <1>1, <1>2, <1>3, ReaderFlow DEF Next

(***************************************************************************)
(* The credit accounting of a stream holds in every reachable state,       *)
(* whatever the windows of the two ends, the capacities and the sizes of   *)
(* reads and writes.                                                       *)
(***************************************************************************)
THEOREM Accounting == Spec => []FlowInv
<1>1. Init => TypeOK /\ FlowInv
  BY InitType, InitFlow
<1>2. TypeOK /\ FlowInv /\ [Next]_vars => (TypeOK /\ FlowInv)'
  BY NextType, NextFlow
<1> QED
  BY <1>1, <1>2, PTL DEF Spec

(***************************************************************************)
(* The window check of send_to_stream bounds the bytes a stream buffers by *)
(* its own window, for every window of the peer.                           *)
(***************************************************************************)
THEOREM BoundedBuffers == Spec => []BufferBounded
<1>1. TypeOK /\ FlowInv => BufferBounded
  <2> SUFFICES ASSUME TypeOK, FlowInv, NEW e \in Ends PROVE recvd[e] - rd[e] <= W[e]
    BY DEF BufferBounded
  <2>1. recvd[e] + handle[e].window - W[e] <= rd[e]
    BY DEF FlowInv, Queued, Granted
  <2>2. recvd[e] \in Nat /\ handle[e].window \in Nat /\ W[e] \in Nat /\ rd[e] \in Nat
    BY Ints
  <2> QED
    BY <2>1, <2>2
<1> QED
  BY <1>1, Typing, Accounting, PTL

\* The windows of both ends are configured alike, as both default to 256 KiB.
SameWindow == W["opener"] = W["acceptor"]

LEMMA NeverOverWindow ==
  ASSUME SameWindow, TypeOK, FlowInv, NEW e \in Ends PROVE ~RefuseFlow(e)
<1> DEFINE p == Peer(e)
           f == wire[p][1]
<1> SUFFICES ASSUME RefuseFlow(e) PROVE FALSE
  OBVIOUS
<1>0. p \in Ends /\ p # e /\ Parts(e, p) /\ W[p] = W[e]
  BY PeerType, Split DEF SameWindow, Ends
<1>1. /\ wire[p] # <<>> /\ Head(wire[p]).typ = "data" /\ ToShrink(e) > handle[e].window
      /\ Arriving(e) = Head(wire[p])
  BY DEF RefuseFlow, Reading, Arriving
<1>2. /\ Head(wire[p]) = f /\ 1 \in DOMAIN wire[p] /\ f.off \in Nat /\ f.len \in Nat
      /\ f.typ = "data"
  <2>1. wire[p] \in Seq(Frames)
    BY <1>0, Ints
  <2> QED
    BY <1>1, <2>1, TailAt, FrameNat
<1>3. handle[e].window \in Nat
  BY Ints
<1>4. ~shrunk[e] /\ f.len > handle[e].window
  BY <1>1, <1>2, <1>3 DEF ToShrink
<1>5. recvd[e] <= f.off + 0 /\ f.off + f.len <= sent[p]
  <2>1. Outstanding(p, e)
    BY <1>0 DEF Parts
  <2> QED
    BY <1>2, <1>4, <2>1 DEF Outstanding, Within
<1>6. sent[p] + stream[p].window - W[e] <= recvd[e] + handle[e].window - W[e]
  BY <1>0 DEF Parts, Announced, Credit, Granted
<1>7. /\ sent[p] \in Nat /\ stream[p].window \in Nat /\ recvd[e] \in Nat
      /\ W[e] \in Nat /\ f.off \in Nat /\ f.len \in Nat
  BY <1>0, <1>2, Ints
<1> HIDE DEF f, p
<1> QED
  BY <1>3, <1>4, <1>5, <1>6, <1>7

\* No frame of q speaks of flow control.
Clean(q) == \A i \in DOMAIN q : q[i].err # "FlowControl"

LEMMA CleanAppend ==
  ASSUME NEW q \in Seq(Frames), NEW f \in Frames, Clean(q), f.err # "FlowControl"
  PROVE  Clean(Append(q, f))
BY AppendAt DEF Clean

LEMMA CleanTail ==
  ASSUME NEW q \in Seq(Frames), q # <<>>, Clean(q)
  PROVE  Clean(Tail(q)) /\ Head(q).err # "FlowControl" /\ Head(q) \in Frames
BY TailAt DEF Clean

AllClean == \A e \in Ends : Clean(sysq[e]) /\ Clean(wire[e]) /\ Clean(toSession[e])

LEMMA AppClean ==
  ASSUME TypeOK, AllClean, NEW e \in Ends, AppRead(e) \/ AppWrite(e) \/ AppClose(e)
  PROVE  AllClean'
<1>0. toSession[e] \in Seq(Frames) /\ Clean(toSession[e])
  BY Ints DEF AllClean
<1>1. /\ sysq' = sysq /\ wire' = wire
      /\ \/ toSession' = toSession
         \/ \E f \in Frames : /\ f.err = "none"
                              /\ toSession' = [toSession EXCEPT ![e] = Append(@, f)]
  <2>1. CASE ReadRecv(e) \/ WriteRecv(e) \/ WriteFail(e) \/ FlushFail(e) \/ DropStream(e)
    BY <2>1 DEF ReadRecv, WriteRecv, WriteFail, FlushFail, DropStream, RecvFrame, SinkFailed
  <2>2. ASSUME NEW n \in ReadSizes, Read(e, n)
        PROVE  /\ sysq' = sysq /\ wire' = wire
               /\ \/ toSession' = toSession
                  \/ \E f \in Frames : /\ f.err = "none"
                                       /\ toSession' = [toSession EXCEPT ![e] = Append(@, f)]
    <3> DEFINE f == WndInc(rd[e], LesserOf(stream[e].readBuf, n))
    <3>1. f \in Frames /\ f.err = "none"
      <4>1. rd[e] \in Nat /\ LesserOf(stream[e].readBuf, n) \in Nat
        BY BoundAssumption DEF TypeOK, Streams, LesserOf
      <4> QED
        BY <4>1, WndIncType DEF WndInc, Frame
    <3> HIDE DEF f
    <3>2. /\ sysq' = sysq /\ wire' = wire
          /\ toSession' = toSession \/ toSession' = [toSession EXCEPT ![e] = Append(@, f)]
      BY <2>2 DEF Read, f
    <3> QED
      BY <3>1, <3>2
  <2>3. ASSUME NEW n \in WriteSizes, Write(e, n)
        PROVE  /\ sysq' = sysq /\ wire' = wire
               /\ \E f \in Frames : /\ f.err = "none"
                                    /\ toSession' = [toSession EXCEPT ![e] = Append(@, f)]
    <3> DEFINE f == Data(stream[e].needsSyn, sent[e], LesserOf(stream[e].window, n))
    <3>1. f \in Frames /\ f.err = "none"
      <4>1. /\ sent[e] \in Nat /\ LesserOf(stream[e].window, n) \in Nat
            /\ stream[e].needsSyn \in BOOLEAN
        BY BoundAssumption DEF TypeOK, Streams, LesserOf
      <4> QED
        BY <4>1, DataType DEF Data, Frame
    <3> HIDE DEF f
    <3>2. sysq' = sysq /\ wire' = wire /\ toSession' = [toSession EXCEPT ![e] = Append(@, f)]
      BY <2>3 DEF Write, f
    <3> QED
      BY <3>1, <3>2
  <2>4. CASE Shutdown(e)
    <3> DEFINE f == Fin(sent[e])
    <3>1. f \in Frames /\ f.err = "none"
      BY Ints, FinType DEF Fin, Frame
    <3> HIDE DEF f
    <3>2. /\ sysq' = sysq /\ wire' = wire
          /\ toSession' = toSession \/ toSession' = [toSession EXCEPT ![e] = Append(@, f)]
      BY <2>4 DEF Shutdown, SinkFailed, f
    <3> QED
      BY <3>1, <3>2
  <2> QED
    BY <2>1, <2>2, <2>3, <2>4 DEF AppRead, AppWrite, AppClose
<1>2. CASE toSession' = toSession
  BY <1>1, <1>2 DEF AllClean, Clean
<1>3. ASSUME NEW f \in Frames, f.err = "none",
             toSession' = [toSession EXCEPT ![e] = Append(@, f)]
      PROVE  AllClean'
  <2>1. toSession'[e] = Append(toSession[e], f) /\ \A x \in Ends : x # e => toSession'[x] = toSession[x]
    BY <1>3 DEF TypeOK
  <2>2. Clean(Append(toSession[e], f))
    BY <1>0, <1>3, CleanAppend
  <2> QED
    BY <1>1, <2>1, <2>2 DEF AllClean, Clean
<1> QED
  BY <1>1, <1>2, <1>3

LEMMA WriterClean ==
  ASSUME TypeOK, AllClean, NEW e \in Ends, WriterTask(e)
  PROVE  AllClean'
<1>0. /\ wire[e] \in Seq(Frames) /\ Clean(wire[e])
      /\ toSession[e] \in Seq(Frames) /\ Clean(toSession[e])
      /\ sysq[e] \in Seq(Frames) /\ Clean(sysq[e])
  BY Ints DEF AllClean
<1>1. CASE SendSys(e)
  <2>1. /\ Clean(Tail(sysq[e])) /\ Clean(Append(wire[e], Head(sysq[e])))
    <3>1. sysq[e] # <<>>
      BY <1>1 DEF SendSys
    <3>2. /\ Clean(Tail(sysq[e])) /\ Head(sysq[e]) \in Frames
          /\ Head(sysq[e]).err # "FlowControl"
      BY <1>0, <3>1, CleanTail
    <3> QED
      BY <1>0, <3>2, CleanAppend
  <2>2. /\ sysq'[e] = Tail(sysq[e]) /\ wire'[e] = Append(wire[e], Head(sysq[e]))
        /\ \A x \in Ends : x # e => sysq'[x] = sysq[x] /\ wire'[x] = wire[x]
        /\ toSession' = toSession
    BY <1>1 DEF SendSys, Transmit, TypeOK
  <2>3. \A x \in Ends : Clean(sysq'[x]) /\ Clean(wire'[x]) /\ Clean(toSession'[x])
    BY <2>1, <2>2 DEF AllClean
  <2> QED
    BY <2>3 DEF AllClean, Clean
<1>2. CASE RemoveReset(e)
  <2>1. /\ toSession'[e] = <<>> /\ \A x \in Ends : x # e => toSession'[x] = toSession[x]
        /\ sysq' = sysq /\ wire' = wire
    BY <1>2 DEF RemoveReset, TypeOK
  <2> QED
    BY <2>1 DEF AllClean, Clean
<1>3. CASE SendFrame(e)
  <2>1. /\ Clean(Tail(toSession[e])) /\ Clean(Append(wire[e], Head(toSession[e])))
    <3>1. toSession[e] # <<>>
      BY <1>3 DEF SendFrame
    <3>2. /\ Clean(Tail(toSession[e])) /\ Head(toSession[e]) \in Frames
          /\ Head(toSession[e]).err # "FlowControl"
      BY <1>0, <3>1, CleanTail
    <3> QED
      BY <1>0, <3>2, CleanAppend
  <2>2. /\ toSession'[e] = Tail(toSession[e]) /\ wire'[e] = Append(wire[e], Head(toSession[e]))
        /\ \A x \in Ends : x # e => toSession'[x] = toSession[x] /\ wire'[x] = wire[x]
        /\ sysq' = sysq
    BY <1>3 DEF SendFrame, Transmit, TypeOK
  <2>3. \A x \in Ends : Clean(sysq'[x]) /\ Clean(wire'[x]) /\ Clean(toSession'[x])
    BY <2>1, <2>2 DEF AllClean
  <2> QED
    BY <2>3 DEF AllClean, Clean
<1>4. CASE RemoveDropped(e)
  <2>1. Fin(sent[e]) \in Frames /\ Fin(sent[e]).err = "none"
    BY Ints, FinType DEF Fin, Frame
  <2>2. Clean(Append(wire[e], Fin(sent[e])))
    BY <1>0, <2>1, CleanAppend
  <2>3. /\ wire'[e] = wire[e] \/ wire'[e] = Append(wire[e], Fin(sent[e]))
        /\ \A x \in Ends : x # e => wire'[x] = wire[x]
        /\ sysq' = sysq /\ toSession' = toSession
    BY <1>4 DEF RemoveDropped, Transmit, TypeOK
  <2> QED
    BY <2>2, <2>3 DEF AllClean, Clean
<1> QED
  BY <1>1, <1>2, <1>3, <1>4 DEF WriterTask

LEMMA ReaderClean ==
  ASSUME TypeOK, AllClean, NEW e \in Ends, ReaderTask(e), ~RefuseFlow(e)
  PROVE  AllClean'
<1> DEFINE p == Peer(e)
           r == Rst("StreamClosed")
<1>0. p \in Ends /\ wire[p] \in Seq(Frames) /\ Clean(wire[p])
  BY PeerType, Ints DEF AllClean
<1>r. r \in Frames /\ r.err # "FlowControl"
  BY RstType DEF Rst, Frame
<1> HIDE DEF p, r
<1>1. toSession' = toSession
  BY DEF ReaderTask, ReadSyn, ReadRst, Deliver, Stall, Ignore, RefuseUnknown, RefuseClosed,
         RefuseFlow, Refuse
<1>2. \/ wire' = wire
      \/ wire[p] # <<>> /\ wire' = [wire EXCEPT ![p] = Tail(@)]
  BY DEF ReaderTask, ReadSyn, ReadRst, Deliver, Stall, Ignore, RefuseUnknown, RefuseClosed,
         RefuseFlow, Refuse, Reading, Consume, p
<1>3. \/ sysq' = sysq
      \/ sysq' = [sysq EXCEPT ![e] = Append(@, r)]
  BY DEF ReaderTask, ReadSyn, ReadRst, Deliver, Stall, Ignore, RefuseUnknown, RefuseClosed,
         Refuse, r
<1>4. \A x \in Ends : Clean(wire'[x])
  <2>1. CASE wire' = wire
    BY <2>1 DEF AllClean
  <2>2. CASE wire[p] # <<>> /\ wire' = [wire EXCEPT ![p] = Tail(@)]
    <3>1. Clean(Tail(wire[p]))
      BY <1>0, <2>2, CleanTail
    <3>2. wire'[p] = Tail(wire[p]) /\ \A x \in Ends : x # p => wire'[x] = wire[x]
      BY <1>0, <2>2 DEF TypeOK
    <3> QED
      BY <3>1, <3>2 DEF AllClean
  <2> QED
    BY <1>2, <2>1, <2>2
<1>5. \A x \in Ends : Clean(sysq'[x])
  <2>1. CASE sysq' = sysq
    BY <2>1 DEF AllClean
  <2>2. CASE sysq' = [sysq EXCEPT ![e] = Append(@, r)]
    <3>1. Clean(Append(sysq[e], r))
      BY <1>r, CleanAppend, Ints DEF AllClean
    <3>2. sysq'[e] = Append(sysq[e], r) /\ \A x \in Ends : x # e => sysq'[x] = sysq[x]
      BY <2>2 DEF TypeOK
    <3> QED
      BY <3>1, <3>2 DEF AllClean
  <2> QED
    BY <1>3, <2>1, <2>2
<1> QED
  BY <1>1, <1>4, <1>5 DEF AllClean, Clean

(***************************************************************************)
(* Two ends of this implementation with the same window never reset a      *)
(* stream for a flow control violation: poll_write cannot overrun the      *)
(* window send_to_stream checks, in any interleaving.                      *)
(***************************************************************************)
THEOREM NoFlowControlResets == ASSUME SameWindow PROVE Spec => []NoFlowControlReset
<1>1. Init => AllClean
  BY DEF Init, AllClean, Clean
<1>2. TypeOK /\ FlowInv /\ AllClean /\ [Next]_vars => AllClean'
  <2> SUFFICES ASSUME TypeOK, FlowInv, AllClean, [Next]_vars PROVE AllClean'
    OBVIOUS
  <2>1. CASE UNCHANGED vars
    BY <2>1 DEF vars, AllClean, Clean
  <2>2. ASSUME NEW e \in Ends, ReaderTask(e) PROVE AllClean'
    BY <2>2, NeverOverWindow, ReaderClean
  <2> QED
    BY <2>1, <2>2, AppClean, WriterClean DEF Next
<1>3. AllClean => NoFlowControlReset
  BY DEF AllClean, Clean, NoFlowControlReset, FramesOf
<1> QED
  BY <1>1, <1>2, <1>3, Typing, Accounting, PTL DEF Spec


----------------------------------------------------------------------------
(* Three channels one behind the other.                                    *)

\* Where the frames of a, b and c are in a \o b \o c.
LEMMA ThreeAt ==
  ASSUME NEW a \in Seq(Frames), NEW b \in Seq(Frames), NEW c \in Seq(Frames),
         NEW q, q = a \o b \o c
  PROVE  /\ q \in Seq(Frames)
         /\ Len(a) \in Nat /\ Len(b) \in Nat /\ Len(c) \in Nat
         /\ Len(q) = Len(a) + Len(b) + Len(c)
         /\ DOMAIN q = 1..Len(q)
         /\ \A i \in 1..Len(a) : q[i] = a[i]
         /\ \A i \in 1..Len(b) : q[Len(a) + i] = b[i]
         /\ \A i \in 1..Len(c) : q[Len(a) + Len(b) + i] = c[i]
  OBVIOUS

\* A frame that goes from one channel to the next leaves the whole as it is.
LEMMA MoveFirst ==
  ASSUME NEW a \in Seq(Frames), NEW b \in Seq(Frames), NEW c \in Seq(Frames), b # <<>>
  PROVE  Append(a, Head(b)) \o Tail(b) \o c = a \o b \o c
  OBVIOUS

\* The same between the second and the third.
LEMMA MoveSecond ==
  ASSUME NEW a \in Seq(Frames), NEW b \in Seq(Frames), NEW c \in Seq(Frames), c # <<>>
  PROVE  a \o Append(b, Head(c)) \o Tail(c) = a \o b \o c
  <1>1. Append(b, Head(c)) \o Tail(c) = b \o c
    OBVIOUS
  <1>2. Append(b, Head(c)) \in Seq(Frames) /\ Tail(c) \in Seq(Frames)
    BY TailAt, AppendAt
  <1>3. \A x, y \in Seq(Frames) : a \o x \o y = a \o (x \o y)
    OBVIOUS
  <1>4. a \o Append(b, Head(c)) \o Tail(c) = a \o (Append(b, Head(c)) \o Tail(c))
    BY <1>2, <1>3, Zenon
  <1>5. a \o b \o c = a \o (b \o c)
    BY <1>3, Zenon
  <1> QED
    BY <1>1, <1>4, <1>5, Zenon

\* A frame put in the last of the queues on the way.
LEMMA AppendLast ==
  ASSUME NEW a \in Seq(Frames), NEW b \in Seq(Frames), NEW c \in Seq(Frames), NEW f \in Frames
  PROVE  a \o b \o Append(c, f) = Append(a \o b \o c, f)
  OBVIOUS

\* The middle one, when the last is empty.
LEMMA AppendMid ==
  ASSUME NEW a \in Seq(Frames), NEW b \in Seq(Frames), NEW f \in Frames
  PROVE  a \o Append(b, f) \o <<>> = Append(a \o b \o <<>>, f)
  OBVIOUS

\* A frame taken from the first of them.
LEMMA TailFirst ==
  ASSUME NEW a \in Seq(Frames), NEW b \in Seq(Frames), NEW c \in Seq(Frames), a # <<>>
  PROVE  /\ Tail(a) \o b \o c = Tail(a \o b \o c)
         /\ Head(a \o b \o c) = Head(a)
         /\ a \o b \o c # <<>>
  OBVIOUS

\* r is q without its k-th frame.
Removed(q, k, r) ==
  /\ k \in 1..Len(q)
  /\ Len(r) = Len(q) - 1
  /\ \A i \in 1..Len(r) : r[i] = IF i < k THEN q[i] ELSE q[i + 1]

\* A frame taken from the middle one.
LEMMA TailMid ==
  ASSUME NEW a \in Seq(Frames), NEW b \in Seq(Frames), NEW c \in Seq(Frames), b # <<>>
  PROVE  /\ Removed(a \o b \o c, Len(a) + 1, a \o Tail(b) \o c)
         /\ (a \o b \o c)[Len(a) + 1] = Head(b)
  <1>1. PICK q : q = a \o b \o c
    OBVIOUS
  <1>2. PICK r : r = a \o Tail(b) \o c
    OBVIOUS
  <1>3. Tail(b) \in Seq(Frames) /\ Len(Tail(b)) = Len(b) - 1 /\ Len(b) >= 1 /\ Head(b) = b[1]
        /\ \A i \in 1..(Len(b) - 1) : Tail(b)[i] = b[i + 1]
    OBVIOUS
  <1>4. /\ Len(a) \in Nat /\ Len(b) \in Nat /\ Len(c) \in Nat
        /\ Len(q) = Len(a) + Len(b) + Len(c)
        /\ \A i \in 1..Len(a) : q[i] = a[i]
        /\ \A i \in 1..Len(b) : q[Len(a) + i] = b[i]
        /\ \A i \in 1..Len(c) : q[Len(a) + Len(b) + i] = c[i]
    BY <1>1, ThreeAt
  <1>5. /\ Len(r) = Len(a) + (Len(b) - 1) + Len(c)
        /\ \A i \in 1..Len(a) : r[i] = a[i]
        /\ \A i \in 1..(Len(b) - 1) : r[Len(a) + i] = Tail(b)[i]
        /\ \A i \in 1..Len(c) : r[Len(a) + (Len(b) - 1) + i] = c[i]
    BY <1>2, <1>3, ThreeAt
  <1>6. ASSUME NEW i \in 1..Len(r)
        PROVE  r[i] = IF i < Len(a) + 1 THEN q[i] ELSE q[i + 1]
    <2>1. CASE i <= Len(a)
      BY <1>4, <1>5, <2>1
    <2>2. CASE i > Len(a) /\ i <= Len(a) + Len(b) - 1
      <3> DEFINE k == i - Len(a)
      <3>0. k \in 1..(Len(b) - 1) /\ i = Len(a) + k
        BY <1>4, <1>5, <2>2
      <3> HIDE DEF k
      <3>1. r[i] = b[k + 1] /\ q[Len(a) + (k + 1)] = b[k + 1] /\ Len(a) + (k + 1) = i + 1
        BY <3>0, <1>3, <1>4, <1>5
      <3> QED
        BY <1>4, <2>2, <3>1
    <2>3. CASE i > Len(a) + Len(b) - 1
      <3> DEFINE k == i - (Len(a) + Len(b) - 1)
      <3>0. k \in 1..Len(c) /\ i = Len(a) + (Len(b) - 1) + k
        BY <1>3, <1>4, <1>5, <2>3
      <3> HIDE DEF k
      <3>1. r[i] = c[k] /\ q[Len(a) + Len(b) + k] = c[k] /\ Len(a) + Len(b) + k = i + 1
        BY <3>0, <1>3, <1>4, <1>5
      <3> QED
        BY <1>3, <1>4, <2>3, <3>1
    <2> QED
      BY <1>3, <1>4, <1>5, <2>1, <2>2, <2>3
  <1>7. Removed(q, Len(a) + 1, r)
    BY <1>3, <1>4, <1>5, <1>6 DEF Removed
  <1> QED
    BY <1>1, <1>2, <1>3, <1>4, <1>7

\* A frame put at the end of the second channel.
LEMMA InsertMid ==
  ASSUME NEW a \in Seq(Frames), NEW b \in Seq(Frames), NEW c \in Seq(Frames), NEW f \in Frames
  PROVE  /\ Removed(a \o Append(b, f) \o c, Len(a) + Len(b) + 1, a \o b \o c)
         /\ (a \o Append(b, f) \o c)[Len(a) + Len(b) + 1] = f
  <1>0. Append(b, f) \in Seq(Frames) /\ Len(Append(b, f)) = Len(b) + 1 /\ Len(b) \in Nat
        /\ Append(b, f)[Len(b) + 1] = f /\ \A i \in 1..Len(b) : Append(b, f)[i] = b[i]
    OBVIOUS
  <1>1. PICK q : q = a \o Append(b, f) \o c
    OBVIOUS
  <1>2. PICK r : r = a \o b \o c
    OBVIOUS
  <1>4. /\ Len(a) \in Nat /\ Len(b) \in Nat /\ Len(c) \in Nat
        /\ Len(r) = Len(a) + Len(b) + Len(c)
        /\ \A i \in 1..Len(a) : r[i] = a[i]
        /\ \A i \in 1..Len(b) : r[Len(a) + i] = b[i]
        /\ \A i \in 1..Len(c) : r[Len(a) + Len(b) + i] = c[i]
    BY <1>2, ThreeAt
  <1>5. /\ Len(q) = Len(a) + (Len(b) + 1) + Len(c)
        /\ \A i \in 1..Len(a) : q[i] = a[i]
        /\ \A i \in 1..(Len(b) + 1) : q[Len(a) + i] = Append(b, f)[i]
        /\ \A i \in 1..Len(c) : q[Len(a) + (Len(b) + 1) + i] = c[i]
    BY <1>0, <1>1, ThreeAt
  <1>6. ASSUME NEW i \in 1..Len(r)
        PROVE  r[i] = IF i < Len(a) + Len(b) + 1 THEN q[i] ELSE q[i + 1]
    <2>1. CASE i <= Len(a)
      BY <1>4, <1>5, <2>1
    <2>2. CASE i > Len(a) /\ i <= Len(a) + Len(b)
      <3> DEFINE k == i - Len(a)
      <3>0. k \in 1..Len(b) /\ i = Len(a) + k
        BY <1>4, <2>2
      <3> HIDE DEF k
      <3>1. r[i] = b[k] /\ q[i] = b[k]
        BY <3>0, <1>0, <1>4, <1>5
      <3> QED
        BY <1>4, <2>2, <3>1
    <2>3. CASE i > Len(a) + Len(b)
      <3> DEFINE k == i - (Len(a) + Len(b))
      <3>0. k \in 1..Len(c) /\ i = Len(a) + Len(b) + k
        BY <1>4, <2>3
      <3> HIDE DEF k
      <3>1. r[i] = c[k] /\ q[Len(a) + (Len(b) + 1) + k] = c[k] /\ Len(a) + (Len(b) + 1) + k = i + 1
        BY <3>0, <1>4, <1>5
      <3> QED
        BY <1>4, <2>3, <3>1
    <2> QED
      BY <1>4, <2>1, <2>2, <2>3
  <1>7. Removed(q, Len(a) + Len(b) + 1, r)
    BY <1>4, <1>5, <1>6 DEF Removed
  <1>8. q[Len(a) + (Len(b) + 1)] = f /\ Len(a) + (Len(b) + 1) = Len(a) + Len(b) + 1
    BY <1>0, <1>4, <1>5
  <1> QED
    BY <1>1, <1>2, <1>7, <1>8
----------------------------------------------------------------------------
(* Sequences of frames that carry consecutive bytes.                       *)

End(f) == f.off + f.len

\* The data frames of q follow each other from lo on.
Joined(q, lo) ==
  \A i \in DOMAIN q : q[i].typ = "data" =>
    \/ q[i].off = lo
    \/ \E j \in DOMAIN q : j < i /\ q[j].typ = "data" /\ End(q[j]) = q[i].off

\* They go on until hi.
Reaches(q, lo, hi) == hi = lo \/ \E j \in DOMAIN q : q[j].typ = "data" /\ End(q[j]) = hi

\* A FIN carries nothing, follows the last of n bytes, and says that the writer is
\* closed.
FinsLast(q, n, closed) ==
  \A i \in DOMAIN q : q[i].fin => q[i].typ = "data" /\ q[i].off = n /\ q[i].len = 0 /\ closed

\* Linked, in two halves.
LEMMA ContiguousIs ==
  ASSUME NEW q, NEW lo, NEW hi
  PROVE  Linked(q, "data", lo, hi) <=> Joined(q, lo) /\ Reaches(q, lo, hi)
  BY DEF Linked, Joined, Reaches, End

\* A frame of a queue.
LEMMA FrameAt ==
  ASSUME NEW q \in Seq(Frames), NEW i \in DOMAIN q
  PROVE  /\ q[i] \in Frames /\ q[i].off \in Nat /\ q[i].len \in Nat /\ i \in Nat /\ i >= 1
         /\ End(q[i]) \in Nat /\ End(q[i]) >= q[i].off /\ i <= Len(q)
  <1>1. q[i] \in Frames /\ i \in Nat /\ i >= 1 /\ i <= Len(q)
    OBVIOUS
  <1> QED
    BY <1>1, FrameNat DEF End

\* A frame behind the last.
LEMMA ChainAppend ==
  ASSUME NEW q \in Seq(Frames), NEW f \in Frames, NEW lo \in Int, NEW hi \in Int,
         f.typ = "data" => f.off = hi,
         Within(q, "data", lo, hi), Ordered(q, "data"), lo <= hi
  PROVE  /\ f.typ = "data" => Within(Append(q, f), "data", lo, End(f))
         /\ f.typ # "data" => Within(Append(q, f), "data", lo, hi)
         /\ Ordered(Append(q, f), "data")
         /\ Joined(q, lo) /\ Reaches(q, lo, hi) => Joined(Append(q, f), lo)
         /\ f.typ # "data" => (Joined(q, lo) => Joined(Append(q, f), lo))
         /\ f.typ = "data" => Reaches(Append(q, f), lo, End(f))
         /\ f.typ # "data" /\ Reaches(q, lo, hi) => Reaches(Append(q, f), lo, hi)
  <1> DEFINE r == Append(q, f)
  <1>0. f.off \in Nat /\ f.len \in Nat
    BY FrameNat
  <1>1. /\ r \in Seq(Frames) /\ DOMAIN r = 1..(Len(q) + 1) /\ DOMAIN q = 1..Len(q) /\ Len(q) \in Nat
        /\ \A i \in DOMAIN q : r[i] = q[i]
        /\ r[Len(q) + 1] = f
    BY AppendAt
  <1> HIDE DEF r
  <1>2. \A i \in DOMAIN r : i \in DOMAIN q \/ i = Len(q) + 1
    BY <1>1
  <1>3. f.typ = "data" => Within(r, "data", lo, End(f))
    <2> SUFFICES ASSUME f.typ = "data", NEW i \in DOMAIN r, r[i].typ = "data"
                 PROVE  lo <= r[i].off /\ r[i].off + r[i].len <= End(f)
      BY DEF Within
    <2>1. CASE i \in DOMAIN q
      <3>1. lo <= q[i].off /\ q[i].off + q[i].len <= hi /\ r[i] = q[i] /\ q[i].off \in Nat /\ q[i].len \in Nat
        BY <1>1, <2>1, FrameAt DEF Within
      <3> QED
        BY <1>0, <3>1 DEF End
    <2>2. CASE i = Len(q) + 1
      BY <1>0, <1>1, <2>2 DEF End
    <2> QED
      BY <1>2, <2>1, <2>2
  <1>4. f.typ # "data" => Within(r, "data", lo, hi)
    BY <1>1, <1>2 DEF Within
  <1>5. Ordered(r, "data")
    BY OrderedAppend DEF r
  <1>6. ASSUME Joined(q, lo), f.typ = "data" => Reaches(q, lo, hi)
        PROVE  Joined(r, lo)
    <2> SUFFICES ASSUME NEW i \in DOMAIN r, r[i].typ = "data", r[i].off # lo
                 PROVE  \E j \in DOMAIN r : j < i /\ r[j].typ = "data" /\ End(r[j]) = r[i].off
      BY DEF Joined
    <2>1. CASE i \in DOMAIN q
      <3>1. PICK j \in DOMAIN q : j < i /\ q[j].typ = "data" /\ End(q[j]) = q[i].off
        BY <1>1, <1>6, <2>1 DEF Joined
      <3> QED
        BY <1>1, <2>1, <3>1
    <2>2. CASE i = Len(q) + 1
      <3>1. PICK j \in DOMAIN q : q[j].typ = "data" /\ End(q[j]) = hi
        BY <1>1, <1>6, <2>2 DEF Reaches
      <3> QED
        BY <1>1, <2>2, <3>1
    <2> QED
      BY <1>2, <2>1, <2>2
  <1>7. f.typ = "data" => Reaches(r, lo, End(f))
    BY <1>1 DEF Reaches
  <1>8. f.typ # "data" /\ Reaches(q, lo, hi) => Reaches(r, lo, hi)
    BY <1>1 DEF Reaches
  <1> QED
    BY <1>3, <1>4, <1>5, <1>6, <1>7, <1>8 DEF r

\* The first frame is taken.
LEMMA ChainTail ==
  ASSUME NEW q \in Seq(Frames), q # <<>>, NEW lo \in Int, NEW hi \in Int,
         Within(q, "data", lo, hi), Ordered(q, "data"), lo <= hi,
         NEW lo2 \in Int, lo2 = IF Head(q).typ = "data" THEN lo + Head(q).len ELSE lo
  PROVE  /\ lo <= lo2 /\ lo2 <= hi
         /\ Within(Tail(q), "data", lo2, hi) /\ Ordered(Tail(q), "data")
         /\ Joined(q, lo) /\ Head(q).typ = "data" => Head(q).off = lo
         /\ Joined(q, lo) => Joined(Tail(q), lo2)
         /\ Joined(q, lo) /\ Reaches(q, lo, hi) => Reaches(Tail(q), lo2, hi)
  <1> DEFINE h == Head(q)
             r == Tail(q)
  <1>1. /\ r \in Seq(Frames) /\ h \in Frames /\ h = q[1] /\ 1 \in DOMAIN q
        /\ \A i \in DOMAIN r : i \in Nat /\ i + 1 \in DOMAIN q /\ r[i] = q[i + 1]
        /\ \A i \in DOMAIN q : i \in Nat /\ i >= 1
        /\ \A i \in DOMAIN q : i > 1 => i - 1 \in DOMAIN r /\ r[i - 1] = q[i]
    BY TailAt
  <1>2. h.off \in Nat /\ h.len \in Nat
    BY <1>1, FrameNat
  <1>3. lo2 = IF h.typ = "data" THEN lo + h.len ELSE lo
    OBVIOUS
  <1> HIDE DEF h, r
  <1>4. h.typ = "data" => lo <= h.off /\ h.off + h.len <= hi
    BY <1>1 DEF Within
  <1>5. lo <= lo2 /\ lo2 <= hi
    BY <1>2, <1>3, <1>4
  <1>6. \A i \in DOMAIN q : i > 1 /\ q[i].typ = "data" => lo2 <= q[i].off
    <2> SUFFICES ASSUME NEW i \in DOMAIN q, i > 1, q[i].typ = "data" PROVE lo2 <= q[i].off
      OBVIOUS
    <2>1. q[i].off \in Nat /\ lo <= q[i].off
      BY FrameAt DEF Within
    <2>2. h.typ = "data" => h.off + h.len <= q[i].off
      BY <1>1 DEF Ordered
    <2> QED
      BY <1>2, <1>3, <1>4, <2>1, <2>2
  <1>7. Within(r, "data", lo2, hi)
    <2> SUFFICES ASSUME NEW i \in DOMAIN r, r[i].typ = "data"
                 PROVE  lo2 <= r[i].off /\ r[i].off + r[i].len <= hi
      BY DEF Within
    <2>1. i + 1 \in DOMAIN q /\ r[i] = q[i + 1] /\ i + 1 > 1
      BY <1>1
    <2> QED
      BY <2>1, <1>6 DEF Within
  <1>8. Ordered(r, "data")
    BY OrderedTail DEF r
  <1>9. Joined(q, lo) /\ h.typ = "data" => h.off = lo
    <2>1. \A j \in DOMAIN q : ~(j < 1)
      BY <1>1
    <2> QED
      BY <1>1, <2>1 DEF Joined
  <1>10. ASSUME Joined(q, lo) PROVE Joined(r, lo2)
    <2> SUFFICES ASSUME NEW i \in DOMAIN r, r[i].typ = "data", r[i].off # lo2
                 PROVE  \E j \in DOMAIN r : j < i /\ r[j].typ = "data" /\ End(r[j]) = r[i].off
      BY DEF Joined
    <2>1. i \in Nat /\ i + 1 \in DOMAIN q /\ r[i] = q[i + 1] /\ i + 1 > 1
      BY <1>1
    <2>2. q[i + 1].off \in Nat /\ lo2 <= q[i + 1].off /\ q[i + 1].off # lo
      BY <1>5, <1>6, <2>1, FrameAt
    <2>3. PICK j \in DOMAIN q : j < i + 1 /\ q[j].typ = "data" /\ End(q[j]) = q[i + 1].off
      BY <1>10, <2>1, <2>2 DEF Joined
    <2>4. j # 1
      BY <1>1, <1>2, <1>3, <1>9, <1>10, <2>1, <2>3 DEF End
    <2>5. j \in Nat /\ j > 1 /\ j - 1 < i
      <3>1. j \in Nat /\ j >= 1
        BY <1>1
      <3>2. j < i + 1 /\ i \in Nat
        BY <2>1, <2>3
      <3> QED
        BY <2>4, <3>1, <3>2
    <2>6. j - 1 \in DOMAIN r /\ r[j - 1] = q[j]
      BY <1>1, <2>5
    <2> QED
      BY <2>1, <2>3, <2>5, <2>6
  <1>11. ASSUME Joined(q, lo), Reaches(q, lo, hi), lo2 # hi PROVE Reaches(r, lo2, hi)
    <2>0. hi # lo
      BY <1>5, <1>11
    <2>1. PICK j \in DOMAIN q : q[j].typ = "data" /\ End(q[j]) = hi
      BY <1>11, <2>0 DEF Reaches
    <2>2. j # 1
      BY <1>1, <1>2, <1>3, <1>9, <1>11, <2>1 DEF End
    <2>3. j - 1 \in DOMAIN r /\ r[j - 1] = q[j]
      BY <1>1, <2>2
    <2> QED
      BY <2>1, <2>3 DEF Reaches
  <1> QED
    BY <1>5, <1>7, <1>8, <1>9, <1>10, <1>11 DEF r, h, Reaches

\* What the frames q on their way to a reader hold: the bytes lo up to hi, in order
\* and once; no byte of them is missing while the reader goes on (live) and the
\* writer's channel is not broken (err).
Carries(q, lo, hi, live, err, closed) ==
  /\ lo <= hi
  /\ Within(q, "data", lo, hi)
  /\ Ordered(q, "data")
  /\ live => Joined(q, lo)
  /\ live /\ ~err => Reaches(q, lo, hi)
  /\ FinsLast(q, hi, closed)

\* Nothing is asked of a reader that stopped, less of one whose writer broke.
LEMMA CarriesLess ==
  ASSUME NEW q, NEW lo, NEW hi, NEW live, NEW err, NEW closed,
         NEW live2, NEW err2, NEW closed2, live2 => live, err => err2, closed => closed2,
         Carries(q, lo, hi, live, err, closed)
  PROVE  Carries(q, lo, hi, live2, err2, closed2)
  BY DEF Carries, FinsLast

\* A frame is queued: nothing but data and FIN take part.
LEMMA CarriesAppend ==
  ASSUME NEW q \in Seq(Frames), NEW f \in Frames, NEW lo \in Int, NEW hi \in Int, NEW hi2 \in Int,
         NEW live, NEW err, NEW closed, NEW err2, NEW closed2,
         f.typ = "data" => f.off = hi /\ hi2 = hi + f.len /\ ~err,
         f.typ # "data" => hi2 = hi /\ ~f.fin,
         f.fin => f.len = 0 /\ closed2,
         hi2 # hi => ~closed, closed => closed2, err => err2,
         Carries(q, lo, hi, live, err, closed)
  PROVE  Carries(Append(q, f), lo, hi2, live, err2, closed2)
  <1>0. f.off \in Nat /\ f.len \in Nat
    BY FrameNat
  <1>1. lo <= hi /\ Within(q, "data", lo, hi) /\ Ordered(q, "data") /\ FinsLast(q, hi, closed)
        /\ (live => Joined(q, lo)) /\ (live /\ ~err => Reaches(q, lo, hi))
    BY DEF Carries
  <1>2. f.typ = "data" => End(f) = hi2 /\ hi <= hi2
    BY <1>0 DEF End
  <1>3. lo <= hi2
    BY <1>1, <1>2
  <1>4. /\ Within(Append(q, f), "data", lo, hi2) /\ Ordered(Append(q, f), "data")
        /\ live => Joined(Append(q, f), lo)
        /\ live /\ ~err => Reaches(Append(q, f), lo, hi2)
    BY <1>1, <1>2, ChainAppend
  <1>5. FinsLast(Append(q, f), hi2, closed2)
    <2> SUFFICES ASSUME NEW i \in DOMAIN Append(q, f), Append(q, f)[i].fin
                 PROVE  LET g == Append(q, f)[i] IN g.typ = "data" /\ g.off = hi2 /\ g.len = 0 /\ closed2
      BY DEF FinsLast
    <2>1. CASE i \in DOMAIN q
      <3>1. Append(q, f)[i] = q[i]
        BY <2>1, AppendAt
      <3> QED
        BY <1>1, <2>1, <3>1 DEF FinsLast
    <2>2. CASE i = Len(q) + 1
      <3>1. Append(q, f)[i] = f
        BY <2>2, AppendAt
      <3> QED
        BY <1>0, <3>1
    <2> QED
      BY <2>1, <2>2, AppendAt
  <1> QED
    BY <1>3, <1>4, <1>5 DEF Carries

\* The reader takes the first frame.
LEMMA CarriesTail ==
  ASSUME NEW q \in Seq(Frames), q # <<>>, NEW lo \in Int, NEW hi \in Int,
         NEW live, NEW err, NEW closed, Carries(q, lo, hi, live, err, closed),
         NEW lo2 \in Int, lo2 = IF Head(q).typ = "data" THEN lo + Head(q).len ELSE lo
  PROVE  /\ Carries(Tail(q), lo2, hi, live, err, closed)
         /\ live /\ Head(q).fin => closed /\ Head(q).typ = "data" /\ lo2 = hi
  <1>1. lo <= hi /\ Within(q, "data", lo, hi) /\ Ordered(q, "data") /\ FinsLast(q, hi, closed)
        /\ (live => Joined(q, lo)) /\ (live /\ ~err => Reaches(q, lo, hi))
    BY DEF Carries
  <1>2. /\ lo <= lo2 /\ lo2 <= hi
        /\ Within(Tail(q), "data", lo2, hi) /\ Ordered(Tail(q), "data")
        /\ Joined(q, lo) /\ Head(q).typ = "data" => Head(q).off = lo
        /\ Joined(q, lo) => Joined(Tail(q), lo2)
        /\ Joined(q, lo) /\ Reaches(q, lo, hi) => Reaches(Tail(q), lo2, hi)
    BY <1>1, ChainTail
  <1>3. FinsLast(Tail(q), hi, closed)
    BY <1>1, TailAt DEF FinsLast
  <1>4. Carries(Tail(q), lo2, hi, live, err, closed)
    BY <1>1, <1>2, <1>3 DEF Carries
  <1>5. ASSUME live, Head(q).fin PROVE closed /\ Head(q).typ = "data" /\ lo2 = hi
    <2>1. 1 \in DOMAIN q /\ q[1] = Head(q)
      BY TailAt
    <2>2. Head(q).typ = "data" /\ Head(q).off = hi /\ Head(q).len = 0 /\ closed
      BY <1>1, <1>5, <2>1 DEF FinsLast
    <2> QED
      BY <1>1, <1>2, <1>5, <2>2
  <1> QED
    BY <1>4, <1>5

\* Where the frames of q are when its k-th is gone.
LEMMA RemovedAt ==
  ASSUME NEW q \in Seq(Frames), NEW r \in Seq(Frames), NEW k, Removed(q, k, r)
  PROVE  /\ k \in DOMAIN q /\ k \in Nat
         /\ \A i \in DOMAIN r : i < k => i \in DOMAIN q /\ r[i] = q[i]
         /\ \A i \in DOMAIN r : i >= k => i + 1 \in DOMAIN q /\ r[i] = q[i + 1]
         /\ \A i \in DOMAIN q : i < k => i \in DOMAIN r /\ r[i] = q[i]
         /\ \A i \in DOMAIN q : i > k => i - 1 \in DOMAIN r /\ r[i - 1] = q[i]
         /\ \A i \in DOMAIN r : i \in Nat
         /\ \A i \in DOMAIN q : i \in Nat
  <1>1. /\ Len(q) \in Nat /\ Len(r) \in Nat /\ Len(r) = Len(q) - 1 /\ k \in 1..Len(q)
        /\ DOMAIN q = 1..Len(q) /\ DOMAIN r = 1..Len(r)
        /\ \A i \in 1..Len(r) : r[i] = IF i < k THEN q[i] ELSE q[i + 1]
    BY DEF Removed
  <1>2. ASSUME NEW i \in DOMAIN q, i > k PROVE i - 1 \in DOMAIN r /\ r[i - 1] = q[i]
    <2>1. i - 1 \in 1..Len(r) /\ ~(i - 1 < k) /\ (i - 1) + 1 = i
      BY <1>1, <1>2
    <2> QED
      BY <1>1, <2>1
  <1> QED
    BY <1>1, <1>2

\* Every frame of r is one of q, and the order is kept.
LEMMA RemovedMap ==
  ASSUME NEW q \in Seq(Frames), NEW r \in Seq(Frames), NEW k, Removed(q, k, r),
         NEW i \in DOMAIN r
  PROVE  \E m \in DOMAIN q : m # k /\ r[i] = q[m] /\ m \in Nat
                             /\ (i < k => m = i) /\ (i >= k => m = i + 1)
  <1>1. CASE i < k
    BY <1>1, RemovedAt
  <1>2. CASE i >= k
    <2>1. i + 1 \in DOMAIN q /\ r[i] = q[i + 1] /\ i \in Nat /\ k \in Nat
      BY <1>2, RemovedAt
    <2> QED
      BY <1>2, <2>1
  <1> QED
    BY <1>1, <1>2, RemovedAt

\* Where the other frames are after one was taken out.
LEMMA RemovedBack ==
  ASSUME NEW q \in Seq(Frames), NEW r \in Seq(Frames), NEW k, Removed(q, k, r),
         NEW m \in DOMAIN q, m # k
  PROVE  \E i \in DOMAIN r : r[i] = q[m] /\ i \in Nat /\ (m < k => i = m) /\ (m > k => i = m - 1)
  <1>0. m \in Nat /\ k \in Nat
    BY RemovedAt
  <1>1. CASE m < k
    BY <1>0, <1>1, RemovedAt
  <1>2. CASE m > k
    BY <1>0, <1>2, RemovedAt
  <1> QED
    BY <1>0, <1>1, <1>2

\* What holds of every frame, and of every two frames in order, survives.
LEMMA RemovedOrder ==
  ASSUME NEW q \in Seq(Frames), NEW r \in Seq(Frames), NEW k, Removed(q, k, r),
         NEW lo, NEW hi, NEW closed
  PROVE  /\ Within(q, "data", lo, hi) => Within(r, "data", lo, hi)
         /\ Ordered(q, "data") => Ordered(r, "data")
         /\ FinsLast(q, hi, closed) => FinsLast(r, hi, closed)
  <1>0. \A i \in DOMAIN r : \E m \in DOMAIN q :
          r[i] = q[m] /\ m \in Nat /\ (i < k => m = i) /\ (i >= k => m = i + 1)
    BY RemovedMap
  <1>1. Within(q, "data", lo, hi) => Within(r, "data", lo, hi)
    BY RemovedMap DEF Within
  <1>2. FinsLast(q, hi, closed) => FinsLast(r, hi, closed)
    BY RemovedMap DEF FinsLast
  <1>3. ASSUME Ordered(q, "data") PROVE Ordered(r, "data")
    <2> SUFFICES ASSUME NEW i \in DOMAIN r, NEW j \in DOMAIN r, i < j,
                        r[i].typ = "data", r[j].typ = "data"
                 PROVE  r[i].off + r[i].len <= r[j].off
      BY DEF Ordered
    <2>1. PICK m \in DOMAIN q : r[i] = q[m] /\ m \in Nat /\ (i < k => m = i) /\ (i >= k => m = i + 1)
      BY <1>0
    <2>2. PICK n \in DOMAIN q : r[j] = q[n] /\ n \in Nat /\ (j < k => n = j) /\ (j >= k => n = j + 1)
      BY <1>0
    <2>3. i \in Nat /\ j \in Nat /\ k \in Nat
      BY RemovedAt
    <2>4. m < n
      BY <2>1, <2>2, <2>3
    <2> QED
      BY <1>3, <2>1, <2>2, <2>4 DEF Ordered
  <1> QED
    BY <1>1, <1>2, <1>3

\* A frame without bytes, or no data frame at all, leaves the rest joined.
LEMMA RemovedJoined ==
  ASSUME NEW q \in Seq(Frames), NEW r \in Seq(Frames), NEW k, Removed(q, k, r),
         NEW lo \in Int, NEW hi \in Int, q[k].typ # "data" \/ q[k].len = 0, Joined(q, lo)
  PROVE  /\ Joined(r, lo)
         /\ Reaches(q, lo, hi) => Reaches(r, lo, hi)
  <1>0. k \in DOMAIN q /\ k \in Nat /\ q[k].off \in Nat /\ q[k].len \in Nat
    BY RemovedAt, FrameAt
  <1>1. ASSUME q[k].typ = "data", q[k].off # lo
        PROVE  \E j \in DOMAIN q : j < k /\ q[j].typ = "data" /\ End(q[j]) = End(q[k])
    <2>1. PICK j \in DOMAIN q : j < k /\ q[j].typ = "data" /\ End(q[j]) = q[k].off
      BY <1>0, <1>1 DEF Joined
    <2>2. End(q[k]) = q[k].off
      BY <1>0, <1>1 DEF End
    <2> QED
      BY <2>1, <2>2
  <1>2. ASSUME NEW v, NEW n \in Nat, n > k, v # lo,
               \E j \in DOMAIN q : j < n /\ q[j].typ = "data" /\ End(q[j]) = v
        PROVE  \E j \in DOMAIN q : j < n /\ j # k /\ q[j].typ = "data" /\ End(q[j]) = v
    <2>1. PICK j \in DOMAIN q : j < n /\ q[j].typ = "data" /\ End(q[j]) = v
      BY <1>2
    <2>2. CASE j = k
      <3>1. End(q[k]) = q[k].off
        BY <1>0, <2>1, <2>2 DEF End
      <3>2. q[k].off # lo
        BY <1>2, <2>1, <2>2, <3>1
      <3>3. PICK m \in DOMAIN q : m < k /\ q[m].typ = "data" /\ End(q[m]) = End(q[k])
        BY <1>1, <2>1, <2>2, <3>2
      <3>4. m \in Nat
        BY RemovedAt
      <3> QED
        BY <1>0, <1>2, <2>1, <2>2, <3>3, <3>4
    <2> QED
      BY <2>1, <2>2
  <1>3. Joined(r, lo)
    <2> SUFFICES ASSUME NEW i \in DOMAIN r, r[i].typ = "data", r[i].off # lo
                 PROVE  \E j \in DOMAIN r : j < i /\ r[j].typ = "data" /\ End(r[j]) = r[i].off
      BY DEF Joined
    <2>0. i \in Nat
      BY RemovedAt
    <2>1. CASE i < k
      <3>1. i \in DOMAIN q /\ r[i] = q[i]
        BY <2>1, RemovedAt
      <3>2. PICK j \in DOMAIN q : j < i /\ q[j].typ = "data" /\ End(q[j]) = q[i].off
        BY <3>1 DEF Joined
      <3>3. j \in Nat /\ j < k
        BY <1>0, <2>0, <2>1, <3>2, RemovedAt
      <3>4. j \in DOMAIN r /\ r[j] = q[j]
        BY <3>3, RemovedAt
      <3> QED
        BY <3>1, <3>2, <3>4
    <2>2. CASE i >= k
      <3>1. i + 1 \in DOMAIN q /\ r[i] = q[i + 1] /\ i + 1 > k /\ i + 1 \in Nat
        BY <1>0, <2>0, <2>2, RemovedAt
      <3>2. \E j \in DOMAIN q : j < i + 1 /\ q[j].typ = "data" /\ End(q[j]) = q[i + 1].off
        BY <3>1 DEF Joined
      <3>3. PICK j \in DOMAIN q : j < i + 1 /\ j # k /\ q[j].typ = "data" /\ End(q[j]) = q[i + 1].off
        BY <1>2, <3>1, <3>2
      <3>4. PICK m \in DOMAIN r : r[m] = q[j] /\ m \in Nat /\ (j < k => m = j) /\ (j > k => m = j - 1)
        BY <3>3, RemovedBack
      <3>5. m < i
        <4>1. j \in Nat
          BY RemovedAt
        <4> QED
          BY <1>0, <2>0, <2>2, <3>3, <3>4, <4>1
      <3> QED
        BY <3>1, <3>3, <3>4, <3>5
    <2> QED
      BY <1>0, <2>0, <2>1, <2>2
  <1>4. ASSUME Reaches(q, lo, hi), hi # lo PROVE Reaches(r, lo, hi)
    <2>1. PICK j \in DOMAIN q : q[j].typ = "data" /\ End(q[j]) = hi
      BY <1>4 DEF Reaches
    <2>2. j \in Nat /\ Len(q) + 1 \in Nat /\ j < Len(q) + 1 /\ k < Len(q) + 1
      BY <1>0
    <2>3. PICK m \in DOMAIN q : m # k /\ q[m].typ = "data" /\ End(q[m]) = hi
      BY <1>2, <1>4, <2>1, <2>2
    <2> QED
      BY <2>3, RemovedBack DEF Reaches
  <1> QED
    BY <1>3, <1>4 DEF Reaches

\* A frame on its way is lost: only a reader that stops may miss bytes.
LEMMA CarriesRemoved ==
  ASSUME NEW q \in Seq(Frames), NEW r \in Seq(Frames), NEW k, Removed(q, k, r),
         NEW lo \in Int, NEW hi \in Int, NEW live, NEW live2, NEW err, NEW closed,
         live2 => live /\ (q[k].typ # "data" \/ q[k].len = 0),
         Carries(q, lo, hi, live, err, closed)
  PROVE  Carries(r, lo, hi, live2, err, closed)
  <1>1. live2 => Joined(r, lo)
    BY RemovedJoined DEF Carries
  <1>2. live2 /\ ~err => Reaches(r, lo, hi)
    BY RemovedJoined DEF Carries
  <1> QED
    BY <1>1, <1>2, RemovedOrder DEF Carries

\* A frame that is not data is put between the others.
LEMMA CarriesInserted ==
  ASSUME NEW q \in Seq(Frames), NEW r \in Seq(Frames), NEW k, Removed(r, k, q),
         NEW lo \in Int, NEW hi \in Int, NEW live, NEW err, NEW closed,
         r[k].typ # "data", ~r[k].fin,
         Carries(q, lo, hi, live, err, closed)
  PROVE  Carries(r, lo, hi, live, err, closed)
  <1>1. Within(r, "data", lo, hi)
    <2> SUFFICES ASSUME NEW i \in DOMAIN r, r[i].typ = "data"
                 PROVE  lo <= r[i].off /\ r[i].off + r[i].len <= hi
      BY DEF Within
    <2> QED
      BY RemovedBack DEF Within, Carries
  <1>2. FinsLast(r, hi, closed)
    <2> SUFFICES ASSUME NEW i \in DOMAIN r, r[i].fin
                 PROVE  r[i].typ = "data" /\ r[i].off = hi /\ r[i].len = 0 /\ closed
      BY DEF FinsLast
    <2> QED
      BY RemovedBack DEF FinsLast, Carries
  <1>3. Ordered(r, "data")
    <2> SUFFICES ASSUME NEW i \in DOMAIN r, NEW j \in DOMAIN r, i < j,
                        r[i].typ = "data", r[j].typ = "data"
                 PROVE  r[i].off + r[i].len <= r[j].off
      BY DEF Ordered
    <2>1. PICK m \in DOMAIN q : q[m] = r[i] /\ m \in Nat /\ (i < k => m = i) /\ (i > k => m = i - 1)
      BY RemovedBack
    <2>2. PICK n \in DOMAIN q : q[n] = r[j] /\ n \in Nat /\ (j < k => n = j) /\ (j > k => n = j - 1)
      BY RemovedBack
    <2>3. i \in Nat /\ j \in Nat /\ k \in Nat /\ i # k /\ j # k
      BY RemovedAt
    <2>4. m < n
      BY <2>1, <2>2, <2>3
    <2> QED
      BY <2>1, <2>2, <2>4 DEF Ordered, Carries
  <1>4. ASSUME live PROVE Joined(r, lo)
    <2> SUFFICES ASSUME NEW i \in DOMAIN r, r[i].typ = "data", r[i].off # lo
                 PROVE  \E j \in DOMAIN r : j < i /\ r[j].typ = "data" /\ End(r[j]) = r[i].off
      BY DEF Joined
    <2>1. PICK m \in DOMAIN q : q[m] = r[i] /\ m \in Nat /\ (i < k => m = i) /\ (i > k => m = i - 1)
      BY RemovedBack
    <2>2. PICK n \in DOMAIN q : n < m /\ q[n].typ = "data" /\ End(q[n]) = q[m].off
      BY <1>4, <2>1 DEF Joined, Carries
    <2>3. PICK j \in DOMAIN r : q[n] = r[j] /\ j \in Nat /\ (n < k => j = n) /\ (n >= k => j = n + 1)
      <3>1. /\ k \in Nat /\ n \in Nat
            /\ n < k => n \in DOMAIN r /\ q[n] = r[n]
            /\ n >= k => n + 1 \in DOMAIN r /\ q[n] = r[n + 1]
        BY RemovedAt
      <3>2. CASE n < k
        BY <3>1, <3>2
      <3>3. CASE n >= k
        BY <3>1, <3>3
      <3> QED
        BY <3>1, <3>2, <3>3
    <2>4. i \in Nat /\ k \in Nat /\ n \in Nat /\ i # k
      BY RemovedAt
    <2>5. j < i
      BY <2>1, <2>2, <2>3, <2>4
    <2> QED
      BY <2>1, <2>2, <2>3, <2>5
  <1>5. live /\ ~err => Reaches(r, lo, hi)
    BY RemovedMap DEF Reaches, Carries
  <1> QED
    BY <1>1, <1>2, <1>3, <1>4, <1>5 DEF Carries

\* What the writer had queued is thrown away: nothing is missing before it.
LEMMA CarriesPrefix ==
  ASSUME NEW q \in Seq(Frames), NEW r \in Seq(Frames),
         \A i \in DOMAIN r : i \in DOMAIN q /\ r[i] = q[i],
         \A i \in DOMAIN q, j \in DOMAIN r : i < j => i \in DOMAIN r,
         NEW lo, NEW hi, NEW live, NEW err, NEW err2, err2, NEW closed,
         Carries(q, lo, hi, live, err, closed)
  PROVE  Carries(r, lo, hi, live, err2, closed)
  <1>1. Within(r, "data", lo, hi) /\ Ordered(r, "data") /\ FinsLast(r, hi, closed)
    BY DEF Carries, Within, Ordered, FinsLast
  <1>2. ASSUME live PROVE Joined(r, lo)
    BY <1>2 DEF Carries, Joined
  <1> QED
    BY <1>1, <1>2 DEF Carries

\* What the reader had not taken goes with it.
LEMMA CarriesSuffix ==
  ASSUME NEW q \in Seq(Frames), NEW r \in Seq(Frames), NEW n \in Nat,
         \A i \in DOMAIN r : i + n \in DOMAIN q /\ r[i] = q[i + n],
         NEW lo, NEW hi, NEW live, NEW live2, ~live2, NEW err, NEW closed,
         Carries(q, lo, hi, live, err, closed)
  PROVE  Carries(r, lo, hi, live2, err, closed)
  <1>1. Within(r, "data", lo, hi) /\ FinsLast(r, hi, closed)
    BY DEF Carries, Within, FinsLast
  <1>2. Ordered(r, "data")
    <2> SUFFICES ASSUME NEW i \in DOMAIN r, NEW j \in DOMAIN r, i < j,
                        r[i].typ = "data", r[j].typ = "data"
                 PROVE  r[i].off + r[i].len <= r[j].off
      BY DEF Ordered
    <2>1. i + n < j + n
      OBVIOUS
    <2> QED
      BY <2>1 DEF Carries, Ordered
  <1> QED
    BY <1>1, <1>2 DEF Carries

\* The frames q of a writer whose peer has not heard of the stream: the SYN is on its
\* way with or before the first bytes; need says that none was queued.
Opened(q, need) ==
  /\ \A i \in DOMAIN q : q[i].typ = "data" /\ ~q[i].fin =>
       \E j \in DOMAIN q : j <= i /\ q[j].syn
  /\ ~need => \E j \in DOMAIN q : q[j].syn

\* A frame is queued: a SYN, or one that follows it.
LEMMA OpenedAppend ==
  ASSUME NEW q \in Seq(Frames), NEW f \in Frames, NEW need, NEW need2, Opened(q, need),
         f.typ = "data" /\ ~f.fin => f.syn \/ ~need,
         ~need2 => ~need \/ f.syn
  PROVE  Opened(Append(q, f), need2)
  <1> DEFINE r == Append(q, f)
  <1>1. /\ \A i \in DOMAIN q : i \in DOMAIN r /\ r[i] = q[i] /\ i <= Len(q) + 1
        /\ Len(q) + 1 \in DOMAIN r /\ r[Len(q) + 1] = f /\ Len(q) + 1 \in Nat
        /\ \A i \in DOMAIN r : i \in DOMAIN q \/ i = Len(q) + 1
    BY AppendAt
  <1> HIDE DEF r
  <1>2. ASSUME NEW i \in DOMAIN r, r[i].typ = "data", ~r[i].fin
        PROVE  \E j \in DOMAIN r : j <= i /\ r[j].syn
    <2>1. CASE i \in DOMAIN q
      BY <1>1, <1>2, <2>1 DEF Opened
    <2>2. CASE i = Len(q) + 1
      BY <1>1, <1>2, <2>2 DEF Opened
    <2> QED
      BY <1>1, <2>1, <2>2
  <1>3. ~need2 => \E j \in DOMAIN r : r[j].syn
    BY <1>1 DEF Opened
  <1>4. Opened(r, need2)
    BY <1>2, <1>3 DEF Opened
  <1> QED
    BY <1>4 DEF r

\* A frame that is no SYN is lost.
LEMMA OpenedRemoved ==
  ASSUME NEW q \in Seq(Frames), NEW r \in Seq(Frames), NEW k, Removed(q, k, r),
         NEW need, ~q[k].syn, Opened(q, need)
  PROVE  Opened(r, need)
  <1>1. ASSUME NEW i \in DOMAIN r, r[i].typ = "data", ~r[i].fin
        PROVE  \E j \in DOMAIN r : j <= i /\ r[j].syn
    <2>1. PICK m \in DOMAIN q : r[i] = q[m] /\ m \in Nat /\ (i < k => m = i) /\ (i >= k => m = i + 1)
      BY RemovedMap
    <2>2. PICK n \in DOMAIN q : n <= m /\ q[n].syn
      BY <1>1, <2>1 DEF Opened
    <2>3. PICK j \in DOMAIN r : r[j] = q[n] /\ j \in Nat /\ (n < k => j = n) /\ (n > k => j = n - 1)
      BY <2>2, RemovedBack
    <2>4. i \in Nat /\ k \in Nat /\ n \in Nat /\ n # k
      BY <2>2, RemovedAt
    <2>5. j <= i
      BY <2>1, <2>2, <2>3, <2>4
    <2> QED
      BY <2>2, <2>3, <2>5
  <1>2. ~need => \E j \in DOMAIN r : r[j].syn
    BY RemovedBack DEF Opened
  <1> QED
    BY <1>1, <1>2 DEF Opened

\* A frame that is not data is put between the others.
LEMMA OpenedInserted ==
  ASSUME NEW q \in Seq(Frames), NEW r \in Seq(Frames), NEW k, Removed(r, k, q),
         NEW need, r[k].typ # "data", Opened(q, need)
  PROVE  Opened(r, need)
  <1>1. ASSUME NEW i \in DOMAIN r, r[i].typ = "data", ~r[i].fin
        PROVE  \E j \in DOMAIN r : j <= i /\ r[j].syn
    <2>0. i \in Nat /\ k \in Nat /\ i # k
      BY <1>1, RemovedAt
    <2>1. PICK m \in DOMAIN q : q[m] = r[i] /\ m \in Nat /\ (i < k => m = i) /\ (i > k => m = i - 1)
      BY <2>0, RemovedBack
    <2>2. PICK n \in DOMAIN q : n <= m /\ q[n].syn
      BY <1>1, <2>1 DEF Opened
    <2>3. PICK j \in DOMAIN r : q[n] = r[j] /\ j \in Nat /\ (n < k => j = n) /\ (n >= k => j = n + 1)
      <3>1. /\ k \in Nat /\ n \in Nat
            /\ n < k => n \in DOMAIN r /\ q[n] = r[n]
            /\ n >= k => n + 1 \in DOMAIN r /\ q[n] = r[n + 1]
        BY RemovedAt
      <3>2. CASE n < k
        BY <3>1, <3>2
      <3>3. CASE n >= k
        BY <3>1, <3>3
      <3> QED
        BY <3>1, <3>2, <3>3
    <2>4. n \in Nat
      BY RemovedAt
    <2>5. j <= i
      BY <2>0, <2>1, <2>2, <2>3, <2>4
    <2> QED
      BY <2>2, <2>3, <2>5
  <1>2. ~need => \E j \in DOMAIN r : r[j].syn
    BY RemovedMap DEF Opened
  <1> QED
    BY <1>1, <1>2 DEF Opened
----------------------------------------------------------------------------
(* The invariant of one direction, with the reader p and the writer e.     *)

\* What the reader has taken off its channel.
Base(p) == rd[p] + stream[p].readBuf

\* Everything on its way to p.
Chain(p) == toStream[p] \o wire[Peer(p)] \o toSession[Peer(p)]

\* The writer can write no more.
Closed(e) == stream[e].writeClosed \/ stream[e].st = "dropped"

\* The reader goes on.
Live(p) == stream[p].st # "dropped" /\ ~sinkClosed[p]

\* The reader's handle passes no more data on.
NoMore(p) == handle[p].dataWriteClosed \/ handle[p].st = "removed"

NoData(q) == \A i \in DOMAIN q : q[i].typ # "data"

ChainInv(p, e) == Carries(Chain(p), Base(p), sent[e], Live(p), SinkErr(e), Closed(e))

\* A FIN was the last frame with bytes: once it is in the channel no data follows, and
\* once it is taken everything was taken, unless the direction was reset.
EndInv(p, e) ==
  /\ stream[p].dataReadClosed => NoData(toStream[p]) /\ NoMore(p)
  /\ \A i \in DOMAIN toStream[p] : toStream[p][i].fin =>
       NoMore(p) /\ \A j \in DOMAIN toStream[p] : j > i => toStream[p][j].typ # "data"
  /\ stream[p].dataReadClosed /\ ~sinkClosed[p] => Closed(e) /\ Base(p) = sent[e]
  /\ handle[p].st = "removed" => ~Live(p)

\* Before its SYN is read nothing of the other end has happened.
SynInv(p, e) ==
  handle[p].st = "none" =>
    /\ toStream[p] = <<>> /\ wire[p] = <<>> /\ sysq[p] = <<>>
    /\ ~sinkClosed[e]
    /\ Opened(Chain(p), stream[e].needsSyn)

DirInv(p, e) == ChainInv(p, e) /\ EndInv(p, e) /\ SynInv(p, e)

\* The manager's channel carries resets, and a reset is not a FIN.
Plain(p) == \A i \in DOMAIN sysq[p] : sysq[p][i].typ = "rst" /\ ~sysq[p][i].fin

PipeInv == \A p \in Ends : DirInv(p, Peer(p)) /\ Plain(p)

\* No reset, and nothing behind a FIN.
Tidy(q) ==
  /\ \A i \in DOMAIN q : q[i].typ # "rst"
  /\ \A i, j \in DOMAIN q : q[i].fin /\ i < j => q[j].typ # "data"

\* While nobody dropped its Stream there is no reset, and a FIN really is the end.
Quiet(p, e) ==
  /\ ~sinkClosed[p]
  /\ sysq[p] = <<>>
  /\ Tidy(Chain(p))
  /\ handle[p].dataWriteClosed => Closed(e) /\ NoData(wire[e]) /\ NoData(toSession[e])

NobodyDropped == \A e \in Ends : stream[e].st # "dropped"

QuietInv == NobodyDropped => \A p \in Ends : Quiet(p, Peer(p))
----------------------------------------------------------------------------
(* What a step leaves alone.                                               *)

\* The types of what a direction is made of.
LEMMA PipeType ==
  ASSUME TypeOK, NEW p \in Ends
  PROVE  /\ Chain(p) \in Seq(Frames)
         /\ Base(p) \in Nat /\ stream[p].readBuf \in Nat
         /\ stream[p].writeClosed \in BOOLEAN /\ stream[p].dataReadClosed \in BOOLEAN
         /\ sinkClosed[p] \in BOOLEAN /\ handle[p].dataWriteClosed \in BOOLEAN
         /\ stream[p].needsSyn \in BOOLEAN
  <1>1. toStream[p] \in Seq(Frames) /\ wire[Peer(p)] \in Seq(Frames) /\ toSession[Peer(p)] \in Seq(Frames)
    BY Ints, PeerType
  <1>2. stream[p] \in Streams /\ handle[p] \in Handles /\ rd[p] \in Nat
    BY Ints
  <1>3. stream[p].readBuf \in Nat
    BY <1>2 DEF Streams
  <1>4. Chain(p) \in Seq(Frames)
    BY <1>1, ThreeAt DEF Chain
  <1> QED
    BY <1>2, <1>3, <1>4 DEF Base, Streams, Handles, TypeOK

\* The step of one end does not touch what belongs to the other, y.
OtherSame(y) ==
  /\ stream'[y] = stream[y] /\ handle'[y] = handle[y] /\ sinkClosed'[y] = sinkClosed[y]
  /\ toStream'[y] = toStream[y] /\ toSession'[y] = toSession[y] /\ sysq'[y] = sysq[y]
  /\ sent'[y] = sent[y] /\ rd'[y] = rd[y]

\* The end that takes no step.
LEMMA OtherFacts ==
  ASSUME NEW y \in Ends, OtherSame(y)
  PROVE  /\ Base(y)' = Base(y) /\ (Live(y)' <=> Live(y)) /\ (SinkErr(y)' <=> SinkErr(y))
         /\ (Closed(y)' <=> Closed(y)) /\ (NoMore(y)' <=> NoMore(y))
  BY DEF OtherSame, Base, Live, SinkErr, Closed, NoMore

\* The end of a direction whose reader took nothing.
LEMMA EndKept ==
  ASSUME NEW p \in Ends, NEW e \in Ends, EndInv(p, e),
         toStream'[p] = toStream[p], Base(p)' = Base(p),
         Closed(e) => Closed(e)' /\ sent'[e] = sent[e],
         sinkClosed[p] => sinkClosed'[p],
         stream'[p].dataReadClosed = stream[p].dataReadClosed,
         NoMore(p) => NoMore(p)', handle'[p].st = "removed" => ~Live(p)'
  PROVE  EndInv(p, e)'
  <1>1. (stream[p].dataReadClosed => NoData(toStream[p]) /\ NoMore(p))'
    BY DEF EndInv, NoData
  <1>2. (\A i \in DOMAIN toStream[p] : toStream[p][i].fin =>
          NoMore(p) /\ \A j \in DOMAIN toStream[p] : j > i => toStream[p][j].typ # "data")'
    BY DEF EndInv
  <1>3. (stream[p].dataReadClosed /\ ~sinkClosed[p] => Closed(e) /\ Base(p) = sent[e])'
    BY DEF EndInv
  <1> QED
    BY <1>1, <1>2, <1>3 DEF EndInv

\* The reader's side when only its peer x moved.
LEMMA EndOther ==
  ASSUME NEW x \in Ends, NEW y \in Ends, OtherSame(y), EndInv(y, x),
         Closed(x) => Closed(x)' /\ sent'[x] = sent[x]
  PROVE  EndInv(y, x)'
  <1>1. handle'[y].st = "removed" => ~Live(y)'
    BY OtherFacts DEF OtherSame, EndInv
  <1> QED
    BY <1>1, OtherFacts, EndKept DEF OtherSame

\* The frames on the way are left alone.
LEMMA ChainKept ==
  ASSUME NEW p \in Ends, NEW e \in Ends, ChainInv(p, e),
         Chain(p)' = Chain(p), Base(p)' = Base(p), sent'[e] = sent[e],
         Live(p)' => Live(p), SinkErr(e) => SinkErr(e)', Closed(e) => Closed(e)'
  PROVE  ChainInv(p, e)'
  BY CarriesLess DEF ChainInv

\* The first frame is left alone.
LEMMA SynKept ==
  ASSUME NEW p \in Ends, NEW e \in Ends, SynInv(p, e),
         handle'[p].st = "none" => handle[p].st = "none",
         toStream'[p] = toStream[p], wire'[p] = wire[p], sysq'[p] = sysq[p],
         handle[p].st = "none" => ~sinkClosed'[e],
         Chain(p)' = Chain(p), stream'[e].needsSyn = stream[e].needsSyn
  PROVE  SynInv(p, e)'
  BY DEF SynInv, Opened

\* An open stream whose channel is broken was reset.
LEMMA BrokenIsReset ==
  ASSUME NEW p \in Ends, NEW e \in Ends, EndInv(p, e), stream[p].st = "open", SinkErr(p)
  PROVE  sinkClosed[p]
  BY DEF EndInv, SinkErr, Live
----------------------------------------------------------------------------
(* The application's steps.                                                *)

\* handle_frame touches three fields of the Stream.
LEMMA HandledKeeps ==
  ASSUME NEW x \in Ends, NEW f, stream[x] \in Streams, NEW t, t = HandledBy(x, f)
  PROVE  /\ t.st = stream[x].st /\ t.writeClosed = stream[x].writeClosed
         /\ t.needsSyn = stream[x].needsSyn
         /\ t.dataReadClosed = (stream[x].dataReadClosed \/ f.fin)
         /\ t.readBuf = IF f.typ = "data" THEN stream[x].readBuf + f.len ELSE stream[x].readBuf
  <1>1. PICK s, b, r, w : /\ s = stream[x] /\ b = (s.dataReadClosed \/ f.fin)
                          /\ r = IF f.typ = "data" THEN s.readBuf + f.len ELSE s.readBuf
                          /\ w = IF f.typ = "wndinc" THEN WindowInc(x, s.window, f.len) ELSE s.window
    OBVIOUS
  <1>2. t = [s EXCEPT !.dataReadClosed = b, !.readBuf = r, !.window = w]
    BY <1>1, Zenon DEF HandledBy
  <1>3. /\ t.st = s.st /\ t.writeClosed = s.writeClosed /\ t.needsSyn = s.needsSyn
        /\ t.dataReadClosed = b /\ t.readBuf = r
    <2>1. s \in Streams
      BY <1>1
    <2> QED
      BY <1>2, <2>1 DEF Streams
  <1> QED
    BY <1>1, <1>3, Zenon

\* A frame is taken off the channel, or the channel ended.
LEMMA RecvPipe ==
  ASSUME TypeOK, TypeOK', NEW x \in Ends, NEW y \in Ends, y = Peer(x),
         DirInv(x, y), DirInv(y, x), stream[x].st = "open", RecvFrame(x),
         handle[x].st = "none" => stream[x].st = "unborn"
  PROVE  DirInv(x, y)' /\ DirInv(y, x)'
  <1>0. y # x /\ Peer(y) = x /\ x = Peer(y)
    BY PeerType
  <1>1. /\ handle' = handle /\ sinkClosed' = sinkClosed /\ toSession' = toSession /\ sysq' = sysq
        /\ wire' = wire /\ sent' = sent /\ rd' = rd
    BY DEF RecvFrame
  <1>2. OtherSame(y)
    BY <1>0, <1>1 DEF OtherSame, RecvFrame, TypeOK
  <1>3. /\ stream'[x].st = stream[x].st /\ stream'[x].writeClosed = stream[x].writeClosed
        /\ stream'[x].needsSyn = stream[x].needsSyn
    <2>0. stream[x] \in Streams
      BY Ints
    <2>1. CASE toStream[x] # <<>>
      <3>1. stream'[x] = HandledBy(x, Head(toStream[x]))
        BY <2>1 DEF RecvFrame, TypeOK
      <3> QED
        <4>1. PICK t, g : t = stream'[x] /\ g = Head(toStream[x])
          OBVIOUS
        <4>2. t = HandledBy(x, g)
          BY <3>1, <4>1
        <4> QED
          BY <2>0, <4>1, <4>2, HandledKeeps
    <2>2. CASE toStream[x] = <<>>
      <3>1. stream' = [stream EXCEPT ![x].dataReadClosed = TRUE]
        BY <2>2 DEF RecvFrame
      <3>2. stream'[x] = [stream[x] EXCEPT !.dataReadClosed = TRUE]
        BY <3>1 DEF TypeOK
      <3> QED
        BY <2>0, <3>2 DEF Streams
    <2> QED
      BY <2>1, <2>2
  <1>4. /\ (Live(x)' <=> Live(x)) /\ (SinkErr(x)' <=> SinkErr(x)) /\ (Closed(x)' <=> Closed(x))
        /\ (NoMore(x)' <=> NoMore(x))
    BY <1>1, <1>3 DEF Live, SinkErr, Closed, NoMore
  <1>5. Chain(y)' = Chain(y)
    BY <1>0, <1>1, <1>2 DEF Chain, OtherSame
  <1>6. DirInv(y, x)'
    <2>1. ChainInv(y, x)'
      BY <1>1, <1>2, <1>4, <1>5, OtherFacts, ChainKept DEF DirInv
    <2>2. EndInv(y, x)'
      BY <1>1, <1>2, <1>4, EndOther DEF DirInv
    <2>3. SynInv(y, x)'
      BY <1>1, <1>2, <1>3, <1>5, SynKept DEF DirInv, OtherSame, SynInv
    <2> QED
      BY <2>1, <2>2, <2>3 DEF DirInv
  <1>7. SynInv(x, y)'
    BY <1>1 DEF SynInv
  <1>8. CASE toStream[x] = <<>>
    <2>1. InboundClosed(x) /\ toStream' = toStream /\ stream' = [stream EXCEPT ![x].dataReadClosed = TRUE]
      BY <1>8 DEF RecvFrame
    <2>2. Chain(x)' = Chain(x) /\ Base(x)' = Base(x)
      BY <1>1, <2>1 DEF Chain, Base, TypeOK, Streams
    <2>3. ChainInv(x, y)'
      BY <1>1, <1>2, <1>4, <2>2, OtherFacts, ChainKept DEF DirInv
    <2>4. sinkClosed[x] /\ NoMore(x)
      BY <2>1, BrokenIsReset DEF DirInv, SinkErr, InboundClosed, NoMore
    <2>5. EndInv(x, y)'
      <3>1. toStream'[x] = <<>> /\ DOMAIN toStream'[x] = {}
        BY <1>8, <2>1
      <3> QED
        BY <1>1, <1>4, <2>4, <3>1 DEF DirInv, EndInv, NoData
    <2> QED
      BY <1>6, <1>7, <2>3, <2>5 DEF DirInv
  <1>9. CASE toStream[x] # <<>>
    <2> DEFINE f == Head(toStream[x])
    <2>1. /\ toStream[x] \in Seq(Frames) /\ wire[y] \in Seq(Frames) /\ toSession[y] \in Seq(Frames)
          /\ f \in Frames
      BY <1>9, Ints
    <2>2. stream' = [stream EXCEPT ![x] = HandledBy(x, f)] /\ toStream'[x] = Tail(toStream[x])
      BY <1>9 DEF RecvFrame, TypeOK
    <2>3. /\ Chain(x) = toStream[x] \o wire[y] \o toSession[y]
          /\ Chain(x)' = Tail(toStream[x]) \o wire[y] \o toSession[y]
      BY <1>1, <2>2 DEF Chain
    <2>4. Chain(x)' = Tail(Chain(x)) /\ Chain(x) # <<>> /\ Head(Chain(x)) = f
      <3>1. PICK a, b, c : a = toStream[x] /\ b = wire[y] /\ c = toSession[y]
        OBVIOUS
      <3>2. /\ Tail(a) \o b \o c = Tail(a \o b \o c) /\ Head(a \o b \o c) = Head(a)
            /\ a \o b \o c # <<>>
        <4>1. a \in Seq(Frames) /\ b \in Seq(Frames) /\ c \in Seq(Frames) /\ a # <<>>
          BY <1>9, <2>1, <3>1
        <4> QED
          BY <4>1, TailFirst
      <3> QED
        BY <2>3, <3>1, <3>2, Zenon
    <2>5. /\ stream'[x].readBuf = IF f.typ = "data" THEN stream[x].readBuf + f.len ELSE stream[x].readBuf
          /\ stream'[x].dataReadClosed = (stream[x].dataReadClosed \/ f.fin)
      <3>1. stream[x] \in Streams /\ stream'[x] = HandledBy(x, f)
        BY <2>2, Ints DEF TypeOK
      <3> QED
        <4>1. PICK t, g : t = stream'[x] /\ g = f
          OBVIOUS
        <4>2. t = HandledBy(x, g)
          BY <3>1, <4>1
        <4>3. /\ t.readBuf = IF g.typ = "data" THEN stream[x].readBuf + g.len ELSE stream[x].readBuf
              /\ t.dataReadClosed = (stream[x].dataReadClosed \/ g.fin)
          BY <3>1, <4>2, HandledKeeps
        <4> QED
          BY <4>1, <4>3, Zenon
    <2>6. Base(x)' = IF f.typ = "data" THEN Base(x) + f.len ELSE Base(x)
      <3>1. rd[x] \in Nat /\ stream[x].readBuf \in Nat /\ f.len \in Nat
        BY <2>1, Ints, PipeType, FrameNat
      <3> QED
        BY <1>1, <2>5, <3>1 DEF Base
    <2>7. /\ Carries(Tail(Chain(x)), Base(x)', sent[y], Live(x), SinkErr(y), Closed(y))
          /\ Live(x) /\ f.fin => Closed(y) /\ f.typ = "data" /\ Base(x)' = sent[y]
      <3>0. Carries(Chain(x), Base(x), sent[y], Live(x), SinkErr(y), Closed(y))
        BY DEF DirInv, ChainInv
      <3>1. PICK lo2 : lo2 = Base(x)'
        OBVIOUS
      <3>2. Base(x) \in Int /\ sent[y] \in Int /\ Chain(x) \in Seq(Frames) /\ f.len \in Int
        BY <2>1, Ints, PipeType, FrameNat
      <3>6. lo2 \in Int
        BY <2>6, <3>1, <3>2
      <3>3. lo2 = IF Head(Chain(x)).typ = "data" THEN Base(x) + Head(Chain(x)).len ELSE Base(x)
        BY <2>4, <2>6, <3>1, Zenon
      <3>4. PICK q : q = Chain(x)
        OBVIOUS
      <3>5. /\ Carries(Tail(q), lo2, sent[y], Live(x), SinkErr(y), Closed(y))
            /\ Live(x) /\ Head(q).fin => Closed(y) /\ Head(q).typ = "data" /\ lo2 = sent[y]
        BY <2>4, <3>0, <3>2, <3>3, <3>4, <3>6, CarriesTail
      <3> QED
        BY <2>4, <3>1, <3>4, <3>5
    <2>8. ChainInv(x, y)'
      <3>1. Carries(Tail(Chain(x)), Base(x)', sent[y], Live(x)', SinkErr(y)', Closed(y)')
        BY <1>2, <1>4, <2>7, OtherFacts, CarriesLess
      <3>2. sent'[y] = sent[y]
        BY <1>1
      <3> QED
        BY <2>4, <3>1, <3>2 DEF ChainInv
    <2>9. EndInv(x, y)'
      <3> HIDE DEF f
      <3>0. /\ \A i \in DOMAIN toStream'[x] : i \in Nat /\ i >= 1 /\ i + 1 \in DOMAIN toStream[x]
                                             /\ toStream'[x][i] = toStream[x][i + 1]
            /\ f = toStream[x][1] /\ 1 \in DOMAIN toStream[x]
        BY <1>9, <2>1, <2>2, TailAt DEF f
      <3>1. f.fin => NoMore(x) /\ NoData(toStream'[x])
        <4> SUFFICES ASSUME f.fin PROVE NoMore(x) /\ NoData(toStream'[x])
          OBVIOUS
        <4>1. NoMore(x) /\ \A j \in DOMAIN toStream[x] : j > 1 => toStream[x][j].typ # "data"
          BY <3>0 DEF DirInv, EndInv
        <4> QED
          BY <3>0, <4>1 DEF NoData
      <3>2. stream[x].dataReadClosed => NoMore(x) /\ NoData(toStream[x]) /\ NoData(toStream'[x])
        BY <3>0 DEF DirInv, EndInv, NoData
      <3>3. stream'[x].dataReadClosed => NoMore(x)' /\ NoData(toStream'[x])
        BY <1>4, <2>5, <3>1, <3>2
      <3>4. \A i \in DOMAIN toStream'[x] : toStream'[x][i].fin =>
              NoMore(x)' /\ \A j \in DOMAIN toStream'[x] : j > i => toStream'[x][j].typ # "data"
        <4> SUFFICES ASSUME NEW i \in DOMAIN toStream'[x], toStream'[x][i].fin,
                            NEW j \in DOMAIN toStream'[x]
                     PROVE  NoMore(x)' /\ (j > i => toStream'[x][j].typ # "data")
          OBVIOUS
        <4>1. i + 1 \in DOMAIN toStream[x] /\ toStream[x][i + 1].fin
              /\ j + 1 \in DOMAIN toStream[x] /\ toStream'[x][j] = toStream[x][j + 1]
              /\ (j > i => j + 1 > i + 1)
          BY <3>0
        <4> QED
          BY <1>4, <4>1 DEF DirInv, EndInv
      <3>5. stream'[x].dataReadClosed /\ ~sinkClosed'[x] => Closed(y)' /\ Base(x)' = sent'[y]
        <4> SUFFICES ASSUME stream'[x].dataReadClosed, ~sinkClosed'[x]
                     PROVE  Closed(y)' /\ Base(x)' = sent'[y]
          OBVIOUS
        <4>1. Live(x) /\ sent'[y] = sent[y]
          BY <1>1 DEF Live
        <4>2. CASE f.fin
          BY <1>2, <2>7, <4>1, <4>2, OtherFacts DEF f
        <4>3. CASE ~f.fin
          <5>1. stream[x].dataReadClosed
            BY <2>5, <4>3 DEF f
          <5>2. f.typ # "data"
            BY <3>0, <3>2, <5>1 DEF NoData
          <5>3. Closed(y) /\ Base(x) = sent[y]
            BY <1>1, <5>1 DEF DirInv, EndInv
          <5> QED
            BY <1>2, <2>6, <4>1, <5>2, <5>3, OtherFacts DEF f
        <4> QED
          BY <4>2, <4>3
      <3>6. handle'[x].st = "removed" => ~Live(x)'
        BY <1>1, <1>4 DEF DirInv, EndInv
      <3> QED
        BY <3>3, <3>4, <3>5, <3>6 DEF EndInv
    <2> QED
      BY <1>6, <1>7, <2>8, <2>9 DEF DirInv
  <1> QED
    BY <1>8, <1>9

\* The direction x reads when x neither takes a frame nor loses one.
LEMMA OwnKept ==
  ASSUME NEW x \in Ends, NEW y \in Ends, y = Peer(x), DirInv(x, y), OtherSame(y),
         toStream'[x] = toStream[x], wire'[y] = wire[y], Base(x)' = Base(x),
         sinkClosed[x] => sinkClosed'[x], Live(x)' => Live(x),
         stream'[x].dataReadClosed = stream[x].dataReadClosed,
         NoMore(x) => NoMore(x)', handle'[x].st = "removed" => ~Live(x)', handle'[x].st # "none"
  PROVE  DirInv(x, y)'
  <1>1. Chain(x)' = Chain(x)
    BY DEF Chain, OtherSame
  <1>2. ChainInv(x, y)'
    BY <1>1, OtherFacts, ChainKept DEF DirInv, OtherSame
  <1>3. EndInv(x, y)'
    BY OtherFacts, EndKept DEF DirInv, OtherSame
  <1>4. SynInv(x, y)'
    BY DEF SynInv
  <1> QED
    BY <1>2, <1>3, <1>4 DEF DirInv

\* The direction x writes when x queues and sends nothing.
LEMMA WrittenKept ==
  ASSUME NEW x \in Ends, NEW y \in Ends, x = Peer(y), DirInv(y, x), OtherSame(y),
         Chain(y)' = Chain(y), wire'[y] = wire[y], sent'[x] = sent[x],
         SinkErr(x) => SinkErr(x)', Closed(x) => Closed(x)',
         handle[y].st = "none" => ~sinkClosed'[x],
         stream'[x].needsSyn = stream[x].needsSyn
  PROVE  DirInv(y, x)'
  <1>1. ChainInv(y, x)'
    BY OtherFacts, ChainKept DEF DirInv
  <1>2. EndInv(y, x)'
    BY EndOther DEF DirInv
  <1>3. SynInv(y, x)'
    BY SynKept DEF DirInv, OtherSame
  <1> QED
    BY <1>1, <1>2, <1>3 DEF DirInv

\* The direction x writes when the frame f goes to its end.
LEMMA WrittenMore ==
  ASSUME TypeOK, NEW x \in Ends, NEW y \in Ends, x = Peer(y), DirInv(y, x), OtherSame(y),
         NEW f \in Frames, Chain(y)' = Append(Chain(y), f), wire'[y] = wire[y],
         f.typ = "data" => f.off = sent[x] /\ sent'[x] = sent[x] + f.len /\ ~SinkErr(x),
         f.typ # "data" => sent'[x] = sent[x] /\ ~f.fin,
         f.fin => f.len = 0 /\ Closed(x)',
         Closed(x) => Closed(x)' /\ sent'[x] = sent[x], SinkErr(x) => SinkErr(x)',
         sinkClosed'[x] => sinkClosed[x],
         f.typ = "data" /\ ~f.fin => f.syn \/ ~stream[x].needsSyn,
         ~stream'[x].needsSyn => ~stream[x].needsSyn \/ f.syn
  PROVE  DirInv(y, x)'
  <1>0. /\ Chain(y) \in Seq(Frames) /\ Base(y) \in Int /\ sent[x] \in Int /\ f.len \in Nat
    BY PipeType, Ints, FrameNat
  <1>1. ChainInv(y, x)'
    <2>1. PICK q, lo, hi2, err2, closed2 :
            q = Chain(y) /\ lo = Base(y) /\ hi2 = sent'[x] /\ err2 = SinkErr(x)' /\ closed2 = Closed(x)'
      OBVIOUS
    <2>2. Carries(q, lo, sent[x], Live(y), SinkErr(x), Closed(x))
      BY <2>1 DEF DirInv, ChainInv
    <2>3. hi2 \in Int
      BY <1>0, <2>1
    <2>4. /\ f.typ = "data" => f.off = sent[x] /\ hi2 = sent[x] + f.len /\ ~SinkErr(x)
          /\ f.typ # "data" => hi2 = sent[x] /\ ~f.fin
          /\ f.fin => f.len = 0 /\ closed2
          /\ hi2 # sent[x] => ~Closed(x)
          /\ Closed(x) => closed2
          /\ SinkErr(x) => err2
      BY <2>1
    <2>5. Carries(Append(q, f), lo, hi2, Live(y), err2, closed2)
      BY <1>0, <2>1, <2>2, <2>3, <2>4, CarriesAppend
    <2>6. Base(y)' = Base(y) /\ (Live(y)' <=> Live(y))
      BY OtherFacts
    <2>7. Carries(Append(q, f), lo, hi2, Live(y)', err2, closed2)
      BY <2>5, <2>6, CarriesLess
    <2> QED
      BY <2>1, <2>6, <2>7 DEF ChainInv
  <1>2. EndInv(y, x)'
    BY EndOther DEF DirInv
  <1>3. SynInv(y, x)'
    <2> SUFFICES ASSUME handle'[y].st = "none"
                 PROVE  /\ toStream'[y] = <<>> /\ wire'[y] = <<>> /\ sysq'[y] = <<>>
                        /\ ~sinkClosed'[x]
                        /\ Opened(Chain(y), stream[x].needsSyn)'
      BY DEF SynInv
    <2>1. /\ toStream[y] = <<>> /\ wire[y] = <<>> /\ sysq[y] = <<>> /\ ~sinkClosed[x]
          /\ Opened(Chain(y), stream[x].needsSyn)
      BY DEF DirInv, SynInv, OtherSame
    <2>2. PICK q, need2 : q = Chain(y) /\ need2 = stream'[x].needsSyn
      OBVIOUS
    <2>3. Opened(Append(q, f), need2)
      BY <1>0, <2>1, <2>2, OpenedAppend
    <2>4. Opened(Chain(y), stream[x].needsSyn)'
      BY <2>2, <2>3 DEF Opened
    <2> QED
      BY <2>1, <2>4 DEF OtherSame
  <1> QED
    BY <1>1, <1>2, <1>3 DEF DirInv

\* A frame queued by x is the last of the direction it writes.
LEMMA QueuedLast ==
  ASSUME TypeOK, NEW x \in Ends, NEW y \in Ends, x = Peer(y), OtherSame(y), NEW f \in Frames,
         toSession'[x] = Append(toSession[x], f), wire'[x] = wire[x]
  PROVE  Chain(y)' = Append(Chain(y), f)
  <1>1. PICK a, b, c : a = toStream[y] /\ b = wire[x] /\ c = toSession[x]
    OBVIOUS
  <1>2. a \in Seq(Frames) /\ b \in Seq(Frames) /\ c \in Seq(Frames)
    BY <1>1, Ints
  <1>3. a \o b \o Append(c, f) = Append(a \o b \o c, f)
    BY <1>2, AppendLast
  <1> QED
    BY <1>1, <1>3 DEF Chain, OtherSame

\* Bytes are handed to the application and their increment is queued.
LEMMA ReadPipe ==
  ASSUME TypeOK, TypeOK', NEW x \in Ends, NEW y \in Ends, y = Peer(x),
         DirInv(x, y), DirInv(y, x), handle[x].st = "none" => stream[x].st = "unborn",
         NEW n \in ReadSizes, Read(x, n)
  PROVE  DirInv(x, y)' /\ DirInv(y, x)'
  <1> DEFINE k == LesserOf(stream[x].readBuf, n)
  <1>0. y # x /\ x = Peer(y)
    BY PeerType
  <1>1. k \in Nat /\ stream[x].readBuf - k \in Nat /\ rd[x] \in Nat /\ stream[x].readBuf \in Nat
    <2>1. rd[x] \in Nat /\ stream[x].readBuf \in Nat
      BY Ints, PipeType
    <2> QED
      BY <2>1, BoundAssumption DEF LesserOf
  <1>2. /\ handle' = handle /\ toStream' = toStream /\ sysq' = sysq /\ wire' = wire /\ sent' = sent
        /\ stream[x].st = "open"
    BY DEF Read
  <1>3. stream' = [stream EXCEPT ![x].readBuf = stream[x].readBuf - k] /\ rd' = [rd EXCEPT ![x] = rd[x] + k]
    BY DEF Read
  <1>4. \/ SinkErr(x) /\ sinkClosed' = [sinkClosed EXCEPT ![x] = TRUE] /\ toSession' = toSession
        \/ ~SinkErr(x) /\ toSession' = [toSession EXCEPT ![x] = Append(@, WndInc(rd[x], k))] /\ sinkClosed' = sinkClosed
    BY DEF Read
  <1>k. WndInc(rd[x], k) \in Frames
    BY <1>1, WndIncType
  <1> HIDE DEF k
  <1>5. OtherSame(y)
    BY <1>0, <1>2, <1>3, <1>4 DEF OtherSame, TypeOK
  <1>6. /\ stream'[x].st = stream[x].st /\ stream'[x].writeClosed = stream[x].writeClosed
        /\ stream'[x].dataReadClosed = stream[x].dataReadClosed
        /\ stream'[x].needsSyn = stream[x].needsSyn
        /\ stream'[x].readBuf = stream[x].readBuf - k
        /\ rd'[x] = rd[x] + k
    BY <1>3 DEF TypeOK, Streams
  <1>7. Base(x)' = Base(x)
    BY <1>1, <1>6 DEF Base
  <1>8. /\ Live(x)' => Live(x)
        /\ sinkClosed[x] => sinkClosed'[x]
        /\ (NoMore(x)' <=> NoMore(x)) /\ (Closed(x)' <=> Closed(x))
        /\ SinkErr(x) => SinkErr(x)'
    BY <1>2, <1>4, <1>6 DEF Live, NoMore, Closed, SinkErr, TypeOK
  <1>9. handle'[x].st = "removed" => ~Live(x)'
    BY <1>2, <1>8 DEF DirInv, EndInv
  <1>10. DirInv(x, y)'
    <2>1. handle'[x].st # "none"
      BY <1>2
    <2> QED
      BY <1>2, <1>5, <1>6, <1>7, <1>8, <1>9, <2>1, OwnKept
  <1>11. CASE SinkErr(x)
    <2>1. sinkClosed[x]
      BY <1>2, <1>11, BrokenIsReset DEF DirInv
    <2>2. toSession' = toSession
      BY <1>4, <1>11
    <2>3. Chain(y)' = Chain(y)
      BY <1>2, <2>2 DEF Chain
    <2>4. handle[y].st = "none" => ~sinkClosed'[x]
      BY <2>1 DEF DirInv, SynInv
    <2>5. DirInv(y, x)'
      BY <1>0, <1>2, <1>5, <1>6, <1>8, <2>3, <2>4, WrittenKept
    <2> QED
      BY <1>10, <2>5
  <1>12. CASE ~SinkErr(x)
    <2>1. PICK f : f = WndInc(rd[x], k)
      OBVIOUS
    <2>2. f \in Frames /\ f.typ = "wndinc" /\ f.fin = FALSE /\ f.syn = FALSE
      BY <1>k, <2>1 DEF WndInc, Frame
    <2>3. toSession'[x] = Append(toSession[x], f) /\ sinkClosed' = sinkClosed
      BY <1>4, <1>12, <2>1 DEF TypeOK
    <2>4. Chain(y)' = Append(Chain(y), f)
      BY <1>0, <1>2, <1>5, <2>2, <2>3, QueuedLast
    <2>5. sent'[x] = sent[x] /\ wire'[y] = wire[y]
      BY <1>2
    <2>6. DirInv(y, x)'
      BY <1>0, <1>5, <1>6, <1>8, <2>2, <2>3, <2>4, <2>5, WrittenMore
    <2> QED
      BY <1>10, <2>6
  <1> QED
    BY <1>11, <1>12

\* Bytes are queued, with the SYN when they are the first.
LEMMA WritePipe ==
  ASSUME TypeOK, TypeOK', NEW x \in Ends, NEW y \in Ends, y = Peer(x),
         DirInv(x, y), DirInv(y, x), handle[x].st = "none" => stream[x].st = "unborn",
         NEW n \in WriteSizes, Write(x, n)
  PROVE  DirInv(x, y)' /\ DirInv(y, x)'
  <1> DEFINE k == LesserOf(stream[x].window, n)
  <1>0. y # x /\ x = Peer(y)
    BY PeerType
  <1>1. k \in Nat /\ sent[x] \in Nat /\ stream[x].needsSyn \in BOOLEAN
    BY Ints, PipeType, BoundAssumption DEF LesserOf
  <1>2. /\ handle' = handle /\ toStream' = toStream /\ sysq' = sysq /\ wire' = wire
        /\ sinkClosed' = sinkClosed /\ rd' = rd
        /\ stream[x].st = "open" /\ ~stream[x].writeClosed /\ ~SinkErr(x)
    BY DEF Write, MayWrite
  <1>3. /\ stream' = [stream EXCEPT ![x].window = stream[x].window - k, ![x].needsSyn = FALSE]
        /\ sent' = [sent EXCEPT ![x] = sent[x] + k]
        /\ toSession' = [toSession EXCEPT ![x] = Append(@, Data(stream[x].needsSyn, sent[x], k))]
    BY DEF Write
  <1>k. Data(stream[x].needsSyn, sent[x], k) \in Frames
    BY <1>1, DataType
  <1> HIDE DEF k
  <1>5. OtherSame(y)
    BY <1>0, <1>2, <1>3 DEF OtherSame, TypeOK
  <1>6. /\ stream'[x].st = stream[x].st /\ stream'[x].writeClosed = stream[x].writeClosed
        /\ stream'[x].dataReadClosed = stream[x].dataReadClosed
        /\ stream'[x].readBuf = stream[x].readBuf
    BY <1>3 DEF TypeOK, Streams
  <1>7. Base(x)' = Base(x) /\ (Live(x)' <=> Live(x)) /\ (NoMore(x)' <=> NoMore(x))
        /\ (SinkErr(x)' <=> SinkErr(x)) /\ ~Closed(x)
    BY <1>2, <1>6 DEF Base, Live, NoMore, SinkErr, Closed
  <1>8. DirInv(x, y)'
    <2>1. handle'[x].st # "none" /\ (handle'[x].st = "removed" => ~Live(x)')
      BY <1>2, <1>7 DEF DirInv, EndInv
    <2> QED
      BY <1>2, <1>5, <1>6, <1>7, <2>1, OwnKept
  <1>9. DirInv(y, x)'
    <2>1. PICK f : f = Data(stream[x].needsSyn, sent[x], k)
      OBVIOUS
    <2>2. /\ f \in Frames /\ f.typ = "data" /\ f.fin = FALSE /\ f.syn = stream[x].needsSyn
          /\ f.off = sent[x] /\ f.len = k
      BY <1>k, <2>1 DEF Data, Frame
    <2>3. toSession'[x] = Append(toSession[x], f)
      BY <1>3, <2>1 DEF TypeOK
    <2>4. Chain(y)' = Append(Chain(y), f)
      BY <1>0, <1>2, <1>5, <2>2, <2>3, QueuedLast
    <2>5. sent'[x] = sent[x] + f.len /\ wire'[y] = wire[y]
      BY <1>2, <1>3, <2>2 DEF TypeOK
    <2> QED
      BY <1>0, <1>1, <1>2, <1>5, <1>7, <2>2, <2>4, <2>5, WrittenMore
  <1> QED
    BY <1>8, <1>9

\* A write, a flush or a shutdown finds the sink closed.
LEMMA SinkFailedPipe ==
  ASSUME TypeOK, TypeOK', NEW x \in Ends, NEW y \in Ends, y = Peer(x),
         DirInv(x, y), DirInv(y, x), handle[x].st = "none" => stream[x].st = "unborn",
         stream[x].st = "open", SinkFailed(x)
  PROVE  DirInv(x, y)' /\ DirInv(y, x)'
  <1>0. y # x /\ x = Peer(y)
    BY PeerType
  <1>1. sinkClosed[x]
    BY BrokenIsReset DEF DirInv, SinkFailed
  <1>2. /\ handle' = handle /\ toStream' = toStream /\ sysq' = sysq /\ wire' = wire
        /\ toSession' = toSession /\ rd' = rd /\ sent' = sent
        /\ sinkClosed' = [sinkClosed EXCEPT ![x] = TRUE]
        /\ stream' = [stream EXCEPT ![x].writeClosed = TRUE]
    BY DEF SinkFailed
  <1>5. OtherSame(y)
    BY <1>0, <1>2 DEF OtherSame, TypeOK
  <1>6. /\ stream'[x].st = stream[x].st /\ stream'[x].writeClosed = TRUE
        /\ stream'[x].dataReadClosed = stream[x].dataReadClosed
        /\ stream'[x].readBuf = stream[x].readBuf /\ stream'[x].needsSyn = stream[x].needsSyn
        /\ sinkClosed'[x] = TRUE
    BY <1>2 DEF TypeOK, Streams
  <1>7. Base(x)' = Base(x) /\ ~Live(x)' /\ (NoMore(x)' <=> NoMore(x)) /\ SinkErr(x)' /\ Closed(x)'
    BY <1>2, <1>6 DEF Base, Live, NoMore, SinkErr, Closed
  <1>8. DirInv(x, y)'
    BY <1>2, <1>5, <1>6, <1>7, OwnKept
  <1>9. DirInv(y, x)'
    <2>1. Chain(y)' = Chain(y)
      BY <1>2 DEF Chain
    <2>2. handle[y].st = "none" => ~sinkClosed'[x]
      BY <1>1 DEF DirInv, SynInv
    <2> QED
      BY <1>0, <1>2, <1>5, <1>6, <1>7, <2>1, <2>2, WrittenKept
  <1> QED
    BY <1>8, <1>9

\* The FIN is queued.
LEMMA ShutdownPipe ==
  ASSUME TypeOK, TypeOK', NEW x \in Ends, NEW y \in Ends, y = Peer(x),
         DirInv(x, y), DirInv(y, x), handle[x].st = "none" => stream[x].st = "unborn",
         Shutdown(x)
  PROVE  DirInv(x, y)' /\ DirInv(y, x)'
  <1>0. y # x /\ x = Peer(y) /\ stream[x].st = "open"
    BY PeerType DEF Shutdown
  <1>1. CASE SinkFailed(x)
    BY <1>0, <1>1, SinkFailedPipe
  <1>2. CASE ~SinkFailed(x)
    <2>2. /\ handle' = handle /\ toStream' = toStream /\ sysq' = sysq /\ wire' = wire
          /\ sinkClosed' = sinkClosed /\ rd' = rd /\ sent' = sent
          /\ ~SinkErr(x)
          /\ toSession' = [toSession EXCEPT ![x] = Append(@, Fin(sent[x]))]
          /\ stream' = [stream EXCEPT ![x].writeClosed = TRUE]
      BY <1>2 DEF Shutdown
    <2>5. OtherSame(y)
      BY <1>0, <2>2 DEF OtherSame, TypeOK
    <2>6. /\ stream'[x].st = stream[x].st /\ stream'[x].writeClosed = TRUE
          /\ stream'[x].dataReadClosed = stream[x].dataReadClosed
          /\ stream'[x].readBuf = stream[x].readBuf /\ stream'[x].needsSyn = stream[x].needsSyn
      BY <2>2 DEF TypeOK, Streams
    <2>7. Base(x)' = Base(x) /\ (Live(x)' <=> Live(x)) /\ (NoMore(x)' <=> NoMore(x))
          /\ (SinkErr(x)' <=> SinkErr(x)) /\ Closed(x)'
      BY <2>2, <2>6 DEF Base, Live, NoMore, SinkErr, Closed
    <2>8. DirInv(x, y)'
      <3>1. handle'[x].st # "none" /\ (handle'[x].st = "removed" => ~Live(x)')
        BY <1>0, <2>2, <2>7 DEF DirInv, EndInv
      <3> QED
        BY <2>2, <2>5, <2>6, <2>7, <3>1, OwnKept
    <2>9. DirInv(y, x)'
      <3>1. PICK f : f = Fin(sent[x])
        OBVIOUS
      <3>2. f \in Frames /\ f.typ = "data" /\ f.fin = TRUE /\ f.off = sent[x] /\ f.len = 0 /\ sent[x] \in Nat
        <4>1. sent[x] \in Nat
          BY Ints
        <4> QED
          BY <3>1, <4>1, FinType DEF Fin, Frame
      <3>3. toSession'[x] = Append(toSession[x], f)
        BY <2>2, <3>1 DEF TypeOK
      <3>4. Chain(y)' = Append(Chain(y), f)
        BY <1>0, <2>2, <2>5, <3>2, <3>3, QueuedLast
      <3>5. sent'[x] = sent[x] + f.len /\ sent'[x] = sent[x] /\ wire'[y] = wire[y]
        BY <2>2, <3>2
      <3> QED
        BY <1>0, <2>2, <2>5, <2>6, <2>7, <3>2, <3>4, <3>5, WrittenMore
    <2> QED
      BY <2>8, <2>9
  <1> QED
    BY <1>1, <1>2

\* The Stream goes, and with it what it had not taken.
LEMMA DropPipe ==
  ASSUME TypeOK, TypeOK', NEW x \in Ends, NEW y \in Ends, y = Peer(x),
         DirInv(x, y), DirInv(y, x), handle[x].st = "none" => stream[x].st = "unborn",
         DropStream(x)
  PROVE  DirInv(x, y)' /\ DirInv(y, x)'
  <1>0. y # x /\ x = Peer(y) /\ stream[x].st = "open"
    BY PeerType DEF DropStream
  <1>2. /\ handle' = handle /\ toSession' = toSession /\ sysq' = sysq /\ wire' = wire
        /\ sinkClosed' = sinkClosed /\ rd' = rd /\ sent' = sent
        /\ stream' = [stream EXCEPT ![x].st = "dropped"]
        /\ toStream' = [toStream EXCEPT ![x] = <<>>]
    BY DEF DropStream
  <1>5. OtherSame(y)
    BY <1>0, <1>2 DEF OtherSame, TypeOK
  <1>6. /\ stream'[x].st = "dropped" /\ stream'[x].writeClosed = stream[x].writeClosed
        /\ stream'[x].dataReadClosed = stream[x].dataReadClosed
        /\ stream'[x].readBuf = stream[x].readBuf /\ stream'[x].needsSyn = stream[x].needsSyn
        /\ toStream'[x] = <<>>
    BY <1>2 DEF TypeOK, Streams
  <1>7. Base(x)' = Base(x) /\ ~Live(x)' /\ (NoMore(x)' <=> NoMore(x))
        /\ (SinkErr(x)' <=> SinkErr(x)) /\ Closed(x)'
    BY <1>2, <1>6 DEF Base, Live, NoMore, SinkErr, Closed
  <1>8. ChainInv(x, y)'
    <2>1. PICK a, b, c : a = toStream[x] /\ b = wire[y] /\ c = toSession[y]
      OBVIOUS
    <2>2. a \in Seq(Frames) /\ b \in Seq(Frames) /\ c \in Seq(Frames) /\ Len(a) \in Nat
      BY <2>1, Ints
    <2>3. PICK q, r : q = a \o b \o c /\ r = <<>> \o b \o c
      OBVIOUS
    <2>4. /\ q \in Seq(Frames) /\ r \in Seq(Frames)
          /\ \A i \in DOMAIN r : i + Len(a) \in DOMAIN q /\ r[i] = q[i + Len(a)]
      BY <2>2, <2>3
    <2>5. q = Chain(x) /\ r = Chain(x)'
      BY <1>2, <1>6, <2>1, <2>3 DEF Chain
    <2>6. Carries(q, Base(x), sent[y], Live(x), SinkErr(y), Closed(y))
      BY <2>5 DEF DirInv, ChainInv
    <2>0. PICK no : no = Live(x)'
      OBVIOUS
    <2>7. Carries(r, Base(x), sent[y], no, SinkErr(y), Closed(y))
      BY <1>7, <2>0, <2>2, <2>4, <2>6, CarriesSuffix
    <2>8. Carries(r, Base(x), sent[y], Live(x)', SinkErr(y)', Closed(y)')
      BY <1>5, <2>0, <2>7, OtherFacts, CarriesLess
    <2> QED
      BY <1>2, <1>7, <2>5, <2>8 DEF ChainInv
  <1>9. EndInv(x, y)'
    <2>1. DOMAIN toStream'[x] = {}
      BY <1>6
    <2>2. stream'[x].dataReadClosed /\ ~sinkClosed'[x] => Closed(y)' /\ Base(x)' = sent'[y]
      BY <1>2, <1>5, <1>6, <1>7, OtherFacts DEF DirInv, EndInv
    <2>3. stream'[x].dataReadClosed => NoMore(x)'
      BY <1>6, <1>7 DEF DirInv, EndInv
    <2> QED
      BY <1>7, <2>1, <2>2, <2>3 DEF EndInv, NoData
  <1>10. SynInv(x, y)'
    BY <1>0, <1>2 DEF SynInv
  <1>11. DirInv(y, x)'
    <2>1. Chain(y)' = Chain(y)
      BY <1>0, <1>2, <1>5 DEF Chain, OtherSame
    <2>2. handle[y].st = "none" => ~sinkClosed'[x]
      BY <1>2 DEF DirInv, SynInv
    <2> QED
      BY <1>0, <1>2, <1>5, <1>6, <1>7, <2>1, <2>2, WrittenKept
  <1> QED
    BY <1>8, <1>9, <1>10, <1>11 DEF DirInv
----------------------------------------------------------------------------
(* The writer task.                                                        *)

\* A reset goes before what is queued.
LEMMA SendSysPipe ==
  ASSUME TypeOK, TypeOK', NEW x \in Ends, NEW y \in Ends, y = Peer(x),
         DirInv(x, y), DirInv(y, x), Plain(x), SendSys(x)
  PROVE  DirInv(x, y)' /\ DirInv(y, x)'
  <1>0. y # x /\ x = Peer(y)
    BY PeerType
  <1>1. PICK f : f = Head(sysq[x])
    OBVIOUS
  <1>2. /\ handle' = handle /\ toSession' = toSession /\ stream' = stream /\ toStream' = toStream
        /\ sinkClosed' = sinkClosed /\ rd' = rd /\ sent' = sent
        /\ sysq[x] # <<>>
        /\ wire' = [wire EXCEPT ![x] = Append(@, f)]
        /\ sysq' = [sysq EXCEPT ![x] = Tail(@)]
    BY <1>1 DEF SendSys, Transmit
  <1>3. f \in Frames /\ f.typ = "rst" /\ ~f.fin
    <2>1. sysq[x] \in Seq(Frames)
      BY Ints
    <2>2. 1 \in DOMAIN sysq[x] /\ f = sysq[x][1]
      BY <1>1, <1>2, <2>1, TailAt
    <2>3. f \in Frames
      BY <2>1, <2>2
    <2> QED
      BY <2>2, <2>3 DEF Plain
  <1>5. OtherSame(y) /\ wire'[y] = wire[y] /\ wire'[x] = Append(wire[x], f)
    BY <1>0, <1>2 DEF OtherSame, TypeOK
  <1>7. Base(x)' = Base(x) /\ (Live(x)' <=> Live(x)) /\ (NoMore(x)' <=> NoMore(x))
        /\ (SinkErr(x)' <=> SinkErr(x)) /\ (Closed(x)' <=> Closed(x))
    BY <1>2 DEF Base, Live, NoMore, SinkErr, Closed
  <1>8. DirInv(x, y)'
    <2>1. handle'[x].st # "none" /\ (handle'[x].st = "removed" => ~Live(x)')
      BY <1>2, <1>7 DEF DirInv, EndInv, SynInv
    <2> QED
      BY <1>2, <1>5, <1>7, <2>1, OwnKept
  <1>9. DirInv(y, x)'
    <2>1. PICK a, b, c : a = toStream[y] /\ b = wire[x] /\ c = toSession[x]
      OBVIOUS
    <2>2. a \in Seq(Frames) /\ b \in Seq(Frames) /\ c \in Seq(Frames) /\ Append(b, f) \in Seq(Frames)
      BY <1>3, <2>1, Ints, AppendAt
    <2>3. PICK q, r, k : q = a \o b \o c /\ r = a \o Append(b, f) \o c /\ k = Len(a) + Len(b) + 1
      OBVIOUS
    <2>4. q \in Seq(Frames) /\ r \in Seq(Frames)
      BY <2>2, <2>3, ThreeAt
    <2>5. Removed(r, k, q) /\ r[k] = f
      BY <1>3, <2>2, <2>3, InsertMid
    <2>6. q = Chain(y) /\ r = Chain(y)'
      BY <1>0, <1>2, <1>5, <2>1, <2>3 DEF Chain, OtherSame
    <2>7. ChainInv(y, x)'
      <3>1. Carries(q, Base(y), sent[x], Live(y), SinkErr(x), Closed(x))
        BY <2>6 DEF DirInv, ChainInv
      <3>2. Base(y) \in Int /\ sent[x] \in Int
        BY PipeType, Ints
      <3>3. Carries(r, Base(y), sent[x], Live(y), SinkErr(x), Closed(x))
        BY <1>3, <2>4, <2>5, <3>1, <3>2, CarriesInserted
      <3>4. Carries(r, Base(y), sent[x], Live(y)', SinkErr(x)', Closed(x)')
        BY <1>5, <1>7, <3>3, OtherFacts, CarriesLess
      <3>5. Base(y)' = Base(y) /\ sent'[x] = sent[x]
        BY <1>2, <1>5, OtherFacts
      <3> QED
        BY <2>6, <3>4, <3>5 DEF ChainInv
    <2>8. EndInv(y, x)'
      BY <1>2, <1>5, <1>7, EndOther DEF DirInv
    <2>9. SynInv(y, x)'
      <3> SUFFICES ASSUME handle'[y].st = "none"
                   PROVE  /\ toStream'[y] = <<>> /\ wire'[y] = <<>> /\ sysq'[y] = <<>>
                          /\ ~sinkClosed'[x]
                          /\ Opened(Chain(y), stream[x].needsSyn)'
        BY DEF SynInv
      <3>1. /\ toStream[y] = <<>> /\ wire[y] = <<>> /\ sysq[y] = <<>> /\ ~sinkClosed[x]
            /\ Opened(q, stream[x].needsSyn)
        BY <1>5, <2>6 DEF DirInv, SynInv, OtherSame
      <3>2. Opened(r, stream[x].needsSyn)
        BY <1>3, <2>4, <2>5, <3>1, OpenedInserted
      <3>3. Opened(Chain(y), stream[x].needsSyn)'
        BY <1>2, <2>6, <3>2 DEF Opened
      <3> QED
        BY <1>2, <1>5, <3>1, <3>3 DEF OtherSame
    <2> QED
      BY <2>7, <2>8, <2>9 DEF DirInv
  <1> QED
    BY <1>8, <1>9

\* The handle of a reset stream goes with what is queued.
LEMMA RemoveResetPipe ==
  ASSUME TypeOK, TypeOK', NEW x \in Ends, NEW y \in Ends, y = Peer(x),
         DirInv(x, y), DirInv(y, x), RemoveReset(x)
  PROVE  DirInv(x, y)' /\ DirInv(y, x)'
  <1>0. y # x /\ x = Peer(y)
    BY PeerType
  <1>2. /\ sysq' = sysq /\ wire' = wire /\ stream' = stream /\ toStream' = toStream
        /\ sinkClosed' = sinkClosed /\ rd' = rd /\ sent' = sent
        /\ sinkClosed[x] /\ handle[x].st = "live"
        /\ handle' = [handle EXCEPT ![x].st = "removed"]
        /\ toSession' = [toSession EXCEPT ![x] = <<>>]
    BY DEF RemoveReset, ResetHere, TaskReady
  <1>5. OtherSame(y) /\ toSession'[x] = <<>>
    BY <1>0, <1>2 DEF OtherSame, TypeOK
  <1>6. handle'[x].st = "removed" /\ handle'[x].dataWriteClosed = handle[x].dataWriteClosed
    BY <1>2 DEF TypeOK, Handles
  <1>7. Base(x)' = Base(x) /\ ~Live(x)' /\ NoMore(x)' /\ SinkErr(x)' /\ (Closed(x)' <=> Closed(x))
    BY <1>2, <1>6 DEF Base, Live, NoMore, SinkErr, Closed
  <1>8. DirInv(x, y)'
    BY <1>2, <1>5, <1>6, <1>7, OwnKept
  <1>9. ChainInv(y, x)'
    <2>1. PICK a, b, c : a = toStream[y] /\ b = wire[x] /\ c = toSession[x]
      OBVIOUS
    <2>2. a \in Seq(Frames) /\ b \in Seq(Frames) /\ c \in Seq(Frames)
      BY <2>1, Ints
    <2>3. PICK q, r : q = a \o b \o c /\ r = a \o b \o <<>>
      OBVIOUS
    <2>4. /\ q \in Seq(Frames) /\ r \in Seq(Frames)
          /\ \A i \in DOMAIN r : i \in DOMAIN q /\ r[i] = q[i]
          /\ \A i \in DOMAIN q, j \in DOMAIN r : i < j => i \in DOMAIN r
      BY <2>2, <2>3
    <2>5. q = Chain(y) /\ r = Chain(y)'
      BY <1>0, <1>2, <1>5, <2>1, <2>3 DEF Chain
    <2>6. Carries(q, Base(y), sent[x], Live(y), SinkErr(x), Closed(x))
      BY <2>5 DEF DirInv, ChainInv
    <2>0. PICK yes : yes = SinkErr(x)'
      OBVIOUS
    <2>7. Carries(r, Base(y), sent[x], Live(y), yes, Closed(x))
      BY <1>7, <2>0, <2>4, <2>6, CarriesPrefix
    <2>8. Carries(r, Base(y), sent[x], Live(y)', SinkErr(x)', Closed(x)')
      <3>1. (Live(y)' => Live(y)) /\ (yes => SinkErr(x)') /\ (Closed(x) => Closed(x)')
        BY <1>5, <1>7, OtherFacts
      <3> QED
        BY <2>7, <3>1, CarriesLess
    <2>9. Base(y)' = Base(y) /\ sent'[x] = sent[x]
      BY <1>2, <1>5, OtherFacts
    <2> QED
      BY <2>5, <2>8, <2>9 DEF ChainInv
  <1>10. EndInv(y, x)'
    BY <1>2, <1>5, <1>7, EndOther DEF DirInv
  <1>11. SynInv(y, x)'
    BY <1>2, <1>5 DEF DirInv, SynInv, OtherSame
  <1> QED
    BY <1>8, <1>9, <1>10, <1>11 DEF DirInv

\* A queued frame is sent.
LEMMA SendFramePipe ==
  ASSUME TypeOK, TypeOK', NEW x \in Ends, NEW y \in Ends, y = Peer(x),
         DirInv(x, y), DirInv(y, x), SendFrame(x)
  PROVE  DirInv(x, y)' /\ DirInv(y, x)'
  <1>0. y # x /\ x = Peer(y)
    BY PeerType
  <1>1. PICK f : f = Head(toSession[x])
    OBVIOUS
  <1>2. /\ sysq' = sysq /\ stream' = stream /\ toStream' = toStream
        /\ sinkClosed' = sinkClosed /\ rd' = rd /\ sent' = sent
        /\ handle[x].st = "live" /\ toSession[x] # <<>>
        /\ toSession' = [toSession EXCEPT ![x] = Tail(@)]
        /\ wire' = [wire EXCEPT ![x] = Append(@, f)]
    BY <1>1 DEF SendFrame, TaskReady, Transmit
  <1>3. PICK w, k : handle' = [handle EXCEPT ![x].window = w, ![x].needsFin = k]
    BY DEF SendFrame
  <1>5. OtherSame(y) /\ wire'[y] = wire[y] /\ toSession'[x] = Tail(toSession[x]) /\ wire'[x] = Append(wire[x], f)
    BY <1>0, <1>2, <1>3 DEF OtherSame, TypeOK
  <1>6. handle'[x].st = "live" /\ handle'[x].dataWriteClosed = handle[x].dataWriteClosed
    BY <1>2, <1>3 DEF TypeOK, Handles
  <1>7. Base(x)' = Base(x) /\ (Live(x)' <=> Live(x)) /\ (NoMore(x)' <=> NoMore(x))
        /\ (SinkErr(x)' <=> SinkErr(x)) /\ (Closed(x)' <=> Closed(x))
    BY <1>2, <1>6 DEF Base, Live, NoMore, SinkErr, Closed
  <1>8. DirInv(x, y)'
    BY <1>2, <1>5, <1>6, <1>7, OwnKept
  <1>9. Chain(y)' = Chain(y)
    <2>1. PICK a, b, c : a = toStream[y] /\ b = wire[x] /\ c = toSession[x]
      OBVIOUS
    <2>2. a \in Seq(Frames) /\ b \in Seq(Frames) /\ c \in Seq(Frames) /\ c # <<>>
      BY <1>2, <2>1, Ints
    <2>3. a \o Append(b, Head(c)) \o Tail(c) = a \o b \o c
      BY <2>2, MoveSecond
    <2> QED
      BY <1>0, <1>1, <1>2, <1>5, <2>1, <2>3 DEF Chain, OtherSame
  <1>10. DirInv(y, x)'
    <2>1. handle[y].st = "none" => ~sinkClosed'[x]
      BY <1>2 DEF DirInv, SynInv
    <2> QED
      BY <1>0, <1>2, <1>5, <1>7, <1>9, <2>1, WrittenKept
  <1> QED
    BY <1>8, <1>10

\* The handle of a dropped stream goes, with a FIN unless one was sent.
LEMMA RemoveDroppedPipe ==
  ASSUME TypeOK, TypeOK', NEW x \in Ends, NEW y \in Ends, y = Peer(x),
         DirInv(x, y), DirInv(y, x), ResetIsFinal(x), RemoveDropped(x)
  PROVE  DirInv(x, y)' /\ DirInv(y, x)'
  <1>0. y # x /\ x = Peer(y)
    BY PeerType
  <1>2. /\ sysq' = sysq /\ stream' = stream /\ toStream' = toStream /\ toSession' = toSession
        /\ sinkClosed' = sinkClosed /\ rd' = rd /\ sent' = sent
        /\ handle[x].st = "live" /\ toSession[x] = <<>> /\ stream[x].st = "dropped"
        /\ handle' = [handle EXCEPT ![x].st = "removed", ![x].needsFin = FALSE]
        /\ IF handle[x].needsFin THEN wire' = [wire EXCEPT ![x] = Append(@, Fin(sent[x]))] ELSE wire' = wire
    BY DEF RemoveDropped, TaskReady, Transmit
  <1>5. OtherSame(y) /\ wire'[y] = wire[y]
    BY <1>0, <1>2 DEF OtherSame, TypeOK
  <1>6. handle'[x].st = "removed" /\ handle'[x].dataWriteClosed = handle[x].dataWriteClosed
    BY <1>2 DEF TypeOK, Handles
  <1>7. Base(x)' = Base(x) /\ ~Live(x)' /\ NoMore(x)' /\ SinkErr(x)' /\ Closed(x) /\ Closed(x)'
    BY <1>2, <1>6 DEF Base, Live, NoMore, SinkErr, Closed
  <1>8. DirInv(x, y)'
    BY <1>2, <1>5, <1>6, <1>7, OwnKept
  <1>9. CASE ~handle[x].needsFin
    <2>1. Chain(y)' = Chain(y)
      BY <1>0, <1>2, <1>9 DEF Chain
    <2>2. handle[y].st = "none" => ~sinkClosed'[x]
      BY <1>2 DEF DirInv, SynInv
    <2>3. DirInv(y, x)'
      BY <1>0, <1>2, <1>5, <1>7, <2>1, <2>2, WrittenKept
    <2> QED
      BY <1>8, <2>3
  <1>10. CASE handle[x].needsFin
    <2>1. PICK f : f = Fin(sent[x])
      OBVIOUS
    <2>2. f \in Frames /\ f.typ = "data" /\ f.fin = TRUE /\ f.off = sent[x] /\ f.len = 0 /\ sent[x] \in Nat
      <3>1. sent[x] \in Nat
        BY Ints
      <3> QED
        BY <2>1, <3>1, FinType DEF Fin, Frame
    <2>3. wire'[x] = Append(wire[x], f)
      BY <1>2, <1>10, <2>1 DEF TypeOK
    <2>4. Chain(y)' = Append(Chain(y), f)
      <3>1. PICK a, b : a = toStream[y] /\ b = wire[x]
        OBVIOUS
      <3>2. a \in Seq(Frames) /\ b \in Seq(Frames)
        BY <3>1, Ints
      <3>3. a \o Append(b, f) \o <<>> = Append(a \o b \o <<>>, f)
        BY <2>2, <3>2, AppendMid
      <3> QED
        BY <1>0, <1>2, <2>3, <3>1, <3>3 DEF Chain
    <2>5. sent'[x] = sent[x] + f.len /\ sent'[x] = sent[x]
      BY <1>2, <2>2
    <2>6. ~SinkErr(x)
      BY <1>2, <1>10 DEF ResetIsFinal, SinkErr
    <2>7. DirInv(y, x)'
      BY <1>0, <1>2, <1>5, <1>7, <2>2, <2>4, <2>5, <2>6, WrittenMore
    <2> QED
      BY <1>8, <2>7
  <1> QED
    BY <1>9, <1>10
----------------------------------------------------------------------------
(* The reader task.                                                        *)

\* The direction x writes when x reads the connection: something was read, so the
\* other end has the stream.
LEMMA HeardPipe ==
  ASSUME NEW x \in Ends, NEW y \in Ends, DirInv(y, x), OtherSame(y), wire[y] # <<>>,
         Chain(y)' = Chain(y), sent'[x] = sent[x], SinkErr(x) => SinkErr(x)', Closed(x) => Closed(x)'
  PROVE  DirInv(y, x)'
  <1>1. ChainInv(y, x)'
    BY OtherFacts, ChainKept DEF DirInv
  <1>2. EndInv(y, x)'
    BY EndOther DEF DirInv
  <1>3. SynInv(y, x)'
    BY DEF DirInv, SynInv, OtherSame
  <1> QED
    BY <1>1, <1>2, <1>3 DEF DirInv

\* The stream comes into being at the accepting end.
LEMMA ReadSynPipe ==
  ASSUME TypeOK, TypeOK', NEW x \in Ends, NEW y \in Ends, y = Peer(x),
         DirInv(x, y), DirInv(y, x), Untouched(x), ReadSyn(x)
  PROVE  DirInv(x, y)' /\ DirInv(y, x)'
  <1>0. y # x /\ x = Peer(y)
    BY PeerType
  <1>1. /\ sinkClosed' = sinkClosed /\ toSession' = toSession /\ toStream' = toStream
        /\ sysq' = sysq /\ wire' = wire /\ sent' = sent /\ rd' = rd
        /\ wire[y] # <<>> /\ handle[x].st = "none"
        /\ handle' = [handle EXCEPT ![x] = NewHandle(x, "live")]
        /\ stream' = [stream EXCEPT ![x] = NewStream(x, "open")]
    BY DEF ReadSyn
  <1>2. stream[x] = NewStream(x, "unborn") /\ toStream[x] = <<>>
    BY <1>1 DEF Untouched, DirInv, SynInv
  <1>3. /\ stream'[x].st = "open" /\ stream[x].st = "unborn"
        /\ stream'[x].readBuf = stream[x].readBuf
        /\ stream'[x].writeClosed = FALSE /\ stream[x].writeClosed = FALSE
        /\ stream'[x].dataReadClosed = FALSE
        /\ handle'[x].st = "live"
    <2>1. stream'[x] = NewStream(x, "open") /\ handle'[x] = NewHandle(x, "live")
      BY <1>1 DEF TypeOK
    <2> QED
      BY <1>2, <2>1 DEF NewStream, NewHandle
  <1>4. OtherSame(y)
    BY <1>0, <1>1 DEF OtherSame, TypeOK
  <1>5. Base(x)' = Base(x) /\ (Live(x)' <=> Live(x)) /\ (Closed(x)' <=> Closed(x)) /\ (SinkErr(x) => SinkErr(x)')
    BY <1>1, <1>3 DEF Base, Live, Closed, SinkErr
  <1>6. Chain(x)' = Chain(x) /\ Chain(y)' = Chain(y)
    BY <1>1 DEF Chain
  <1>7. ChainInv(x, y)'
    BY <1>1, <1>4, <1>5, <1>6, OtherFacts, ChainKept DEF DirInv
  <1>8. EndInv(x, y)'
    <2>1. toStream'[x] = <<>>
      BY <1>1, <1>2
    <2>2. DOMAIN toStream'[x] = {}
      BY <2>1
    <2> QED
      BY <1>3, <2>2 DEF EndInv
  <1>9. SynInv(x, y)'
    BY <1>3 DEF SynInv
  <1>10. DirInv(y, x)'
    BY <1>1, <1>4, <1>5, <1>6, HeardPipe
  <1> QED
    BY <1>7, <1>8, <1>9, <1>10 DEF DirInv

\* The frame at hand is not passed on.
LEMMA LostPipe ==
  ASSUME TypeOK, TypeOK', NEW x \in Ends, NEW y \in Ends, y = Peer(x),
         DirInv(x, y), DirInv(y, x), wire[y] # <<>>,
         stream' = stream, toSession' = toSession, toStream' = toStream, sent' = sent, rd' = rd,
         wire' = [wire EXCEPT ![y] = Tail(@)],
         handle'[y] = handle[y], sinkClosed'[y] = sinkClosed[y], sysq'[y] = sysq[y],
         sinkClosed[x] => sinkClosed'[x], handle'[x].st = handle[x].st,
         handle[x].dataWriteClosed => handle'[x].dataWriteClosed,
         Live(x)' => Arriving(x).typ # "data" \/ Arriving(x).fin,
         handle[x].st = "none" => ~Arriving(x).syn /\ sysq'[x] = sysq[x]
  PROVE  DirInv(x, y)' /\ DirInv(y, x)'
  <1>0. y # x /\ x = Peer(y)
    BY PeerType
  <1>1. OtherSame(y) /\ wire'[x] = wire[x] /\ wire'[y] = Tail(wire[y])
    BY <1>0 DEF OtherSame, TypeOK
  <1>2. /\ Base(x)' = Base(x) /\ (Live(x)' => Live(x)) /\ (NoMore(x) => NoMore(x)')
        /\ (SinkErr(x) => SinkErr(x)') /\ (Closed(x)' <=> Closed(x))
    BY DEF Base, Live, NoMore, SinkErr, Closed
  <1>3. DirInv(y, x)'
    <2>1. Chain(y)' = Chain(y)
      BY <1>0, <1>1 DEF Chain
    <2> QED
      BY <1>1, <1>2, <2>1, HeardPipe
  <1>4. PICK a, b, c : a = toStream[x] /\ b = wire[y] /\ c = toSession[y]
    OBVIOUS
  <1>5. a \in Seq(Frames) /\ b \in Seq(Frames) /\ c \in Seq(Frames) /\ b # <<>> /\ Tail(b) \in Seq(Frames)
    BY <1>4, Ints, TailAt
  <1>6. PICK q, r, k : q = a \o b \o c /\ r = a \o Tail(b) \o c /\ k = Len(a) + 1
    OBVIOUS
  <1>7. q \in Seq(Frames) /\ r \in Seq(Frames)
    BY <1>5, <1>6, ThreeAt
  <1>8. Removed(q, k, r) /\ q[k] = Head(b)
    BY <1>5, <1>6, TailMid
  <1>9. q = Chain(x) /\ r = Chain(x)' /\ q[k] = Arriving(x)
    BY <1>1, <1>4, <1>6, <1>8 DEF Chain, Arriving
  <1>10. ChainInv(x, y)'
    <2>1. Carries(q, Base(x), sent[y], Live(x), SinkErr(y), Closed(y))
      BY <1>9 DEF DirInv, ChainInv
    <2>2. Base(x) \in Int /\ sent[y] \in Int
      BY PipeType, Ints
    <2>3. q[k].fin => q[k].len = 0
      <3>1. k \in DOMAIN q
        BY <1>7, <1>8, RemovedAt
      <3> QED
        BY <2>1, <3>1 DEF Carries, FinsLast
    <2>4. PICK live2 : live2 = Live(x)'
      OBVIOUS
    <2>5. live2 => Live(x) /\ (q[k].typ # "data" \/ q[k].len = 0)
      BY <1>2, <1>9, <2>3, <2>4
    <2>6. Carries(r, Base(x), sent[y], live2, SinkErr(y), Closed(y))
      BY <1>7, <1>8, <2>1, <2>2, <2>5, CarriesRemoved
    <2>7. Carries(r, Base(x), sent[y], Live(x)', SinkErr(y)', Closed(y)')
      <3>1. (Live(x)' => live2) /\ (SinkErr(y) => SinkErr(y)') /\ (Closed(y) => Closed(y)')
        BY <1>1, <2>4, OtherFacts
      <3> QED
        BY <2>6, <3>1, CarriesLess
    <2> QED
      BY <1>2, <1>9, <2>7 DEF ChainInv
  <1>11. EndInv(x, y)'
    <2>1. handle'[x].st = "removed" => ~Live(x)'
      BY <1>2 DEF DirInv, EndInv
    <2> QED
      BY <1>1, <1>2, <2>1, OtherFacts, EndKept DEF DirInv
  <1>12. SynInv(x, y)'
    <2> SUFFICES ASSUME handle'[x].st = "none"
                 PROVE  /\ toStream'[x] = <<>> /\ wire'[x] = <<>> /\ sysq'[x] = <<>>
                        /\ ~sinkClosed'[y]
                        /\ Opened(Chain(x), stream[y].needsSyn)'
      BY DEF SynInv
    <2>1. /\ toStream[x] = <<>> /\ wire[x] = <<>> /\ sysq[x] = <<>> /\ ~sinkClosed[y]
          /\ Opened(q, stream[y].needsSyn) /\ ~q[k].syn
      BY <1>9 DEF DirInv, SynInv
    <2>2. Opened(r, stream[y].needsSyn)
      BY <1>7, <1>8, <2>1, OpenedRemoved
    <2>3. Opened(Chain(x), stream[y].needsSyn)'
      BY <1>9, <2>2 DEF Opened
    <2> QED
      BY <1>1, <2>1, <2>3
  <1> QED
    BY <1>3, <1>10, <1>11, <1>12 DEF DirInv

\* A reset arrives.
LEMMA ReadRstPipe ==
  ASSUME TypeOK, TypeOK', NEW x \in Ends, NEW y \in Ends, y = Peer(x),
         DirInv(x, y), DirInv(y, x), ReadRst(x)
  PROVE  DirInv(x, y)' /\ DirInv(y, x)'
  <1>0. y # x
    BY PeerType
  <1>1. /\ wire[y] # <<>> /\ Arriving(x).typ = "rst"
        /\ handle[x].st = "none" => ~Arriving(x).syn
        /\ stream' = stream /\ toSession' = toSession /\ toStream' = toStream
        /\ sysq' = sysq /\ sent' = sent /\ rd' = rd
        /\ wire' = [wire EXCEPT ![y] = Tail(@)]
    BY DEF ReadRst, Reading, Consume
  <1>2. /\ handle'[y] = handle[y] /\ sinkClosed'[y] = sinkClosed[y]
        /\ sinkClosed[x] => sinkClosed'[x]
        /\ handle'[x].st = handle[x].st
        /\ handle[x].dataWriteClosed => handle'[x].dataWriteClosed
    <2>1. CASE handle[x].st = "live"
      <3>1. /\ sinkClosed' = [sinkClosed EXCEPT ![x] = TRUE]
            /\ handle' = [handle EXCEPT ![x].dataWriteClosed = TRUE, ![x].needsFin = FALSE]
        BY <2>1 DEF ReadRst
      <3> QED
        BY <1>0, <3>1 DEF TypeOK, Handles
    <2>2. CASE handle[x].st # "live"
      BY <2>2 DEF ReadRst
    <2> QED
      BY <2>1, <2>2
  <1>3. Arriving(x).typ # "data"
    BY <1>1
  <1> QED
    BY <1>1, <1>2, <1>3, LostPipe

\* A frame for a stream that is gone is ignored.
LEMMA IgnorePipe ==
  ASSUME TypeOK, TypeOK', NEW x \in Ends, NEW y \in Ends, y = Peer(x),
         DirInv(x, y), DirInv(y, x), Ignore(x)
  PROVE  DirInv(x, y)' /\ DirInv(y, x)'
  <1>0. y # x
    BY PeerType
  <1>1. /\ wire[y] # <<>>
        /\ handle[x].st = "none" => ~Arriving(x).syn
        /\ stream' = stream /\ toSession' = toSession /\ toStream' = toStream
        /\ sysq' = sysq /\ sent' = sent /\ rd' = rd /\ sinkClosed' = sinkClosed
        /\ wire' = [wire EXCEPT ![y] = Tail(@)]
    BY DEF Ignore, Reading, Consume
  <1>2. Arriving(x).typ # "data" \/ Arriving(x).fin
    BY DEF Ignore, Reading
  <1>3. PICK b : b = (handle[x].dataWriteClosed \/ (Arriving(x).fin /\ handle[x].st = "live"))
    OBVIOUS
  <1>4. handle' = [handle EXCEPT ![x].dataWriteClosed = b]
    BY <1>3, Zenon DEF Ignore
  <1>5. /\ handle'[y] = handle[y] /\ handle'[x].st = handle[x].st
        /\ handle'[x].dataWriteClosed = b
    BY <1>0, <1>4 DEF TypeOK, Handles
  <1> QED
    BY <1>1, <1>2, <1>3, <1>5, LostPipe

\* Data for a stream that is not there, that was closed, or beyond the window.
LEMMA RefusePipe ==
  ASSUME TypeOK, TypeOK', NEW x \in Ends, NEW y \in Ends, y = Peer(x),
         DirInv(x, y), DirInv(y, x), RefuseUnknown(x) \/ RefuseClosed(x) \/ RefuseFlow(x)
  PROVE  DirInv(x, y)' /\ DirInv(y, x)'
  <1>0. y # x
    BY PeerType
  <1>1. PICK err : Refuse(x, err)
    BY DEF RefuseUnknown, RefuseClosed, RefuseFlow
  <1>2. /\ wire[y] # <<>> /\ Arriving(x).typ = "data" /\ ~Arriving(x).fin
        /\ ~(Arriving(x).syn /\ handle[x].st = "none")
        /\ stream' = stream /\ toSession' = toSession /\ toStream' = toStream
        /\ sent' = sent /\ rd' = rd
        /\ sysq' = [sysq EXCEPT ![x] = Append(@, Rst(err))]
        /\ wire' = [wire EXCEPT ![y] = Tail(@)]
    BY <1>1 DEF Refuse, Reading, Consume
  <1>3. handle[x].st # "none"
    <2> SUFFICES ASSUME handle[x].st = "none" PROVE FALSE
      OBVIOUS
    <2>1. toStream[x] = <<>> /\ Opened(Chain(x), stream[y].needsSyn)
      BY DEF DirInv, SynInv
    <2>2. wire[y] \in Seq(Frames) /\ toSession[y] \in Seq(Frames)
      BY Ints
    <2>3. PICK a, b, c : a = toStream[x] /\ b = wire[y] /\ c = toSession[y]
      OBVIOUS
    <2>4. PICK q : q = a \o b \o c
      OBVIOUS
    <2>5. 1 \in DOMAIN q /\ q[1] = Head(b) /\ \A j \in DOMAIN q : j <= 1 => j = 1
      <3>1. a \in Seq(Frames) /\ b \in Seq(Frames) /\ c \in Seq(Frames) /\ b # <<>> /\ Len(a) = 0
        BY <1>2, <2>1, <2>2, <2>3
      <3>2. q \in Seq(Frames) /\ 1 \in 1..Len(q) /\ q[1] = Head(b)
        BY <2>4, <3>1, ThreeAt, TailMid DEF Removed
      <3> QED
        BY <3>2
    <2>6. q = Chain(x) /\ q[1] = Arriving(x)
      BY <2>3, <2>4, <2>5 DEF Chain, Arriving
    <2> QED
      BY <1>2, <2>1, <2>5, <2>6 DEF Opened
  <1>4. /\ handle'[y] = handle[y] /\ sinkClosed'[y] = sinkClosed[y] /\ sysq'[y] = sysq[y]
        /\ sinkClosed[x] => sinkClosed'[x]
        /\ handle'[x].st = handle[x].st
        /\ handle[x].dataWriteClosed => handle'[x].dataWriteClosed
        /\ ~Live(x)'
    <2>1. sysq'[y] = sysq[y]
      BY <1>0, <1>2 DEF TypeOK
    <2>2. CASE RefuseUnknown(x)
      <3>1. handle' = handle /\ sinkClosed' = sinkClosed /\ handle[x].st # "live"
        BY <2>2 DEF RefuseUnknown
      <3>2. handle[x].st = "removed"
        BY <1>3, <3>1 DEF TypeOK, Handles
      <3>3. ~Live(x)'
        BY <1>2, <3>1, <3>2 DEF DirInv, EndInv, Live
      <3> QED
        BY <2>1, <3>1, <3>3
    <2>3. CASE ~RefuseUnknown(x)
      <3>1. PICK w : CloseWriters(x, w)
        BY <2>3 DEF RefuseClosed, RefuseFlow
      <3>2. /\ handle' = [handle EXCEPT ![x].dataWriteClosed = TRUE, ![x].needsFin = FALSE, ![x].window = w]
            /\ sinkClosed' = [sinkClosed EXCEPT ![x] = TRUE]
        BY <3>1 DEF CloseWriters
      <3>3. handle'[y] = handle[y] /\ sinkClosed'[y] = sinkClosed[y] /\ sinkClosed'[x] = TRUE
        BY <1>0, <3>2 DEF TypeOK
      <3>4. handle'[x].st = handle[x].st /\ handle'[x].dataWriteClosed = TRUE
        BY <3>2 DEF TypeOK, Handles
      <3> QED
        BY <2>1, <3>3, <3>4 DEF Live
    <2> QED
      BY <2>2, <2>3
  <1> QED
    BY <1>2, <1>3, <1>4, LostPipe

\* The channel is full.
LEMMA StallPipe ==
  ASSUME TypeOK, TypeOK', NEW x \in Ends, NEW y \in Ends, y = Peer(x),
         DirInv(x, y), DirInv(y, x), Stall(x)
  PROVE  DirInv(x, y)' /\ DirInv(y, x)'
  <1>0. y # x /\ x = Peer(y)
    BY PeerType
  <1>1. /\ stream' = stream /\ sinkClosed' = sinkClosed /\ toSession' = toSession
        /\ toStream' = toStream /\ sysq' = sysq /\ wire' = wire /\ sent' = sent /\ rd' = rd
        /\ wire[y] # <<>> /\ handle[x].st = "live"
    BY DEF Stall, Reading, Admit
  <1>2. PICK w : handle' = [handle EXCEPT ![x].window = w]
    BY DEF Stall
  <1>3. OtherSame(y) /\ handle'[x].st = handle[x].st /\ handle'[x].dataWriteClosed = handle[x].dataWriteClosed
    BY <1>0, <1>1, <1>2 DEF OtherSame, TypeOK, Handles
  <1>4. /\ Base(x)' = Base(x) /\ (Live(x)' <=> Live(x)) /\ (NoMore(x)' <=> NoMore(x))
        /\ (SinkErr(x)' <=> SinkErr(x)) /\ (Closed(x)' <=> Closed(x))
    BY <1>1, <1>3 DEF Base, Live, NoMore, SinkErr, Closed
  <1>5. Chain(y)' = Chain(y)
    BY <1>1 DEF Chain
  <1>6. DirInv(y, x)'
    BY <1>1, <1>3, <1>4, <1>5, HeardPipe
  <1>7. DirInv(x, y)'
    BY <1>1, <1>3, <1>4, OwnKept
  <1> QED
    BY <1>6, <1>7

\* A frame is passed on.
LEMMA DeliverPipe ==
  ASSUME TypeOK, TypeOK', NEW x \in Ends, NEW y \in Ends, y = Peer(x),
         DirInv(x, y), DirInv(y, x), Deliver(x)
  PROVE  DirInv(x, y)' /\ DirInv(y, x)'
  <1>0. y # x /\ x = Peer(y)
    BY PeerType
  <1>1. PICK f : f = Arriving(x)
    OBVIOUS
  <1>2. /\ stream' = stream /\ sinkClosed' = sinkClosed /\ toSession' = toSession
        /\ sysq' = sysq /\ sent' = sent /\ rd' = rd
        /\ wire[y] # <<>> /\ handle[x].st = "live"
        /\ toStream' = [toStream EXCEPT ![x] = Append(@, f)]
        /\ wire' = [wire EXCEPT ![y] = Tail(@)]
        /\ f.typ = "data" => ~handle[x].dataWriteClosed
    BY <1>1 DEF Deliver, Reading, Admit, Consume
  <1>3. /\ handle'[y] = handle[y] /\ handle'[x].st = "live"
        /\ handle[x].dataWriteClosed => handle'[x].dataWriteClosed
        /\ f.typ = "data" /\ f.fin => handle'[x].dataWriteClosed
    <2>1. CASE f.typ = "data"
      <3>1. PICK w, b : b = (handle[x].dataWriteClosed \/ Arriving(x).fin) /\ w = handle[x].window - ToShrink(x)
        OBVIOUS
      <3>2. handle' = [handle EXCEPT ![x].window = w, ![x].dataWriteClosed = b]
        BY <1>1, <2>1, <3>1, Zenon DEF Deliver, Counted
      <3>3. handle'[y] = handle[y] /\ handle'[x].st = "live" /\ handle'[x].dataWriteClosed = b
        BY <1>0, <1>2, <3>2 DEF TypeOK, Handles
      <3> QED
        BY <1>1, <3>1, <3>3
    <2>2. CASE f.typ # "data"
      <3>1. handle' = handle
        BY <1>1, <2>2 DEF Deliver
      <3> QED
        BY <1>2, <2>2, <3>1
    <2> QED
      BY <2>1, <2>2
  <1>4. OtherSame(y) /\ wire'[x] = wire[x] /\ wire'[y] = Tail(wire[y]) /\ toStream'[x] = Append(toStream[x], f)
    BY <1>0, <1>2, <1>3 DEF OtherSame, TypeOK
  <1>5. /\ Base(x)' = Base(x) /\ (Live(x)' <=> Live(x)) /\ (NoMore(x) => NoMore(x)')
        /\ (SinkErr(x)' <=> SinkErr(x)) /\ (Closed(x)' <=> Closed(x))
        /\ (NoMore(x) => f.typ # "data")
    BY <1>2, <1>3 DEF Base, Live, NoMore, SinkErr, Closed
  <1>6. Chain(y)' = Chain(y)
    BY <1>0, <1>2, <1>4 DEF Chain, OtherSame
  <1>7. DirInv(y, x)'
    BY <1>2, <1>4, <1>5, <1>6, HeardPipe
  <1>8. PICK a, b, c : a = toStream[x] /\ b = wire[y] /\ c = toSession[y]
    OBVIOUS
  <1>9. a \in Seq(Frames) /\ b \in Seq(Frames) /\ c \in Seq(Frames) /\ b # <<>> /\ f \in Frames /\ f = Head(b)
    BY <1>1, <1>2, <1>8, Ints DEF Arriving
  <1>10. Chain(x)' = Chain(x)
    <2>1. Append(a, Head(b)) \o Tail(b) \o c = a \o b \o c
      BY <1>9, MoveFirst
    <2> QED
      BY <1>2, <1>4, <1>8, <1>9, <2>1 DEF Chain
  <1>11. ChainInv(x, y)'
    BY <1>2, <1>4, <1>5, <1>10, OtherFacts, ChainKept DEF DirInv
  <1>12. f.fin => f.typ = "data"
    <2>1. PICK q, k : q = a \o b \o c /\ k = Len(a) + 1
      OBVIOUS
    <2>2. k \in DOMAIN q /\ q[k] = f
      BY <1>9, <2>1
    <2>3. FinsLast(q, sent[y], Closed(y))
      BY <1>8, <2>1 DEF DirInv, ChainInv, Carries, Chain
    <2> QED
      BY <2>2, <2>3 DEF FinsLast
  <1>13. EndInv(x, y)'
    <2>0. PICK s : s = toStream'[x]
      OBVIOUS
    <2>1. /\ \A i \in DOMAIN s : i \in DOMAIN a \/ i = Len(a) + 1
          /\ \A i \in DOMAIN a : s[i] = a[i]
          /\ \A i \in DOMAIN a : i < Len(a) + 1
          /\ s[Len(a) + 1] = f
          /\ \A i \in DOMAIN s : ~(i > Len(a) + 1)
      BY <1>4, <1>8, <1>9, <2>0, AppendAt
    <2>2. stream[x].dataReadClosed => NoData(a) /\ NoMore(x)
      BY <1>8 DEF DirInv, EndInv
    <2>3. stream[x].dataReadClosed => NoData(s) /\ NoMore(x)'
      <3> SUFFICES ASSUME stream[x].dataReadClosed PROVE NoData(s) /\ NoMore(x)'
        OBVIOUS
      <3>1. NoData(a) /\ f.typ # "data" /\ NoMore(x)'
        BY <1>5, <2>2
      <3> QED
        BY <2>1, <3>1 DEF NoData
    <2>4. \A i \in DOMAIN s : s[i].fin => NoMore(x)' /\ \A j \in DOMAIN s : j > i => s[j].typ # "data"
      <3> SUFFICES ASSUME NEW i \in DOMAIN s, s[i].fin, NEW j \in DOMAIN s
                   PROVE  NoMore(x)' /\ (j > i => s[j].typ # "data")
        OBVIOUS
      <3>1. CASE i \in DOMAIN a
        <4>1. NoMore(x) /\ \A m \in DOMAIN a : m > i => a[m].typ # "data"
          BY <1>8, <2>1, <3>1 DEF DirInv, EndInv
        <4> QED
          BY <1>5, <2>1, <4>1
      <3>2. CASE i = Len(a) + 1
        <4>1. f.fin /\ f.typ = "data"
          BY <1>12, <2>1, <3>2
        <4>2. NoMore(x)'
          BY <1>3, <4>1 DEF NoMore
        <4> QED
          BY <2>1, <3>2, <4>2
      <3> QED
        BY <2>1, <3>1, <3>2
    <2>5. stream'[x].dataReadClosed /\ ~sinkClosed'[x] => Closed(y)' /\ Base(x)' = sent'[y]
      BY <1>2, <1>4, <1>5, OtherFacts DEF DirInv, EndInv
    <2> QED
      BY <1>2, <1>3, <2>0, <2>3, <2>4, <2>5 DEF EndInv
  <1>14. SynInv(x, y)'
    BY <1>3 DEF SynInv
  <1> QED
    BY <1>7, <1>11, <1>13, <1>14 DEF DirInv
----------------------------------------------------------------------------
(* All steps.                                                              *)

\* System frames carry no data.
LEMMA PlainNext ==
  ASSUME TypeOK, NEW x \in Ends, Plain(x), Plain(Peer(x)),
         AppRead(x) \/ AppWrite(x) \/ AppClose(x) \/ WriterTask(x) \/ ReaderTask(x)
  PROVE  Plain(x)' /\ Plain(Peer(x))'
  <1>0. Peer(x) # x /\ Peer(x) \in Ends
    BY PeerType
  <1>1. CASE sysq' = sysq
    BY <1>1 DEF Plain
  <1>2. CASE SendSys(x)
    <2>1. sysq[x] # <<>> /\ sysq'[x] = Tail(sysq[x]) /\ sysq'[Peer(x)] = sysq[Peer(x)] /\ sysq[x] \in Seq(Frames)
      BY <1>0, <1>2, Ints DEF SendSys, TypeOK
    <2>2. \A i \in DOMAIN Tail(sysq[x]) : i + 1 \in DOMAIN sysq[x] /\ Tail(sysq[x])[i] = sysq[x][i + 1]
      BY <2>1, TailAt
    <2> QED
      BY <2>1, <2>2 DEF Plain
  <1>3. CASE RefuseUnknown(x) \/ RefuseClosed(x) \/ RefuseFlow(x)
    <2>1. PICK err \in {"StreamClosed", "FlowControl"} : Refuse(x, err)
      BY <1>3 DEF RefuseUnknown, RefuseClosed, RefuseFlow
    <2>2. PICK f : f = Rst(err)
      OBVIOUS
    <2>3. f \in Frames /\ f.typ = "rst" /\ f.fin = FALSE
      BY <2>2, RstType DEF Rst, Frame
    <2>4. sysq'[x] = Append(sysq[x], f) /\ sysq'[Peer(x)] = sysq[Peer(x)] /\ sysq[x] \in Seq(Frames)
      BY <1>0, <2>1, <2>2, Ints DEF Refuse, TypeOK
    <2>5. /\ \A i \in DOMAIN Append(sysq[x], f) : i \in DOMAIN sysq[x] \/ i = Len(sysq[x]) + 1
          /\ \A i \in DOMAIN sysq[x] : Append(sysq[x], f)[i] = sysq[x][i]
          /\ Append(sysq[x], f)[Len(sysq[x]) + 1] = f
      BY <2>3, <2>4, AppendAt
    <2> QED
      BY <2>3, <2>4, <2>5 DEF Plain
  <1>4. sysq' = sysq \/ SendSys(x) \/ RefuseUnknown(x) \/ RefuseClosed(x) \/ RefuseFlow(x)
    <2>1. CASE AppRead(x) \/ AppWrite(x) \/ AppClose(x)
      BY <2>1 DEF AppRead, AppWrite, AppClose, ReadRecv, Read, WriteRecv, RecvFrame, WriteFail,
                  FlushFail, SinkFailed, Write, Shutdown, DropStream
    <2>2. CASE WriterTask(x)
      BY <2>2 DEF WriterTask, RemoveReset, SendFrame, RemoveDropped
    <2>3. CASE ReaderTask(x)
      BY <2>3 DEF ReaderTask, ReadSyn, ReadRst, Deliver, Stall, Ignore
    <2> QED
      BY <2>1, <2>2, <2>3
  <1> QED
    BY <1>1, <1>2, <1>3, <1>4

\* Nothing is on its way at first.
LEMMA InitPipe == Init => PipeInv
  <1> SUFFICES ASSUME Init, NEW p \in Ends PROVE DirInv(p, Peer(p)) /\ Plain(p)
    BY DEF PipeInv
  <1>1. PICK e : e = Peer(p)
    OBVIOUS
  <1>2. e \in Ends /\ TypeOK
    BY <1>1, PeerType, InitType
  <1>3. \A x \in Ends : /\ sent[x] = 0 /\ rd[x] = 0 /\ toSession[x] = <<>> /\ toStream[x] = <<>>
                        /\ wire[x] = <<>> /\ sysq[x] = <<>> /\ ~sinkClosed[x]
                        /\ stream[x].readBuf = 0 /\ ~stream[x].dataReadClosed
                        /\ ~stream[x].writeClosed /\ stream[x].st # "dropped"
                        /\ handle[x].st # "removed"
    BY DEF Init, NewStream, NewHandle
  <1>4. handle[p].st = "none" => stream[e].needsSyn
    BY <1>1 DEF Init, NewStream, NewHandle, Peer, Ends
  <1>5. Chain(p) = <<>> /\ Base(p) = 0
    BY <1>1, <1>2, <1>3 DEF Chain, Base
  <1>6. DOMAIN Chain(p) = {} /\ DOMAIN toStream[p] = {} /\ DOMAIN sysq[p] = {}
    BY <1>3, <1>5
  <1>7. ChainInv(p, e)
    <2>1. sent[e] = 0
      BY <1>2, <1>3
    <2> QED
      BY <1>5, <1>6, <2>1 DEF ChainInv, Carries, Within, Ordered, Joined, Reaches, FinsLast
  <1>8. EndInv(p, e)
    BY <1>3, <1>6 DEF EndInv
  <1>9. SynInv(p, e)
    BY <1>2, <1>3, <1>4, <1>6 DEF SynInv, Opened
  <1> QED
    BY <1>1, <1>6, <1>7, <1>8, <1>9 DEF DirInv, Plain

\* Every step of one end keeps both directions.
LEMMA StepPipe ==
  ASSUME TypeOK, TypeOK', FlowInv, PipeInv, NEW x \in Ends,
         AppRead(x) \/ AppWrite(x) \/ AppClose(x) \/ WriterTask(x) \/ ReaderTask(x)
  PROVE  PipeInv'
  <1>1. PICK y \in Ends : y = Peer(x) /\ x = Peer(y) /\ y # x
    BY PeerType
  <1>2. DirInv(x, y) /\ DirInv(y, x) /\ Plain(x) /\ Plain(y) /\ Untouched(x) /\ ResetIsFinal(x)
    BY <1>1 DEF PipeInv, FlowInv
  <1>3. handle[x].st = "none" => stream[x].st = "unborn"
    BY <1>2 DEF Untouched, NewStream
  <1>4. Plain(x)' /\ Plain(y)'
    BY <1>1, <1>2, PlainNext
  <1>5. DirInv(x, y)' /\ DirInv(y, x)'
    <2>1. CASE AppRead(x)
      BY <1>1, <1>2, <1>3, <2>1, RecvPipe, ReadPipe DEF AppRead, ReadRecv
    <2>2. CASE AppWrite(x)
      <3>1. CASE WriteRecv(x)
        BY <1>1, <1>2, <1>3, <3>1, RecvPipe DEF WriteRecv
      <3>2. CASE WriteFail(x) \/ FlushFail(x)
        BY <1>1, <1>2, <1>3, <3>2, SinkFailedPipe DEF WriteFail, FlushFail, MayWrite
      <3>3. CASE \E n \in WriteSizes : Write(x, n)
        BY <1>1, <1>2, <1>3, <3>3, WritePipe
      <3> QED
        BY <2>2, <3>1, <3>2, <3>3 DEF AppWrite
    <2>3. CASE AppClose(x)
      BY <1>1, <1>2, <1>3, <2>3, ShutdownPipe, DropPipe DEF AppClose
    <2>4. CASE WriterTask(x)
      BY <1>1, <1>2, <2>4, SendSysPipe, RemoveResetPipe, SendFramePipe, RemoveDroppedPipe DEF WriterTask
    <2>5. CASE ReaderTask(x)
      BY <1>1, <1>2, <2>5, ReadSynPipe, ReadRstPipe, DeliverPipe, StallPipe, IgnorePipe, RefusePipe
         DEF ReaderTask
    <2> QED
      BY <2>1, <2>2, <2>3, <2>4, <2>5
  <1>6. \A p \in Ends : p = x \/ p = y
    BY <1>1 DEF Ends, Peer
  <1>7. \A p \in Ends : DirInv(p, Peer(p))' /\ Plain(p)'
    BY <1>1, <1>4, <1>5, <1>6
  <1> QED
    BY <1>7 DEF PipeInv

\* Every step keeps the invariant.
LEMMA NextPipe == TypeOK /\ TypeOK' /\ FlowInv /\ PipeInv /\ [Next]_vars => PipeInv'
  <1> SUFFICES ASSUME TypeOK, TypeOK', FlowInv, PipeInv, [Next]_vars PROVE PipeInv'
    OBVIOUS
  <1>1. CASE UNCHANGED vars
    <2> SUFFICES ASSUME NEW p \in Ends PROVE (DirInv(p, Peer(p)) /\ Plain(p))'
      BY DEF PipeInv
    <2>1. PICK e \in Ends : e = Peer(p) /\ p = Peer(e)
      BY PeerType
    <2>2. DirInv(p, e) /\ Plain(p)
      BY <2>1 DEF PipeInv
    <2>3. OtherSame(p) /\ OtherSame(e) /\ wire' = wire
      BY <1>1 DEF vars, OtherSame
    <2>4. Chain(p)' = Chain(p)
      BY <1>1 DEF vars, Chain
    <2>5. handle[p].st = "none" => ~sinkClosed'[e]
      BY <2>2, <2>3 DEF DirInv, SynInv, OtherSame
    <2>6. DirInv(p, e)'
      BY <2>1, <2>2, <2>3, <2>4, <2>5, OtherFacts, WrittenKept DEF OtherSame
    <2>7. Plain(p)'
      BY <2>2, <2>3 DEF Plain, OtherSame
    <2> QED
      BY <2>1, <2>6, <2>7
  <1>2. CASE Next
    BY <1>2, StepPipe DEF Next
  <1> QED
    BY <1>1, <1>2

\* The frames between the two ends are what the bytes written and read say they are.
LEMMA Piped == Spec => []PipeInv
  <1>1. Init => PipeInv
    BY InitPipe
  <1>2. TypeOK /\ TypeOK' /\ FlowInv /\ PipeInv /\ [Next]_vars => PipeInv'
    BY NextPipe
  <1> QED
    BY <1>1, <1>2, Typing, Accounting, PTL DEF Spec
----------------------------------------------------------------------------
(* Each direction is a byte pipe.                                          *)

Eof(p) == stream[p].dataReadClosed /\ stream[p].readBuf = 0

\* What the end x does to the direction it reads and to the one it writes.
Moves(x) ==
  /\ OtherSame(Peer(x))
  /\ rd[x] <= rd'[x]
  /\ sinkClosed[x] => sinkClosed'[x]
  /\ Eof(x) => Eof(x)'
  /\ \/ sent'[x] = sent[x] /\ (Closed(x) => Closed(x)')
     \/ ~Closed(x) /\ ~Closed(x)' /\ sent'[x] >= sent[x]

\* What the steps of one end do to the pipes: first, taking a frame from the channel.
LEMMA RecvMoves ==
  ASSUME TypeOK, TypeOK', NEW x \in Ends, EndInv(x, Peer(x)), RecvFrame(x)
  PROVE  Moves(x)
  <1>0. Peer(x) \in Ends /\ Peer(x) # x /\ stream[x] \in Streams /\ rd[x] \in Nat
    BY PeerType, Ints
  <1>1. /\ handle' = handle /\ sinkClosed' = sinkClosed /\ toSession' = toSession /\ sysq' = sysq
        /\ sent' = sent /\ rd' = rd
    BY DEF RecvFrame
  <1>2. OtherSame(Peer(x))
    BY <1>0, <1>1 DEF OtherSame, RecvFrame, TypeOK
  <1>3. (Eof(x) => Eof(x)') /\ (Closed(x) => Closed(x)')
    <2>1. CASE toStream[x] = <<>>
      <3>1. stream'[x] = [stream[x] EXCEPT !.dataReadClosed = TRUE]
        BY <2>1 DEF RecvFrame, TypeOK
      <3> QED
        BY <1>0, <3>1 DEF Eof, Closed, Streams
    <2>2. CASE toStream[x] # <<>>
      <3>1. PICK t, g : t = stream'[x] /\ g = Head(toStream[x])
        OBVIOUS
      <3>2. t = HandledBy(x, g)
        BY <2>2, <3>1 DEF RecvFrame, TypeOK
      <3>3. /\ t.st = stream[x].st /\ t.writeClosed = stream[x].writeClosed
            /\ t.dataReadClosed = (stream[x].dataReadClosed \/ g.fin)
            /\ t.readBuf = IF g.typ = "data" THEN stream[x].readBuf + g.len ELSE stream[x].readBuf
        BY <1>0, <3>2, HandledKeeps
      <3>4. stream[x].dataReadClosed => g.typ # "data"
        <4>1. 1 \in DOMAIN toStream[x] /\ g = toStream[x][1]
          BY <2>2, <3>1, Ints, TailAt
        <4> QED
          BY <4>1 DEF EndInv, NoData
      <3> QED
        BY <3>1, <3>3, <3>4 DEF Eof, Closed
    <2> QED
      BY <2>1, <2>2
  <1> QED
    BY <1>0, <1>1, <1>2, <1>3 DEF Moves

\* Reads, writes, shutdown and drop.
LEMMA AppMoves ==
  ASSUME TypeOK, TypeOK', NEW x \in Ends, EndInv(x, Peer(x)),
         AppRead(x) \/ AppWrite(x) \/ AppClose(x)
  PROVE  Moves(x)
  <1>0. /\ Peer(x) \in Ends /\ Peer(x) # x /\ stream[x] \in Streams /\ rd[x] \in Nat /\ sent[x] \in Nat
        /\ stream[x].readBuf \in Nat /\ stream[x].window \in Nat
    BY PeerType, Ints, PipeType
  <1>1. CASE RecvFrame(x)
    BY <1>1, RecvMoves
  <1>2. ASSUME NEW n \in ReadSizes, Read(x, n) PROVE Moves(x)
    <2>1. PICK k : k = LesserOf(stream[x].readBuf, n)
      OBVIOUS
    <2>2. k \in Nat
      BY <1>0, <2>1, BoundAssumption DEF LesserOf
    <2>3. /\ stream' = [stream EXCEPT ![x].readBuf = @ - k] /\ rd' = [rd EXCEPT ![x] = @ + k]
          /\ stream[x].readBuf > 0 /\ sent' = sent
      BY <1>2, <2>1 DEF Read
    <2>4. OtherSame(Peer(x))
      BY <1>0, <1>2, <2>3 DEF Read, OtherSame, TypeOK
    <2>5. sinkClosed[x] => sinkClosed'[x]
      BY <1>2 DEF Read, TypeOK
    <2>6. rd[x] <= rd'[x]
      BY <1>0, <2>2, <2>3 DEF TypeOK
    <2>7. ~Eof(x) /\ (Closed(x)' <=> Closed(x))
      BY <1>0, <2>3 DEF Eof, Closed, TypeOK, Streams
    <2> QED
      BY <2>3, <2>4, <2>5, <2>6, <2>7 DEF Moves
  <1>3. ASSUME NEW n \in WriteSizes, Write(x, n) PROVE Moves(x)
    <2>1. PICK k : k = LesserOf(stream[x].window, n)
      OBVIOUS
    <2>2. k \in Nat
      BY <1>0, <2>1, BoundAssumption DEF LesserOf
    <2>3. /\ stream' = [stream EXCEPT ![x].window = @ - k, ![x].needsSyn = FALSE]
          /\ sent' = [sent EXCEPT ![x] = @ + k] /\ rd' = rd /\ sinkClosed' = sinkClosed
          /\ stream[x].st = "open" /\ ~stream[x].writeClosed
      BY <1>3, <2>1 DEF Write, MayWrite
    <2>4. OtherSame(Peer(x))
      BY <1>0, <1>3, <2>3 DEF Write, OtherSame, TypeOK
    <2>5. sent'[x] >= sent[x]
      BY <1>0, <2>2, <2>3 DEF TypeOK
    <2>6. (Eof(x)' <=> Eof(x)) /\ ~Closed(x) /\ ~Closed(x)'
      BY <2>3, SMTT(20) DEF Eof, Closed, TypeOK, Streams
    <2> QED
      BY <1>0, <2>3, <2>4, <2>5, <2>6 DEF Moves
  <1>4. CASE SinkFailed(x) \/ Shutdown(x)
    <2>1. /\ stream' = [stream EXCEPT ![x].writeClosed = TRUE] /\ sent' = sent /\ rd' = rd
      BY <1>4 DEF SinkFailed, Shutdown
    <2>2. OtherSame(Peer(x))
      BY <1>0, <1>4, <2>1 DEF SinkFailed, Shutdown, OtherSame, TypeOK
    <2>3. sinkClosed[x] => sinkClosed'[x]
      BY <1>4 DEF SinkFailed, Shutdown, TypeOK
    <2>4. (Eof(x)' <=> Eof(x)) /\ Closed(x)'
      BY <2>1 DEF Eof, Closed, TypeOK, Streams
    <2> QED
      BY <1>0, <2>1, <2>2, <2>3, <2>4 DEF Moves
  <1>5. CASE DropStream(x)
    <2>1. /\ stream' = [stream EXCEPT ![x].st = "dropped"] /\ sent' = sent /\ rd' = rd
          /\ sinkClosed' = sinkClosed
      BY <1>5 DEF DropStream
    <2>2. OtherSame(Peer(x))
      BY <1>0, <1>5, <2>1 DEF DropStream, OtherSame, TypeOK
    <2>3. (Eof(x)' <=> Eof(x)) /\ Closed(x)'
      BY <2>1 DEF Eof, Closed, TypeOK, Streams
    <2> QED
      BY <1>0, <2>1, <2>2, <2>3 DEF Moves
  <1> QED
    BY <1>1, <1>2, <1>3, <1>4, <1>5 DEF AppRead, AppWrite, AppClose, ReadRecv, WriteRecv, WriteFail, FlushFail

\* The writer task.
LEMMA WriterMoves ==
  ASSUME TypeOK, TypeOK', NEW x \in Ends, WriterTask(x)
  PROVE  Moves(x)
  <1>0. Peer(x) \in Ends /\ Peer(x) # x /\ rd[x] \in Nat
    BY PeerType, Ints
  <1>1. /\ stream' = stream /\ sent' = sent /\ rd' = rd /\ sinkClosed' = sinkClosed
        /\ toStream' = toStream
    BY DEF WriterTask, SendSys, RemoveReset, SendFrame, RemoveDropped
  <1>2. handle'[Peer(x)] = handle[Peer(x)]
    BY <1>0 DEF WriterTask, SendSys, RemoveReset, SendFrame, RemoveDropped, TypeOK
  <1>3. toSession'[Peer(x)] = toSession[Peer(x)] /\ sysq'[Peer(x)] = sysq[Peer(x)]
    BY <1>0 DEF WriterTask, SendSys, RemoveReset, SendFrame, RemoveDropped, TypeOK
  <1> QED
    BY <1>0, <1>1, <1>2, <1>3 DEF Moves, OtherSame, Eof, Closed

\* The reader task.
LEMMA ReaderMoves ==
  ASSUME TypeOK, TypeOK', NEW x \in Ends, Untouched(x), ReaderTask(x)
  PROVE  Moves(x)
  <1>0. Peer(x) \in Ends /\ Peer(x) # x /\ rd[x] \in Nat
    BY PeerType, Ints
  <1>1. CASE ReadSyn(x)
    <2>1. /\ sent' = sent /\ rd' = rd /\ sinkClosed' = sinkClosed /\ handle[x].st = "none"
          /\ stream' = [stream EXCEPT ![x] = NewStream(x, "open")]
      BY <1>1 DEF ReadSyn
    <2>2. OtherSame(Peer(x))
      BY <1>0, <1>1 DEF ReadSyn, OtherSame, TypeOK
    <2>3. ~Eof(x) /\ ~Closed(x)
      BY <2>1 DEF Untouched, NewStream, Eof, Closed
    <2> QED
      BY <1>0, <2>1, <2>2, <2>3 DEF Moves
  <1>2. CASE ~ReadSyn(x)
    <2>1. /\ stream' = stream /\ sent' = sent /\ rd' = rd /\ toSession' = toSession
      BY <1>2 DEF ReaderTask, ReadRst, Deliver, Stall, Ignore, RefuseUnknown, RefuseClosed, RefuseFlow, Refuse
    <2>2. toStream'[Peer(x)] = toStream[Peer(x)]
      BY <1>0, <1>2 DEF ReaderTask, ReadRst, Deliver, Stall, Ignore, RefuseUnknown, RefuseClosed,
                        RefuseFlow, Refuse, TypeOK
    <2>3. sysq'[Peer(x)] = sysq[Peer(x)]
      BY <1>0, <1>2 DEF ReaderTask, ReadRst, Deliver, Stall, Ignore, RefuseUnknown, RefuseClosed,
                        RefuseFlow, Refuse, TypeOK
    <2>4. /\ sinkClosed'[Peer(x)] = sinkClosed[Peer(x)]
          /\ sinkClosed[x] => sinkClosed'[x]
      BY <1>0, <1>2 DEF ReaderTask, ReadRst, Deliver, Stall, Ignore, RefuseUnknown, RefuseClosed,
                        RefuseFlow, CloseWriters, TypeOK
    <2>5. handle'[Peer(x)] = handle[Peer(x)]
      <3>1. CASE ReadRst(x) \/ RefuseUnknown(x)
        <4>1. handle' = handle \/ handle' = [handle EXCEPT ![x].dataWriteClosed = TRUE, ![x].needsFin = FALSE]
          BY <3>1 DEF ReadRst, RefuseUnknown
        <4> QED
          BY <1>0, <4>1 DEF TypeOK
      <3>5. CASE Ignore(x)
        <4>1. PICK b : handle' = [handle EXCEPT ![x].dataWriteClosed = b]
          BY <3>5, Zenon DEF Ignore
        <4> QED
          BY <1>0, <4>1 DEF TypeOK
      <3>2. CASE Deliver(x)
        BY <1>0, <3>2 DEF Deliver, Counted, TypeOK
      <3>3. CASE Stall(x)
        BY <1>0, <3>3 DEF Stall, TypeOK
      <3>4. CASE RefuseClosed(x) \/ RefuseFlow(x)
        <4>1. PICK w : CloseWriters(x, w)
          BY <3>4 DEF RefuseClosed, RefuseFlow
        <4> QED
          BY <1>0, <4>1 DEF CloseWriters, TypeOK
      <3> QED
        BY <1>2, <3>1, <3>2, <3>3, <3>4, <3>5 DEF ReaderTask
    <2> QED
      BY <1>0, <2>1, <2>2, <2>3, <2>4, <2>5 DEF Moves, OtherSame, Eof, Closed
  <1> QED
    BY <1>1, <1>2

\* One step of the pipe from the writer e to the reader p.
PipeStep(p, e) ==
  \/ /\ ~Closed(e) /\ sent'[e] > sent[e]
     /\ rd'[p] = rd[p] /\ Closed(e)' = Closed(e) /\ sinkClosed'[p] = sinkClosed[p] /\ Eof(p)' = Eof(p)
  \/ /\ Closed(e)' /\ sent'[e] = sent[e]
     /\ rd'[p] = rd[p] /\ sinkClosed'[p] = sinkClosed[p] /\ Eof(p)' = Eof(p)
  \/ /\ rd'[p] \in rd[p]..sent[e]
     /\ sinkClosed[p] => sinkClosed'[p]
     /\ Eof(p) => Eof(p)'
     /\ Eof(p)' => sinkClosed'[p] \/ (Closed(e) /\ rd'[p] = sent[e])
     /\ sent'[e] = sent[e] /\ Closed(e)' = Closed(e)
  \/ /\ sent'[e] = sent[e] /\ rd'[p] = rd[p]
     /\ Closed(e)' = Closed(e) /\ sinkClosed'[p] = sinkClosed[p] /\ Eof(p)' = Eof(p)

\* As the writer, x puts, ends or does nothing; as the reader it takes.
LEMMA MovesAreSteps ==
  ASSUME TypeOK, TypeOK', PipeInv', NEW x \in Ends, Moves(x)
  PROVE  PipeStep(Peer(x), x) /\ PipeStep(x, Peer(x))
  <1>1. PICK y \in Ends : y = Peer(x) /\ x = Peer(y)
    BY PeerType
  <1>2. OtherSame(y)
    BY <1>1 DEF Moves
  <1>3. /\ sent'[y] = sent[y] /\ rd'[y] = rd[y] /\ Closed(y)' = Closed(y)
        /\ sinkClosed'[y] = sinkClosed[y] /\ Eof(y)' = Eof(y)
    BY <1>2 DEF OtherSame, Closed, Eof
  <1>4. sent[x] \in Nat /\ sent'[x] \in Nat /\ rd[x] \in Nat /\ rd'[x] \in Nat /\ sent[y] \in Nat
        /\ stream'[x].readBuf \in Nat
    BY DEF TypeOK, Streams
  <1>5. PipeStep(y, x)
    <2>1. CASE sent'[x] = sent[x] /\ (Closed(x) => Closed(x)')
      <3>1. CASE Closed(x)'
        BY <1>3, <2>1, <3>1 DEF PipeStep
      <3>2. CASE ~Closed(x)'
        <4>1. Closed(x)' = Closed(x)
          BY <2>1, <3>2 DEF Closed
        <4> QED
          BY <1>3, <2>1, <4>1 DEF PipeStep
      <3> QED
        BY <3>1, <3>2
    <2>2. CASE ~Closed(x) /\ ~Closed(x)' /\ sent'[x] >= sent[x]
      <3>1. Closed(x)' = Closed(x)
        BY <2>2 DEF Closed
      <3>2. sent'[x] = sent[x] \/ sent'[x] > sent[x]
        BY <1>4, <2>2
      <3> QED
        BY <1>3, <2>2, <3>1, <3>2 DEF PipeStep
    <2> QED
      BY <2>1, <2>2 DEF Moves
  <1>6. ChainInv(x, y)' /\ EndInv(x, y)'
    BY <1>1 DEF PipeInv, DirInv
  <1>7. Base(x)' <= sent'[y] /\ Base(x)' = rd'[x] + stream'[x].readBuf
    BY <1>6 DEF ChainInv, Carries, Base
  <1>8. rd'[x] \in rd[x]..sent[y]
    BY <1>3, <1>4, <1>7 DEF Moves
  <1>9. Eof(x)' => sinkClosed'[x] \/ (Closed(y) /\ rd'[x] = sent[y])
    <2> SUFFICES ASSUME Eof(x)', ~sinkClosed'[x] PROVE Closed(y) /\ rd'[x] = sent[y]
      OBVIOUS
    <2>1. Closed(y)' /\ Base(x)' = sent'[y] /\ stream'[x].readBuf = 0
      BY <1>6 DEF EndInv, Eof
    <2> QED
      BY <1>3, <1>4, <1>7, <2>1
  <1>10. PipeStep(x, y)
    BY <1>3, <1>8, <1>9 DEF PipeStep, Moves
  <1> QED
    BY <1>1, <1>5, <1>10

\* Every step is one of the pipe, or leaves it alone.
LEMMA NextIsPipe ==
  ASSUME TypeOK, TypeOK', FlowInv, PipeInv, PipeInv', Next, NEW p \in Ends
  PROVE  PipeStep(p, Peer(p))
  <1>1. PICK x \in Ends : AppRead(x) \/ AppWrite(x) \/ AppClose(x) \/ WriterTask(x) \/ ReaderTask(x)
    BY DEF Next
  <1>2. EndInv(x, Peer(x)) /\ Untouched(x)
    BY DEF PipeInv, DirInv, FlowInv
  <1>3. Moves(x)
    BY <1>1, <1>2, AppMoves, WriterMoves, ReaderMoves
  <1>4. PipeStep(Peer(x), x) /\ PipeStep(x, Peer(x))
    BY <1>3, MovesAreSteps
  <1>5. p = x \/ (p = Peer(x) /\ Peer(p) = x)
    BY DEF Peer, Ends
  <1> QED
    BY <1>4, <1>5

\* So it is for the pipe from the opener.
LEMMA NextForth ==
  ASSUME TypeOK, TypeOK', FlowInv, PipeInv, PipeInv', [Next]_vars
  PROVE  [Forth!PipeNext]_(Forth!pipe)
  <1>1. CASE UNCHANGED vars
    BY <1>1 DEF vars, Forth!pipe
  <1>2. CASE Next
    <2>1. PipeStep("acceptor", "opener")
      BY <1>2, NextIsPipe DEF Ends, Peer
    <2> QED
      BY <2>1 DEF PipeStep, Forth!pipe, Forth!PipeNext, Forth!Put, Forth!End, Forth!Take, Closed, Eof
  <1> QED
    BY <1>1, <1>2

\* And for the pipe back.
LEMMA NextBack ==
  ASSUME TypeOK, TypeOK', FlowInv, PipeInv, PipeInv', [Next]_vars
  PROVE  [Back!PipeNext]_(Back!pipe)
  <1>1. CASE UNCHANGED vars
    BY <1>1 DEF vars, Back!pipe
  <1>2. CASE Next
    <2>1. PipeStep("opener", "acceptor")
      BY <1>2, NextIsPipe DEF Ends, Peer
    <2> QED
      BY <2>1 DEF PipeStep, Back!pipe, Back!PipeNext, Back!Put, Back!End, Back!Take, Closed, Eof
  <1> QED
    BY <1>1, <1>2

(***************************************************************************)
(* Both directions of a muxado stream refine BytePipe, whatever the        *)
(* windows, also when the ends disagree on them, and whoever shuts down,   *)
(* resets or drops the stream: bytes come out of poll_read in the order    *)
(* and number they went into poll_write, and without a reset end of file   *)
(* is reported only when everything was read and the writer is closed.     *)
(***************************************************************************)
THEOREM RefinesPipe == Spec => ImplementsPipe
  <1>1. Init => Forth!PipeInit /\ Back!PipeInit
    BY DEF Init, NewStream, Ends, Forth!PipeInit, Back!PipeInit
  <1>2. TypeOK /\ TypeOK' /\ FlowInv /\ PipeInv /\ PipeInv' /\ [Next]_vars
          => [Forth!PipeNext]_(Forth!pipe)
    BY NextForth
  <1>3. TypeOK /\ TypeOK' /\ FlowInv /\ PipeInv /\ PipeInv' /\ [Next]_vars
          => [Back!PipeNext]_(Back!pipe)
    BY NextBack
  <1> QED
    BY <1>1, <1>2, <1>3, Typing, Accounting, Piped, PTL
       DEF Spec, ImplementsPipe, Forth!PipeSpec, Back!PipeSpec
----------------------------------------------------------------------------
(* When nobody drops its Stream nothing is reset, so nothing is lost.      *)

\* Data is queued behind no FIN.
LEMMA TidyAppend ==
  ASSUME NEW q \in Seq(Frames), NEW f \in Frames, Tidy(q), f.typ # "rst",
         f.typ = "data" => \A i \in DOMAIN q : ~q[i].fin
  PROVE  Tidy(Append(q, f))
  <1>1. PICK r : r = Append(q, f)
    OBVIOUS
  <1>2. /\ \A i \in DOMAIN q : r[i] = q[i] /\ ~(Len(q) + 1 < i)
        /\ r[Len(q) + 1] = f
        /\ \A i \in DOMAIN r : i \in DOMAIN q \/ i = Len(q) + 1
        /\ ~(Len(q) + 1 < Len(q) + 1)
    BY <1>1, AppendAt
  <1>3. ASSUME NEW i \in DOMAIN r PROVE r[i].typ # "rst"
    BY <1>2 DEF Tidy
  <1>4. ASSUME NEW i \in DOMAIN r, NEW j \in DOMAIN r, r[i].fin, i < j PROVE r[j].typ # "data"
    <2>1. CASE j \in DOMAIN q
      BY <1>2, <1>4, <2>1 DEF Tidy
    <2>2. CASE j = Len(q) + 1
      BY <1>2, <1>4, <2>2
    <2> QED
      BY <1>2, <2>1, <2>2
  <1> QED
    BY <1>1, <1>3, <1>4 DEF Tidy

\* A frame is taken out.
LEMMA TidyRemoved ==
  ASSUME NEW q \in Seq(Frames), NEW r \in Seq(Frames), NEW k, Removed(q, k, r), Tidy(q)
  PROVE  Tidy(r)
  <1>1. ASSUME NEW i \in DOMAIN r PROVE r[i].typ # "rst"
    BY RemovedMap DEF Tidy
  <1>2. ASSUME NEW i \in DOMAIN r, NEW j \in DOMAIN r, r[i].fin, i < j PROVE r[j].typ # "data"
    <2>1. PICK m \in DOMAIN q : r[i] = q[m] /\ m \in Nat /\ (i < k => m = i) /\ (i >= k => m = i + 1)
      BY RemovedMap
    <2>2. PICK n \in DOMAIN q : r[j] = q[n] /\ n \in Nat /\ (j < k => n = j) /\ (j >= k => n = j + 1)
      BY RemovedMap
    <2>3. i \in Nat /\ j \in Nat /\ k \in Nat
      BY RemovedAt
    <2>4. m < n
      BY <1>2, <2>1, <2>2, <2>3
    <2> QED
      BY <1>2, <2>1, <2>2, <2>4 DEF Tidy
  <1> QED
    BY <1>1, <1>2 DEF Tidy

\* The first frame is taken off.
LEMMA TidyTail ==
  ASSUME NEW q \in Seq(Frames), q # <<>>, Tidy(q)
  PROVE  Tidy(Tail(q))
  <1>1. PICK r : r = Tail(q)
    OBVIOUS
  <1>2. r \in Seq(Frames) /\ \A i \in DOMAIN r : i + 1 \in DOMAIN q /\ r[i] = q[i + 1] /\ i \in Nat
    BY <1>1, TailAt
  <1>3. ASSUME NEW i \in DOMAIN r PROVE r[i].typ # "rst"
    BY <1>2 DEF Tidy
  <1>4. ASSUME NEW i \in DOMAIN r, NEW j \in DOMAIN r, r[i].fin, i < j PROVE r[j].typ # "data"
    <2>1. i + 1 < j + 1
      BY <1>2, <1>4
    <2> QED
      BY <1>2, <1>4, <2>1 DEF Tidy
  <1> QED
    BY <1>1, <1>3, <1>4 DEF Tidy

\* What stands in the middle of a chain, and what follows it.
LEMMA TidyMid ==
  ASSUME NEW a \in Seq(Frames), NEW b \in Seq(Frames), NEW c \in Seq(Frames), b # <<>>,
         Tidy(a \o b \o c)
  PROVE  /\ Head(b).typ # "rst"
         /\ Head(b).fin => NoData(Tail(b)) /\ NoData(c)
  <1>1. PICK q : q = a \o b \o c
    OBVIOUS
  <1>2. /\ Len(a) \in Nat /\ Len(b) \in Nat /\ Len(c) \in Nat
        /\ Len(q) = Len(a) + Len(b) + Len(c)
        /\ DOMAIN q = 1..Len(q)
        /\ \A i \in 1..Len(b) : q[Len(a) + i] = b[i]
        /\ \A i \in 1..Len(c) : q[Len(a) + Len(b) + i] = c[i]
    BY <1>1, ThreeAt
  <1>3. /\ Len(b) >= 1 /\ Head(b) = b[1] /\ DOMAIN c = 1..Len(c)
        /\ \A i \in DOMAIN Tail(b) : i \in Nat /\ i >= 1 /\ i + 1 \in 1..Len(b) /\ Tail(b)[i] = b[i + 1]
    OBVIOUS
  <1>4. Len(a) + 1 \in DOMAIN q /\ q[Len(a) + 1] = Head(b)
    BY <1>2, <1>3
  <1>5. ASSUME Head(b).fin, NEW i \in DOMAIN Tail(b) PROVE Tail(b)[i].typ # "data"
    <2>1. Len(a) + (i + 1) \in DOMAIN q /\ q[Len(a) + (i + 1)] = Tail(b)[i] /\ Len(a) + 1 < Len(a) + (i + 1)
      BY <1>2, <1>3
    <2> QED
      BY <1>1, <1>4, <1>5, <2>1 DEF Tidy
  <1>6. ASSUME Head(b).fin, NEW i \in DOMAIN c PROVE c[i].typ # "data"
    <2>1. Len(a) + Len(b) + i \in DOMAIN q /\ q[Len(a) + Len(b) + i] = c[i] /\ Len(a) + 1 < Len(a) + Len(b) + i
      BY <1>2, <1>3
    <2> QED
      BY <1>1, <1>4, <1>6, <2>1 DEF Tidy
  <1> QED
    BY <1>1, <1>4, <1>5, <1>6 DEF Tidy, NoData

\* A channel without data stays one when a frame that is not data joins it, and
\* when its first frame leaves it.
LEMMA NoDataAppend ==
  ASSUME NEW q \in Seq(Frames), NEW f \in Frames, NoData(q), f.typ # "data"
  PROVE  NoData(Append(q, f))
  BY AppendAt DEF NoData

\* A queue without data, shorter by one frame.
LEMMA NoDataTail ==
  ASSUME NEW q \in Seq(Frames), q # <<>>, NoData(q)
  PROVE  NoData(Tail(q)) /\ Head(q).typ # "data"
  <1>1. 1 \in DOMAIN q /\ Head(q) = q[1]
    OBVIOUS
  <1> QED
    BY <1>1, TailAt DEF NoData

\* Nobody was reset, so the sink of a Stream that is there works.
LEMMA Unbroken ==
  ASSUME NEW p \in Ends, NEW e \in Ends, Quiet(p, e), EndInv(p, e), stream[p].st # "dropped"
  PROVE  ~SinkErr(p) /\ handle[p].st # "removed"
  BY DEF Quiet, EndInv, SinkErr, Live

\* Nothing of the direction changed but its frames.
LEMMA QuietKept ==
  ASSUME NEW p \in Ends, NEW e \in Ends, Quiet(p, e),
         sinkClosed'[p] = sinkClosed[p], sysq'[p] = sysq[p],
         Tidy(Chain(p)'), Closed(e) => Closed(e)',
         handle'[p].dataWriteClosed => handle[p].dataWriteClosed,
         handle[p].dataWriteClosed =>
           (NoData(wire[e]) => NoData(wire'[e])) /\ (NoData(toSession[e]) => NoData(toSession'[e]))
  PROVE  Quiet(p, e)'
  BY DEF Quiet, Tidy, NoData

\* The frames on the way stay tidy while they are the same.
LEMMA TidyChain ==
  ASSUME NEW p \in Ends, NEW e \in Ends, Quiet(p, e), Chain(p)' = Chain(p)
  PROVE  Tidy(Chain(p)')
  BY DEF Quiet, Tidy

\* A Stream that was dropped stays so.
LEMMA DroppedStays ==
  ASSUME TypeOK, FlowInv, NEW x \in Ends, NEW e \in Ends, stream[e].st = "dropped",
         AppRead(x) \/ AppWrite(x) \/ AppClose(x) \/ WriterTask(x) \/ ReaderTask(x)
  PROVE  stream'[e].st = "dropped"
  <1>1. CASE AppRead(x) \/ AppWrite(x) \/ AppClose(x)
    <2>1. stream[x].st = "open"
      BY <1>1 DEF AppRead, AppWrite, AppClose, ReadRecv, Read, WriteRecv, WriteFail, FlushFail,
                  MayWrite, Write, Shutdown, DropStream
    <2>2. e # x
      BY <2>1
    <2>3. PICK t : stream' = [stream EXCEPT ![x] = t]
      <3>1. CASE ReadRecv(x) \/ WriteRecv(x)
        BY <3>1 DEF ReadRecv, WriteRecv, RecvFrame
      <3>2. CASE WriteFail(x) \/ FlushFail(x) \/ Shutdown(x)
        BY <3>2 DEF WriteFail, FlushFail, Shutdown, SinkFailed
      <3>3. CASE DropStream(x)
        BY <3>3 DEF DropStream
      <3>4. CASE \E n \in ReadSizes : Read(x, n)
        BY <3>4 DEF Read
      <3>5. CASE \E n \in WriteSizes : Write(x, n)
        BY <3>5 DEF Write
      <3> QED
        BY <1>1, <3>1, <3>2, <3>3, <3>4, <3>5 DEF AppRead, AppWrite, AppClose
    <2> QED
      BY <2>2, <2>3 DEF TypeOK
  <1>2. CASE WriterTask(x)
    BY <1>2 DEF WriterTask, SendSys, RemoveReset, SendFrame, RemoveDropped
  <1>3. CASE ReadSyn(x)
    <2>1. handle[x].st = "none" /\ stream' = [stream EXCEPT ![x] = NewStream(x, "open")]
      BY <1>3 DEF ReadSyn
    <2>2. stream[x].st = "unborn"
      <3>1. stream[x] = NewStream(x, "unborn")
        BY <2>1 DEF FlowInv, Untouched
      <3> QED
        BY <3>1 DEF NewStream
    <2>3. e # x
      BY <2>2
    <2> QED
      BY <2>1, <2>3 DEF TypeOK
  <1>4. CASE ReaderTask(x) /\ ~ReadSyn(x)
    BY <1>4 DEF ReaderTask, ReadRst, Deliver, Stall, Ignore, RefuseUnknown, RefuseClosed, RefuseFlow, Refuse
  <1> QED
    BY <1>1, <1>2, <1>3, <1>4

\* A frame is taken off the channel.
LEMMA RecvQuiet ==
  ASSUME TypeOK, NEW x \in Ends, NEW y \in Ends, y = Peer(x), DirInv(x, y), DirInv(y, x),
         Quiet(x, y), Quiet(y, x), stream[x].st = "open", RecvFrame(x)
  PROVE  Quiet(x, y)' /\ Quiet(y, x)'
  <1>0. y # x /\ x = Peer(y)
    BY PeerType
  <1>1. /\ handle' = handle /\ sinkClosed' = sinkClosed /\ toSession' = toSession /\ sysq' = sysq
        /\ wire' = wire
    BY DEF RecvFrame
  <1>2. ~InboundClosed(x)
    BY Unbroken DEF DirInv, InboundClosed
  <1>3. /\ toStream[x] # <<>> /\ toStream' = [toStream EXCEPT ![x] = Tail(@)]
        /\ stream' = [stream EXCEPT ![x] = HandledBy(x, Head(toStream[x]))]
    BY <1>2 DEF RecvFrame
  <1>4. /\ stream'[y] = stream[y] /\ toStream'[y] = toStream[y] /\ toStream'[x] = Tail(toStream[x])
        /\ stream'[x] = HandledBy(x, Head(toStream[x]))
    BY <1>0, <1>3 DEF TypeOK
  <1>5. Closed(x)' <=> Closed(x)
    <2>1. PICK t, g : t = stream'[x] /\ g = Head(toStream[x])
      OBVIOUS
    <2>2. t = HandledBy(x, g) /\ stream[x] \in Streams
      BY <1>4, <2>1, Ints
    <2>3. t.st = stream[x].st /\ t.writeClosed = stream[x].writeClosed
      BY <2>2, HandledKeeps
    <2> QED
      BY <2>1, <2>3 DEF Closed
  <1>6. Closed(y)' <=> Closed(y)
    BY <1>4 DEF Closed
  <1>7. Tidy(Chain(y)')
    <2>1. Chain(y)' = Chain(y)
      BY <1>0, <1>1, <1>4 DEF Chain
    <2> QED
      BY <2>1, TidyChain
  <1>8. Tidy(Chain(x)')
    <2>1. PICK a, b, c : a = toStream[x] /\ b = wire[y] /\ c = toSession[y]
      OBVIOUS
    <2>2. a \in Seq(Frames) /\ b \in Seq(Frames) /\ c \in Seq(Frames) /\ a # <<>>
      BY <1>3, <2>1, Ints
    <2>3. PICK q : q = a \o b \o c
      OBVIOUS
    <2>4. q \in Seq(Frames) /\ q # <<>> /\ Tail(a) \o b \o c = Tail(q)
      BY <2>2, <2>3, TailFirst, ThreeAt
    <2>5. Tidy(q)
      BY <2>1, <2>3 DEF Quiet, Chain
    <2>6. Tidy(Tail(q))
      BY <2>4, <2>5, TidyTail
    <2>7. Chain(x)' = Tail(q)
      BY <1>1, <1>4, <2>1, <2>4 DEF Chain
    <2> QED
      BY <2>6, <2>7
  <1>9. Quiet(x, y)'
    BY <1>1, <1>6, <1>8, QuietKept
  <1>10. Quiet(y, x)'
    BY <1>1, <1>5, <1>7, QuietKept
  <1> QED
    BY <1>9, <1>10

\* The frame f is queued: an increment, or data when the writer is not closed.
LEMMA QueuedQuiet ==
  ASSUME TypeOK, NEW x \in Ends, NEW y \in Ends, y = Peer(x), DirInv(x, y), DirInv(y, x),
         Quiet(x, y), Quiet(y, x), NEW f \in Frames, OtherSame(y),
         handle' = handle, sinkClosed' = sinkClosed, sysq' = sysq, wire' = wire,
         toStream' = toStream, toSession'[x] = Append(toSession[x], f),
         Closed(x) => Closed(x)', f.typ # "rst", f.typ = "data" => ~Closed(x)
  PROVE  Quiet(x, y)' /\ Quiet(y, x)'
  <1>0. y # x /\ x = Peer(y)
    BY PeerType
  <1>1. Chain(y)' = Append(Chain(y), f)
    BY <1>0, QueuedLast
  <1>2. PICK q : q = Chain(y)
    OBVIOUS
  <1>3. q \in Seq(Frames) /\ Tidy(q)
    BY <1>2, PipeType DEF Quiet
  <1>4. f.typ = "data" => \A i \in DOMAIN q : ~q[i].fin
    BY <1>2 DEF DirInv, ChainInv, Carries, FinsLast
  <1>5. Tidy(Chain(y)')
    BY <1>1, <1>2, <1>3, <1>4, TidyAppend
  <1>6. handle[y].dataWriteClosed => (NoData(toSession[x]) => NoData(toSession'[x]))
    <2>1. toSession[x] \in Seq(Frames) /\ (handle[y].dataWriteClosed => f.typ # "data")
      BY Ints DEF Quiet
    <2> QED
      BY <2>1, NoDataAppend
  <1>7. Quiet(y, x)'
    BY <1>5, <1>6, QuietKept
  <1>8. Chain(x)' = Chain(x) /\ (Closed(y)' <=> Closed(y)) /\ toSession'[y] = toSession[y]
    BY <1>0, OtherFacts DEF Chain, OtherSame
  <1>9. Quiet(x, y)'
    BY <1>8, TidyChain, QuietKept
  <1> QED
    BY <1>7, <1>9

\* The application's steps.
LEMMA AppQuiet ==
  ASSUME TypeOK, NEW x \in Ends, NEW y \in Ends, y = Peer(x), DirInv(x, y), DirInv(y, x),
         Quiet(x, y), Quiet(y, x), stream'[x].st # "dropped",
         AppRead(x) \/ AppWrite(x) \/ AppClose(x)
  PROVE  Quiet(x, y)' /\ Quiet(y, x)'
  <1>0. y # x /\ x = Peer(y) /\ sent[x] \in Nat /\ rd[x] \in Nat
    BY PeerType, Ints
  <1>1. stream[x].st = "open"
    BY DEF AppRead, AppWrite, AppClose, ReadRecv, Read, WriteRecv, WriteFail, FlushFail,
           MayWrite, Write, Shutdown, DropStream
  <1>2. ~SinkErr(x)
    BY <1>1, Unbroken DEF DirInv
  <1>3. CASE ReadRecv(x) \/ WriteRecv(x)
    BY <1>1, <1>3, RecvQuiet DEF ReadRecv, WriteRecv
  <1>4. ASSUME NEW n \in ReadSizes, Read(x, n) PROVE Quiet(x, y)' /\ Quiet(y, x)'
    <2>1. PICK k : k = LesserOf(stream[x].readBuf, n)
      OBVIOUS
    <2>2. k \in Nat
      BY <2>1, PipeType, BoundAssumption DEF LesserOf
    <2>3. /\ handle' = handle /\ sinkClosed' = sinkClosed /\ toStream' = toStream /\ sysq' = sysq
          /\ wire' = wire /\ sent' = sent
          /\ toSession' = [toSession EXCEPT ![x] = Append(@, WndInc(rd[x], k))]
          /\ stream' = [stream EXCEPT ![x].readBuf = @ - k] /\ rd' = [rd EXCEPT ![x] = @ + k]
      BY <1>2, <1>4, <2>1 DEF Read
    <2>4. PICK f : f = WndInc(rd[x], k)
      OBVIOUS
    <2>5. f \in Frames /\ f.typ = "wndinc"
      BY <1>0, <2>2, <2>4, WndIncType DEF WndInc, Frame
    <2>6. toSession'[x] = Append(toSession[x], f) /\ OtherSame(y)
      BY <1>0, <2>3, <2>4 DEF OtherSame, TypeOK
    <2>7. stream'[x].st = stream[x].st /\ stream'[x].writeClosed = stream[x].writeClosed
      BY <2>3 DEF TypeOK, Streams
    <2>8. (Closed(x) => Closed(x)') /\ f.typ # "rst" /\ (f.typ = "data" => ~Closed(x))
      BY <2>5, <2>7 DEF Closed
    <2> QED
      BY <2>3, <2>5, <2>6, <2>8, QueuedQuiet
  <1>5. ASSUME NEW n \in WriteSizes, Write(x, n) PROVE Quiet(x, y)' /\ Quiet(y, x)'
    <2>1. PICK k : k = LesserOf(stream[x].window, n)
      OBVIOUS
    <2>2. k \in Nat
      BY <2>1, Ints, BoundAssumption DEF LesserOf
    <2>3. /\ handle' = handle /\ sinkClosed' = sinkClosed /\ toStream' = toStream /\ sysq' = sysq
          /\ wire' = wire /\ rd' = rd
          /\ toSession' = [toSession EXCEPT ![x] = Append(@, Data(stream[x].needsSyn, sent[x], k))]
          /\ stream' = [stream EXCEPT ![x].window = @ - k, ![x].needsSyn = FALSE]
          /\ sent' = [sent EXCEPT ![x] = @ + k] /\ ~stream[x].writeClosed
      BY <1>5, <2>1 DEF Write, MayWrite
    <2>4. PICK f : f = Data(stream[x].needsSyn, sent[x], k)
      OBVIOUS
    <2>5. f \in Frames /\ f.typ = "data"
      BY <1>0, <2>2, <2>4, PipeType, DataType DEF Data, Frame
    <2>6. toSession'[x] = Append(toSession[x], f) /\ OtherSame(y)
      BY <1>0, <2>3, <2>4 DEF OtherSame, TypeOK
    <2>7. ~Closed(x) /\ f.typ # "rst"
      BY <1>1, <2>3, <2>5 DEF Closed
    <2> QED
      BY <2>3, <2>5, <2>6, <2>7, QueuedQuiet
  <1>6. CASE WriteFail(x) \/ FlushFail(x) \/ SinkFailed(x)
    BY <1>2, <1>6 DEF WriteFail, FlushFail, SinkFailed
  <1>7. CASE Shutdown(x) /\ ~SinkFailed(x)
    <2>3. /\ handle' = handle /\ sinkClosed' = sinkClosed /\ toStream' = toStream /\ sysq' = sysq
          /\ wire' = wire /\ rd' = rd /\ sent' = sent
          /\ toSession' = [toSession EXCEPT ![x] = Append(@, Fin(sent[x]))]
          /\ stream' = [stream EXCEPT ![x].writeClosed = TRUE] /\ ~stream[x].writeClosed
      BY <1>7 DEF Shutdown
    <2>4. PICK f : f = Fin(sent[x])
      OBVIOUS
    <2>5. f \in Frames /\ f.typ = "data"
      BY <1>0, <2>4, FinType DEF Fin, Frame
    <2>6. toSession'[x] = Append(toSession[x], f) /\ OtherSame(y)
      BY <1>0, <2>3, <2>4 DEF OtherSame, TypeOK
    <2>7. ~Closed(x) /\ f.typ # "rst"
      BY <1>1, <2>3, <2>5 DEF Closed
    <2> QED
      BY <2>3, <2>5, <2>6, <2>7, QueuedQuiet
  <1>8. CASE DropStream(x)
    <2>1. stream' = [stream EXCEPT ![x].st = "dropped"]
      BY <1>8 DEF DropStream
    <2>2. stream'[x].st = "dropped"
      BY <2>1 DEF TypeOK, Streams
    <2> QED
      BY <2>2
  <1> QED
    BY <1>3, <1>4, <1>5, <1>6, <1>7, <1>8 DEF AppRead, AppWrite, AppClose

\* The writer's steps: without a reset there is only a frame to send.
LEMMA WriterQuiet ==
  ASSUME TypeOK, NEW x \in Ends, NEW y \in Ends, y = Peer(x), DirInv(x, y), DirInv(y, x),
         Quiet(x, y), Quiet(y, x), stream[x].st # "dropped", WriterTask(x)
  PROVE  Quiet(x, y)' /\ Quiet(y, x)'
  <1>0. y # x /\ x = Peer(y)
    BY PeerType
  <1>1. SendFrame(x)
    <2>1. ~SendSys(x)
      BY DEF SendSys, Quiet
    <2>2. ~RemoveReset(x)
      BY DEF RemoveReset, ResetHere, Quiet
    <2>3. ~RemoveDropped(x)
      BY DEF RemoveDropped, TaskReady
    <2> QED
      BY <2>1, <2>2, <2>3 DEF WriterTask
  <1>2. PICK f : f = Head(toSession[x])
    OBVIOUS
  <1>3. /\ sysq' = sysq /\ stream' = stream /\ toStream' = toStream /\ sinkClosed' = sinkClosed
        /\ toSession[x] # <<>>
        /\ toSession' = [toSession EXCEPT ![x] = Tail(@)]
        /\ wire' = [wire EXCEPT ![x] = Append(@, f)]
    BY <1>1, <1>2 DEF SendFrame, Transmit
  <1>4. PICK w, k : handle' = [handle EXCEPT ![x].window = w, ![x].needsFin = k]
    BY <1>1 DEF SendFrame
  <1>5. /\ toSession'[y] = toSession[y] /\ toSession'[x] = Tail(toSession[x])
        /\ wire'[y] = wire[y] /\ wire'[x] = Append(wire[x], f)
        /\ handle'[y] = handle[y]
    BY <1>0, <1>3, <1>4 DEF TypeOK
  <1>6. handle'[x].dataWriteClosed = handle[x].dataWriteClosed
    BY <1>4 DEF TypeOK, Handles
  <1>7. Chain(y)' = Chain(y)
    <2>1. PICK a, b, c : a = toStream[y] /\ b = wire[x] /\ c = toSession[x]
      OBVIOUS
    <2>2. a \in Seq(Frames) /\ b \in Seq(Frames) /\ c \in Seq(Frames) /\ c # <<>>
      BY <1>3, <2>1, Ints
    <2>3. a \o Append(b, Head(c)) \o Tail(c) = a \o b \o c
      BY <2>2, MoveSecond
    <2> QED
      BY <1>0, <1>2, <1>3, <1>5, <2>1, <2>3 DEF Chain
  <1>8. Chain(x)' = Chain(x)
    BY <1>3, <1>5 DEF Chain
  <1>9. (Closed(x)' <=> Closed(x)) /\ (Closed(y)' <=> Closed(y))
    BY <1>3 DEF Closed
  <1>10. Quiet(x, y)'
    BY <1>3, <1>5, <1>6, <1>8, <1>9, TidyChain, QuietKept
  <1>11. Quiet(y, x)'
    <2>1. wire[x] \in Seq(Frames) /\ toSession[x] \in Seq(Frames) /\ f \in Frames
      BY <1>2, <1>3, Ints, TailAt
    <2>2. handle[y].dataWriteClosed => NoData(wire'[x]) /\ NoData(toSession'[x])
      BY <1>2, <1>3, <1>5, <2>1, NoDataTail, NoDataAppend DEF Quiet
    <2> QED
      BY <1>3, <1>5, <1>7, <1>9, <2>2, TidyChain, QuietKept
  <1> QED
    BY <1>10, <1>11

\* Data that arrives belongs to a stream whose SYN was read.
LEMMA DataIsKnown ==
  ASSUME TypeOK, NEW x \in Ends, NEW y \in Ends, y = Peer(x), SynInv(x, y),
         Reading(x, "data"), ~Arriving(x).fin
  PROVE  handle[x].st # "none"
  <1> SUFFICES ASSUME handle[x].st = "none" PROVE FALSE
    OBVIOUS
  <1>1. toStream[x] = <<>> /\ Opened(Chain(x), stream[y].needsSyn)
    BY DEF SynInv
  <1>2. wire[y] # <<>> /\ Arriving(x).typ = "data" /\ ~Arriving(x).syn
    BY DEF Reading
  <1>3. PICK a, b, c : a = toStream[x] /\ b = wire[y] /\ c = toSession[y]
    OBVIOUS
  <1>4. PICK q : q = a \o b \o c
    OBVIOUS
  <1>5. 1 \in DOMAIN q /\ q[1] = Head(b) /\ \A j \in DOMAIN q : j <= 1 => j = 1
    <2>1. a \in Seq(Frames) /\ b \in Seq(Frames) /\ c \in Seq(Frames) /\ b # <<>> /\ Len(a) = 0
      BY <1>1, <1>2, <1>3, PeerType, Ints
    <2>2. q \in Seq(Frames) /\ 1 \in 1..Len(q) /\ q[1] = Head(b)
      BY <1>4, <2>1, ThreeAt, TailMid DEF Removed
    <2> QED
      BY <2>2
  <1>6. q = Chain(x) /\ q[1] = Arriving(x)
    BY <1>3, <1>4, <1>5 DEF Chain, Arriving
  <1> QED
    BY <1>1, <1>2, <1>5, <1>6 DEF Opened

\* No reset and no refusal.
LEMMA NothingRefused ==
  ASSUME TypeOK, NEW x \in Ends, NEW y \in Ends, y = Peer(x), DirInv(x, y), Quiet(x, y),
         stream[x].st # "dropped", wire[y] # <<>>
  PROVE  /\ Arriving(x).typ # "rst"
         /\ Arriving(x).fin => NoData(Tail(wire[y])) /\ NoData(toSession[y])
         /\ ~RefuseUnknown(x) /\ ~RefuseClosed(x)
         /\ handle[x].dataWriteClosed => Arriving(x).typ # "data"
  <1>1. PICK a, b, c : a = toStream[x] /\ b = wire[y] /\ c = toSession[y]
    OBVIOUS
  <1>2. a \in Seq(Frames) /\ b \in Seq(Frames) /\ c \in Seq(Frames) /\ b # <<>> /\ Head(b) = Arriving(x)
    BY <1>1, Ints DEF Arriving
  <1>3. Tidy(a \o b \o c)
    BY <1>1 DEF Quiet, Chain
  <1>4. Head(b).typ # "rst" /\ (Head(b).fin => NoData(Tail(b)) /\ NoData(c))
    BY <1>2, <1>3, TidyMid
  <1>5. handle[x].dataWriteClosed => Arriving(x).typ # "data"
    BY <1>1, <1>2, NoDataTail DEF Quiet
  <1>6. handle[x].st # "removed"
    BY Unbroken DEF DirInv
  <1>7. ~RefuseUnknown(x)
    <2>1. handle[x].st \in {"none", "live", "removed"}
      BY Ints DEF Handles
    <2> QED
      BY <1>6, <2>1, DataIsKnown DEF RefuseUnknown, Refuse, DirInv
  <1>8. ~RefuseClosed(x)
    BY <1>5 DEF RefuseClosed, Refuse, Reading
  <1> QED
    BY <1>1, <1>2, <1>4, <1>5, <1>7, <1>8

\* A frame is passed on.
LEMMA DeliverQuiet ==
  ASSUME TypeOK, NEW x \in Ends, NEW y \in Ends, y = Peer(x), DirInv(x, y), DirInv(y, x),
         Quiet(x, y), Quiet(y, x), stream[x].st # "dropped", Deliver(x)
  PROVE  Quiet(x, y)' /\ Quiet(y, x)'
  <1>0. y # x /\ x = Peer(y)
    BY PeerType
  <1>1. PICK f : f = Arriving(x)
    OBVIOUS
  <1>2. /\ stream' = stream /\ sinkClosed' = sinkClosed /\ toSession' = toSession /\ sysq' = sysq
        /\ wire[y] # <<>>
        /\ toStream' = [toStream EXCEPT ![x] = Append(@, f)]
        /\ wire' = [wire EXCEPT ![y] = Tail(@)]
    BY <1>1 DEF Deliver, Reading, Consume
  <1>3. handle'[y] = handle[y] /\ (handle'[x].dataWriteClosed => handle[x].dataWriteClosed \/ f.fin)
    <2>1. CASE f.typ = "data"
      <3>1. PICK w, b : b = (handle[x].dataWriteClosed \/ Arriving(x).fin) /\ w = handle[x].window - ToShrink(x)
        OBVIOUS
      <3>2. handle' = [handle EXCEPT ![x].window = w, ![x].dataWriteClosed = b]
        BY <1>1, <2>1, <3>1, Zenon DEF Deliver, Counted
      <3>3. handle'[y] = handle[y] /\ handle'[x].dataWriteClosed = b
        BY <1>0, <3>2 DEF TypeOK, Handles
      <3> QED
        BY <1>1, <3>1, <3>3
    <2>2. CASE f.typ # "data"
      BY <1>1, <2>2 DEF Deliver
    <2> QED
      BY <2>1, <2>2
  <1>4. wire'[x] = wire[x] /\ wire'[y] = Tail(wire[y]) /\ toStream'[x] = Append(toStream[x], f)
        /\ toStream'[y] = toStream[y]
    BY <1>0, <1>2 DEF TypeOK
  <1>5. (Closed(x)' <=> Closed(x)) /\ (Closed(y)' <=> Closed(y))
    BY <1>2 DEF Closed
  <1>6. Quiet(y, x)'
    <2>1. Chain(y)' = Chain(y)
      BY <1>0, <1>2, <1>4 DEF Chain
    <2> QED
      BY <1>2, <1>3, <1>4, <1>5, <2>1, TidyChain, QuietKept
  <1>7. PICK a, b, c : a = toStream[x] /\ b = wire[y] /\ c = toSession[y]
    OBVIOUS
  <1>8. a \in Seq(Frames) /\ b \in Seq(Frames) /\ c \in Seq(Frames) /\ b # <<>> /\ f \in Frames /\ f = Head(b)
    BY <1>1, <1>2, <1>7, Ints DEF Arriving
  <1>9. Chain(x)' = Chain(x)
    <2>1. Append(a, Head(b)) \o Tail(b) \o c = a \o b \o c
      BY <1>8, MoveFirst
    <2> QED
      BY <1>2, <1>4, <1>7, <1>8, <2>1 DEF Chain
  <1>10. f.fin => Closed(y)
    <2>1. PICK q, k : q = a \o b \o c /\ k = Len(a) + 1
      OBVIOUS
    <2>2. k \in DOMAIN q /\ q[k] = f
      BY <1>8, <2>1
    <2>3. FinsLast(q, sent[y], Closed(y))
      BY <1>7, <2>1 DEF DirInv, ChainInv, Carries, Chain
    <2> QED
      BY <2>2, <2>3 DEF FinsLast
  <1>11. Quiet(x, y)'
    <2>1. f.fin => NoData(Tail(wire[y])) /\ NoData(toSession[y])
      BY <1>1, <1>2, NothingRefused
    <2>2. handle[x].dataWriteClosed => NoData(Tail(wire[y])) /\ NoData(toSession[y]) /\ Closed(y)
      BY <1>7, <1>8, NoDataTail DEF Quiet
    <2>3. handle'[x].dataWriteClosed => Closed(y)' /\ NoData(wire'[y]) /\ NoData(toSession'[y])
      BY <1>2, <1>3, <1>4, <1>5, <1>10, <2>1, <2>2
    <2>4. Tidy(Chain(x)')
      BY <1>9, TidyChain
    <2>5. ~sinkClosed'[x] /\ sysq'[x] = <<>>
      BY <1>2 DEF Quiet
    <2> QED
      BY <2>3, <2>4, <2>5 DEF Quiet, Tidy, NoData
  <1> QED
    BY <1>6, <1>11

\* An increment or a FIN for a stream nobody knows yet.
LEMMA IgnoreQuiet ==
  ASSUME TypeOK, NEW x \in Ends, NEW y \in Ends, y = Peer(x), DirInv(x, y), DirInv(y, x),
         Quiet(x, y), Quiet(y, x), stream[x].st # "dropped", Ignore(x)
  PROVE  Quiet(x, y)' /\ Quiet(y, x)'
  <1>0. y # x /\ x = Peer(y)
    BY PeerType
  <1>1. /\ wire[y] # <<>> /\ stream' = stream /\ toSession' = toSession /\ toStream' = toStream
        /\ sysq' = sysq /\ sinkClosed' = sinkClosed
        /\ wire' = [wire EXCEPT ![y] = Tail(@)]
    BY DEF Ignore, Reading, Consume
  <1>2. handle[x].st # "live"
    BY <1>1, NothingRefused DEF Ignore, Reading
  <1>3. PICK b : b = (handle[x].dataWriteClosed \/ (Arriving(x).fin /\ handle[x].st = "live"))
    OBVIOUS
  <1>4. handle' = [handle EXCEPT ![x].dataWriteClosed = b]
    BY <1>3, Zenon DEF Ignore
  <1>5. handle'[y] = handle[y] /\ handle'[x].dataWriteClosed = b /\ (b => handle[x].dataWriteClosed)
    BY <1>0, <1>2, <1>3, <1>4 DEF TypeOK, Handles
  <1>6. (Closed(x)' <=> Closed(x)) /\ (Closed(y)' <=> Closed(y))
    BY <1>1 DEF Closed
  <1>7. wire'[x] = wire[x] /\ wire'[y] = Tail(wire[y])
    BY <1>0, <1>1 DEF TypeOK
  <1>8. Quiet(y, x)'
    <2>1. Chain(y)' = Chain(y)
      BY <1>0, <1>1, <1>7 DEF Chain
    <2> QED
      BY <1>1, <1>5, <1>6, <1>7, <2>1, TidyChain, QuietKept
  <1>9. PICK a, s, c : a = toStream[x] /\ s = wire[y] /\ c = toSession[y]
    OBVIOUS
  <1>10. a \in Seq(Frames) /\ s \in Seq(Frames) /\ c \in Seq(Frames) /\ s # <<>> /\ Tail(s) \in Seq(Frames)
    BY <1>1, <1>9, Ints, TailAt
  <1>11. PICK q, r, k : q = a \o s \o c /\ r = a \o Tail(s) \o c /\ k = Len(a) + 1
    OBVIOUS
  <1>12. q \in Seq(Frames) /\ r \in Seq(Frames) /\ Removed(q, k, r)
    BY <1>10, <1>11, ThreeAt, TailMid
  <1>13. q = Chain(x) /\ r = Chain(x)'
    BY <1>1, <1>7, <1>9, <1>11 DEF Chain
  <1>14. Tidy(Chain(x)')
    <2>1. Tidy(q)
      BY <1>13 DEF Quiet
    <2>2. Tidy(r)
      BY <1>12, <2>1, TidyRemoved
    <2> QED
      BY <1>13, <2>2
  <1>15. NoData(wire[y]) => NoData(wire'[y])
    BY <1>7, <1>9, <1>10, NoDataTail
  <1>16. Quiet(x, y)'
    BY <1>1, <1>5, <1>6, <1>14, <1>15, QuietKept
  <1> QED
    BY <1>8, <1>16

\* The reader's steps.
LEMMA ReaderQuiet ==
  ASSUME TypeOK, NEW x \in Ends, NEW y \in Ends, y = Peer(x), DirInv(x, y), DirInv(y, x),
         Quiet(x, y), Quiet(y, x), stream[x].st # "dropped", Untouched(x), ~RefuseFlow(x), ReaderTask(x)
  PROVE  Quiet(x, y)' /\ Quiet(y, x)'
  <1>0. y # x /\ x = Peer(y)
    BY PeerType
  <1>1. CASE ReadSyn(x)
    <2>1. /\ sinkClosed' = sinkClosed /\ toSession' = toSession /\ toStream' = toStream
          /\ sysq' = sysq /\ wire' = wire /\ handle[x].st = "none"
          /\ handle' = [handle EXCEPT ![x] = NewHandle(x, "live")]
          /\ stream' = [stream EXCEPT ![x] = NewStream(x, "open")]
      BY <1>1 DEF ReadSyn
    <2>2. handle'[y] = handle[y] /\ stream'[y] = stream[y] /\ handle'[x] = NewHandle(x, "live")
      BY <1>0, <2>1 DEF TypeOK
    <2>3. ~handle'[x].dataWriteClosed
      BY <2>2 DEF NewHandle
    <2>4. ~Closed(x)
      <3>1. stream[x] = NewStream(x, "unborn")
        BY <2>1 DEF Untouched
      <3> QED
        BY <3>1 DEF NewStream, Closed
    <2>5. Chain(x)' = Chain(x) /\ Chain(y)' = Chain(y) /\ (Closed(y)' <=> Closed(y))
      BY <2>1, <2>2 DEF Chain, Closed
    <2>6. Quiet(x, y)'
      BY <2>1, <2>3, <2>5, TidyChain, QuietKept
    <2>7. Quiet(y, x)'
      BY <2>1, <2>2, <2>4, <2>5, TidyChain, QuietKept
    <2> QED
      BY <2>6, <2>7
  <1>2. CASE Deliver(x)
    BY <1>2, DeliverQuiet
  <1>3. CASE Ignore(x)
    BY <1>3, IgnoreQuiet
  <1>4. CASE Stall(x)
    <2>1. /\ stream' = stream /\ sinkClosed' = sinkClosed /\ toSession' = toSession
          /\ toStream' = toStream /\ sysq' = sysq /\ wire' = wire
      BY <1>4 DEF Stall
    <2>2. PICK w : handle' = [handle EXCEPT ![x].window = w]
      BY <1>4 DEF Stall
    <2>3. handle'[y] = handle[y] /\ handle'[x].dataWriteClosed = handle[x].dataWriteClosed
      BY <1>0, <2>2 DEF TypeOK, Handles
    <2>4. /\ Chain(x)' = Chain(x) /\ Chain(y)' = Chain(y)
          /\ (Closed(x)' <=> Closed(x)) /\ (Closed(y)' <=> Closed(y))
      BY <2>1 DEF Chain, Closed
    <2> QED
      BY <2>1, <2>3, <2>4, TidyChain, QuietKept
  <1>5. CASE ReadRst(x) \/ RefuseUnknown(x) \/ RefuseClosed(x)
    <2>1. wire[y] # <<>>
      BY <1>5 DEF ReadRst, RefuseUnknown, RefuseClosed, Refuse, Reading
    <2> QED
      BY <1>5, <2>1, NothingRefused DEF ReadRst, Reading
  <1> QED
    BY <1>1, <1>2, <1>3, <1>4, <1>5 DEF ReaderTask

\* Nobody has been refused at first.
LEMMA InitQuiet == Init => QuietInv
  <1> SUFFICES ASSUME Init, NEW p \in Ends PROVE Quiet(p, Peer(p))
    BY DEF QuietInv
  <1>1. Peer(p) \in Ends
    BY PeerType
  <1>2. \A x \in Ends : toSession[x] = <<>> /\ toStream[x] = <<>> /\ wire[x] = <<>> /\ sysq[x] = <<>>
                        /\ ~sinkClosed[x] /\ ~handle[x].dataWriteClosed
    BY DEF Init, NewHandle
  <1>3. Chain(p) = <<>>
    BY <1>1, <1>2 DEF Chain
  <1>4. DOMAIN Chain(p) = {}
    BY <1>3
  <1> QED
    BY <1>2, <1>4 DEF Quiet, Tidy

\* Every step keeps that, between equal windows.
LEMMA NextQuiet ==
  ASSUME SameWindow
  PROVE  TypeOK /\ TypeOK' /\ FlowInv /\ PipeInv /\ QuietInv /\ [Next]_vars => QuietInv'
  <1> SUFFICES ASSUME TypeOK, TypeOK', FlowInv, PipeInv, QuietInv, [Next]_vars PROVE QuietInv'
    OBVIOUS
  <1>1. CASE UNCHANGED vars
    <2>1. \A p \in Ends : Chain(p)' = Chain(p)
      BY <1>1 DEF vars, Chain
    <2>2. \A e \in Ends : (Closed(e)' <=> Closed(e))
      BY <1>1 DEF vars, Closed
    <2>3. NobodyDropped' => NobodyDropped
      BY <1>1 DEF vars, NobodyDropped
    <2>4. ASSUME NEW p \in Ends, Quiet(p, Peer(p)) PROVE Quiet(p, Peer(p))'
      BY <1>1, <2>1, <2>2, <2>4, PeerType, TidyChain, QuietKept DEF vars
    <2> QED
      BY <2>3, <2>4 DEF QuietInv
  <1>2. ASSUME NEW x \in Ends,
               AppRead(x) \/ AppWrite(x) \/ AppClose(x) \/ WriterTask(x) \/ ReaderTask(x)
        PROVE  QuietInv'
    <2> SUFFICES ASSUME NobodyDropped' PROVE \A p \in Ends : Quiet(p, Peer(p))'
      BY DEF QuietInv
    <2>1. PICK y \in Ends : y = Peer(x) /\ x = Peer(y) /\ y # x
      BY PeerType
    <2>2. NobodyDropped
      BY <1>2, DroppedStays DEF NobodyDropped
    <2>3. Quiet(x, y) /\ Quiet(y, x) /\ DirInv(x, y) /\ DirInv(y, x)
      BY <2>1, <2>2 DEF QuietInv, PipeInv
    <2>4. stream[x].st # "dropped" /\ stream'[x].st # "dropped"
      BY <2>2 DEF NobodyDropped
    <2>5. Untouched(x) /\ ~RefuseFlow(x)
      BY NeverOverWindow DEF FlowInv
    <2>6. Quiet(x, y)' /\ Quiet(y, x)'
      BY <1>2, <2>1, <2>3, <2>4, <2>5, AppQuiet, WriterQuiet, ReaderQuiet
    <2>7. \A p \in Ends : p = x \/ p = y
      BY <2>1 DEF Ends, Peer
    <2> QED
      BY <2>1, <2>6, <2>7
  <1> QED
    BY <1>1, <1>2 DEF Next

\* What is on its way covers what was written and not taken.
LEMMA QuietIsWhole ==
  ASSUME TypeOK, PipeInv, QuietInv
  PROVE  NoByteLost
  <1> SUFFICES ASSUME NobodyDropped, NEW p \in Ends
               PROVE  Contiguous(Chain(p), Base(p), sent[Peer(p)])
    BY DEF NoByteLost, NobodyDropped, Chain, Base
  <1>1. PICK e \in Ends : e = Peer(p) /\ p = Peer(e)
    BY PeerType
  <1>2. Quiet(p, e) /\ Quiet(e, p) /\ DirInv(p, e) /\ DirInv(e, p)
    BY <1>1 DEF QuietInv, PipeInv
  <1>3. ~SinkErr(e) /\ Live(p)
    BY <1>2, Unbroken DEF NobodyDropped, DirInv, Quiet, Live
  <1>4. /\ Within(Chain(p), "data", Base(p), sent[e]) /\ Ordered(Chain(p), "data")
        /\ Joined(Chain(p), Base(p)) /\ Reaches(Chain(p), Base(p), sent[e])
    BY <1>2, <1>3 DEF DirInv, ChainInv, Carries
  <1> QED
    BY <1>1, <1>4, ContiguousIs DEF Contiguous

(***************************************************************************)
(* Between two ends with the same window, as long as no Stream is dropped, *)
(* every byte poll_write took is read, buffered or on its way, once, for   *)
(* every window, capacity and size of buffer: the stalls and retries of    *)
(* send_to_stream, half-closes and the handover of the SYN frame lose and  *)
(* repeat nothing.  With windows that differ the reader answers with       *)
(* FLOW_CONTROL and bytes are lost, so the assumption is needed.           *)
(***************************************************************************)
THEOREM LosesNoByte == ASSUME SameWindow PROVE Spec => []NoByteLost
  <1>1. Init => QuietInv
    BY InitQuiet
  <1>2. TypeOK /\ TypeOK' /\ FlowInv /\ PipeInv /\ QuietInv /\ [Next]_vars => QuietInv'
    BY NextQuiet
  <1>3. TypeOK /\ PipeInv /\ QuietInv => NoByteLost
    BY QuietIsWhole
  <1> QED
    BY <1>1, <1>2, <1>3, Typing, Accounting, Piped, PTL DEF Spec
============================================================================
