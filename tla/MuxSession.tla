----------------------------- MODULE MuxSession -----------------------------
(***************************************************************************)
(* A muxado session between two ends: the life of the session and of the   *)
(* streams in it.  Each end has                                            *)
(*   - the application, which opens, accepts, uses and drops streams,      *)
(*     closes the session or drops it (MuxadoOpen, MuxadoAccept, Stream),  *)
(*   - the StreamManager with its map of handles and its set of tasks,     *)
(*   - the reader and the writer task (muxado/src/session.rs).             *)
(* The connection may be lost.  Windows, bytes and half-closed streams are *)
(* the subject of MuxStream; here a stream carries whole frames.           *)
(*                                                                         *)
(* Every Stream object has a number of its own at its end, since two       *)
(* objects may have the same stream id.  A frame carries the number of the *)
(* object it came from in src, which the real frame does not.              *)
(***************************************************************************)
EXTENDS Integers, Sequences, FiniteSets

CONSTANTS
  MaxId,       \* STREAMID_MAX
  Limit,       \* SessionBuilder::stream_limit of each end
  AcceptCap,   \* SessionBuilder::accept_queue_size
  SysCap,      \* capacity of the manager's channel of system frames
  WireCap,     \* frames the connection holds
  MaxOpens,    \* bound: calls of open() at each end
  MaxFrames,   \* bound: frames an application writes to one stream
  Closings,    \* the ways close() is called: GOAWAY frames
  Events,      \* Events[e]: what e may do besides the plain use of streams
  MayLose      \* whether the connection may be lost

Ends == {"client", "server"}

ASSUME SessionAssumption ==
  /\ MaxId \in Nat /\ MaxId % 2 = 1 /\ MaxId > 1
  /\ Limit \in [Ends -> Nat] /\ AcceptCap \in Nat /\ SysCap \in Nat
  /\ WireCap \in Nat \ {0}
  /\ MaxOpens \in [Ends -> Nat]
  /\ MaxFrames \in Nat
  /\ Events \in [Ends -> SUBSET {"cancel", "close", "drop", "unknown"}]
  /\ MayLose \in BOOLEAN

VARIABLES
  obj,      \* obj[e]: the Stream objects of e, with their handles' state
  mgr,      \* StreamManager
  task,     \* the reader and the writer task
  sysq,     \* StreamManager.sys_rx
  wire,     \* wire[e]: frames sent by e and not yet read by its peer
  app,      \* the application's halves of the session
  acceptq,  \* channel of streams waiting for accept()
  lost      \* the connection is gone

vars == <<obj, mgr, task, sysq, wire, app, acceptq, lost>>
----------------------------------------------------------------------------
Peer(e) == IF e = "client" THEN "server" ELSE "client"
Ids == 1..MaxId

Frame(typ, id, src, syn, fin) ==
  [typ |-> typ, id |-> id, src |-> src, syn |-> syn, fin |-> fin,
   fatal |-> TRUE, encodes |-> TRUE]

Data(id, src, syn) == Frame("data", id, src, syn, FALSE)
Fin(id, src)       == Frame("data", id, src, FALSE, TRUE)
Rst(id)            == Frame("rst", id, 0, FALSE, FALSE)

\* fatal: the error is not Error::None.  encodes: the message has the eight
\* bytes which make the header's length pass validate_header.
GoAway(fatal, encodes) ==
  [Frame("goaway", 0, 0, FALSE, FALSE) EXCEPT !.fatal = fatal, !.encodes = encodes]

\* close() queues a GOAWAY and nothing else.
ASSUME ClosingsAssumption == Closings \subseteq {GoAway(f, c) : f, c \in BOOLEAN}

Invalid == Frame("invalid", 0, 0, FALSE, FALSE)

Frames == [typ : {"data", "rst", "goaway", "invalid"}, id : Nat, src : Nat,
           syn : BOOLEAN, fin : BOOLEAN, fatal : BOOLEAN, encodes : BOOLEAN]

\* struct Stream and the StreamHandle made with it.  cut: the sender into the
\* stream is closed or gone.  late: made after the reader task had ended.
NewObject(id, local, holder, late) ==
  [id |-> id, local |-> local, app |-> holder, needsSyn |-> local,
   wrote |-> 0, out |-> <<>>, sinkClosed |-> FALSE, needsFin |-> TRUE,
   dataWriteClosed |-> FALSE, cut |-> FALSE, from |-> {}, late |-> late]

Objects == [id : Ids, local : BOOLEAN, app : {"queued", "held", "dropped"},
            needsSyn : BOOLEAN, wrote : Nat, out : Seq(Frames),
            sinkClosed : BOOLEAN, needsFin : BOOLEAN, dataWriteClosed : BOOLEAN,
            cut : BOOLEAN, from : SUBSET Nat, late : BOOLEAN]

\* streams maps an id to the number of the object of its handle, or to 0.
Managers == [streams : [Ids -> Nat], tasks : SUBSET Nat, lastLocal : 0..MaxId,
             lastRemote : 0..MaxId, gone : BOOLEAN, terminated : BOOLEAN]

Tasks == [reader : {"run", "done"}, accepting : Nat, writer : {"run", "done"}]

Apps == [held : BOOLEAN, closed : BOOLEAN, asked : Nat, pending : Seq(BOOLEAN)]

\* Mutant of Init: both ends number their streams as a client does.
InitClients ==
  /\ obj = [e \in Ends |-> <<>>]
  /\ mgr = [e \in Ends |->
       [streams |-> [i \in Ids |-> 0], tasks |-> {}, lastLocal |-> 1,
        lastRemote |-> 0, gone |-> FALSE, terminated |-> FALSE]]
  /\ task = [e \in Ends |-> [reader |-> "run", accepting |-> 0, writer |-> "run"]]
  /\ sysq = [e \in Ends |-> <<>>]
  /\ wire = [e \in Ends |-> <<>>]
  /\ app = [e \in Ends |-> [held |-> TRUE, closed |-> FALSE, asked |-> 0,
                            pending |-> <<>>]]
  /\ acceptq = [e \in Ends |-> <<>>]
  /\ lost = FALSE

Init ==
  /\ obj = [e \in Ends |-> <<>>]
  /\ mgr = [e \in Ends |->
       [streams |-> [i \in Ids |-> 0], tasks |-> {},
        lastLocal |-> IF e = "client" THEN 1 ELSE 0,
        lastRemote |-> IF e = "client" THEN 0 ELSE 1,
        gone |-> FALSE, terminated |-> FALSE]]
  /\ task = [e \in Ends |-> [reader |-> "run", accepting |-> 0, writer |-> "run"]]
  /\ sysq = [e \in Ends |-> <<>>]
  /\ wire = [e \in Ends |-> <<>>]
  /\ app = [e \in Ends |-> [held |-> TRUE, closed |-> FALSE, asked |-> 0,
                            pending |-> <<>>]]
  /\ acceptq = [e \in Ends |-> <<>>]
  /\ lost = FALSE
----------------------------------------------------------------------------
\* Both tasks are over: the manager and this end of the connection are dropped.
Stopped(e) == task[e].reader = "done" /\ task[e].writer = "done"

\* What the application sees of the object n: its reads end, its writes fail.
InboundCut(e, n) == obj[e][n].cut \/ Stopped(e)
SinkDead(e, n) == obj[e][n].sinkClosed \/ n \notin mgr[e].tasks \/ Stopped(e)

Handled(e) == {mgr[e].streams[i] : i \in Ids} \ {0}
Open(e) == Cardinality({i \in Ids : mgr[e].streams[i] # 0})

\* awaitdrop: the session's halves and the streams it opened keep the tasks.
Unreferenced(e) ==
  /\ ~app[e].held
  /\ \A n \in DOMAIN obj[e] : obj[e][n].local => obj[e][n].app # "held"
----------------------------------------------------------------------------
(* The application.                                                        *)

\* MuxadoOpen::open up to the await of the answer.
CallOpen(e) ==
  /\ app[e].held /\ ~app[e].closed
  /\ task[e].writer # "done"
  /\ app[e].asked < MaxOpens[e]
  /\ app' = [app EXCEPT ![e].asked = @ + 1, ![e].pending = Append(@, TRUE)]
  /\ UNCHANGED <<obj, mgr, task, sysq, wire, acceptq, lost>>

\* The future of open() is dropped: nobody waits for the answer.
CancelOpen(e) ==
  /\ "cancel" \in Events[e]
  /\ \E i \in DOMAIN app[e].pending :
       /\ app[e].pending[i]
       /\ app' = [app EXCEPT ![e].pending[i] = FALSE]
  /\ UNCHANGED <<obj, mgr, task, sysq, wire, acceptq, lost>>

Accept(e) ==
  /\ app[e].held
  /\ acceptq[e] # <<>>
  /\ obj' = [obj EXCEPT ![e][Head(acceptq[e])].app = "held"]
  /\ acceptq' = [acceptq EXCEPT ![e] = Tail(@)]
  /\ UNCHANGED <<mgr, task, sysq, wire, app, lost>>

\* MuxadoOpen::close.  An open() between the send and the store of closed is
\* one that was called before.
Close(e) ==
  /\ "close" \in Events[e]
  /\ app[e].held /\ ~app[e].closed
  /\ app' = [app EXCEPT ![e].closed = TRUE]
  /\ IF Stopped(e)
     THEN UNCHANGED sysq
     ELSE /\ Len(sysq[e]) <= SysCap
          /\ \E f \in Closings : sysq' = [sysq EXCEPT ![e] = Append(@, f)]
  /\ UNCHANGED <<obj, mgr, task, wire, acceptq, lost>>

\* Every half of the session is dropped, and the queue of accept() with it.
DropSession(e) ==
  /\ "drop" \in Events[e]
  /\ app[e].held
  /\ \A i \in DOMAIN app[e].pending : ~app[e].pending[i]
  /\ app' = [app EXCEPT ![e].held = FALSE]
  /\ acceptq' = [acceptq EXCEPT ![e] = <<>>]
  /\ obj' = [obj EXCEPT ![e] = [n \in DOMAIN @ |->
       IF \E i \in DOMAIN acceptq[e] : acceptq[e][i] = n
       THEN [@[n] EXCEPT !.app = "dropped"] ELSE @[n]]]
  /\ UNCHANGED <<mgr, task, sysq, wire, lost>>

\* A frame is written to a stream: the first one of an opened stream is its SYN.
Write(e, n) ==
  LET o == obj[e][n] IN
  /\ o.app = "held"
  /\ ~SinkDead(e, n)
  /\ o.wrote < MaxFrames
  /\ obj' = [obj EXCEPT ![e][n].out = Append(o.out, Data(o.id, n, o.needsSyn)),
                        ![e][n].needsSyn = FALSE, ![e][n].wrote = o.wrote + 1]
  /\ UNCHANGED <<mgr, task, sysq, wire, app, acceptq, lost>>

DropStream(e, n) ==
  /\ obj[e][n].app = "held"
  /\ obj' = [obj EXCEPT ![e][n].app = "dropped"]
  /\ UNCHANGED <<mgr, task, sysq, wire, app, acceptq, lost>>
----------------------------------------------------------------------------
(* The manager.                                                            *)

\* StreamID::clamp(last_local_id + 2)
NextId(e) == IF mgr[e].lastLocal + 2 > MaxId THEN MaxId ELSE mgr[e].lastLocal + 2

\* Mutant of AtLimit: one stream too many.
PastLimit(e) == Open(e) > Limit[e]

AtLimit(e) == Open(e) = Limit[e]

\* StreamManager::create_stream.  A handle that had the id is dropped.
CreateStream(e, id, local, holder) ==
  LET n == Len(obj[e]) + 1
      old == mgr[e].streams[id]
      now == [m \in DOMAIN obj[e] |->
                IF m = old THEN [obj[e][m] EXCEPT !.cut = TRUE] ELSE obj[e][m]]
  IN /\ obj' = [obj EXCEPT ![e] =
                  Append(now, NewObject(id, local, holder, task[e].reader = "done"))]
     /\ mgr' = [mgr EXCEPT ![e].streams[id] = n, ![e].tasks = mgr[e].tasks \cup {n},
                           ![e].lastLocal = IF local THEN id ELSE mgr[e].lastLocal,
                           ![e].lastRemote = IF local THEN mgr[e].lastRemote ELSE id]

\* Mutant of SendersClosed: the reader ends without closing them.
SendersKept(e) == obj[e]

\* close_senders
SendersClosed(e) ==
  [n \in DOMAIN obj[e] |->
     IF n \in Handled(e) THEN [obj[e][n] EXCEPT !.cut = TRUE] ELSE obj[e][n]]

\* StreamManager::go_away: the handles are dropped, their sinks closed with an
\* error.  close_with(Error::None) stores 0, which is not closed.
Drained(e, fatal) ==
  [n \in DOMAIN obj[e] |->
     IF n \in Handled(e)
     THEN [obj[e][n] EXCEPT !.cut = TRUE, !.sinkClosed = @ \/ fatal]
     ELSE obj[e][n]]

GoneAway(e) == [mgr[e] EXCEPT !.gone = TRUE, !.streams = [i \in Ids |-> 0]]
----------------------------------------------------------------------------
(* The writer task.  The frame in its hand while io.send waits is the last *)
(* one of the connection: nobody can tell the two apart.                   *)

Polling(e) == task[e].writer = "run" /\ ~mgr[e].terminated /\ ~mgr[e].gone

\* Mutant of WriterEnds: the requests that are queued stay so.
WriterEndsMute(e) ==
  /\ task' = [task EXCEPT ![e].writer = "done"]
  /\ UNCHANGED app

\* The writer is over: the requests it has not answered fail.
WriterEnds(e) ==
  /\ task' = [task EXCEPT ![e].writer = "done"]
  /\ app' = [app EXCEPT ![e].pending = <<>>]

\* io.send.  A GOAWAY is the last frame; a failure ends the writer as well.
Send(e, f) ==
  \/ /\ f.encodes /\ ~lost
     /\ Len(wire[e]) < WireCap
     /\ wire' = [wire EXCEPT ![e] = Append(@, f)]
     /\ IF f.typ = "goaway" THEN WriterEnds(e) ELSE UNCHANGED <<task, app>>
  \/ /\ lost \/ Stopped(Peer(e)) \/ ~f.encodes
     /\ WriterEnds(e)
     /\ UNCHANGED wire

\* Mutant of TakeSys: once the manager has gone away nothing is sent.
TakeSysSilent(e) ==
  /\ Polling(e)
  /\ sysq[e] # <<>>
  /\ sysq' = [sysq EXCEPT ![e] = Tail(@)]
  /\ LET f == Head(sysq[e]) IN
     IF f.typ = "goaway"
     THEN /\ mgr' = [mgr EXCEPT ![e] = [GoneAway(e) EXCEPT !.tasks = {}]]
          /\ obj' = [obj EXCEPT ![e] = [n \in DOMAIN @ |->
                       [Drained(e, TRUE)[n] EXCEPT !.out = <<>>]]]
          /\ UNCHANGED <<task, wire, app>>
     ELSE Send(e, f) /\ UNCHANGED <<mgr, obj>>
  /\ UNCHANGED <<acceptq, lost>>

TakeSys(e) ==
  /\ Polling(e)
  /\ sysq[e] # <<>>
  /\ sysq' = [sysq EXCEPT ![e] = Tail(@)]
  /\ LET f == Head(sysq[e]) IN
     IF f.typ = "goaway"
     THEN /\ Send(e, [f EXCEPT !.id = mgr[e].lastRemote])
          /\ mgr' = [mgr EXCEPT ![e] = [GoneAway(e) EXCEPT !.tasks = {}]]
          /\ obj' = [obj EXCEPT ![e] = [n \in DOMAIN @ |->
                       [Drained(e, TRUE)[n] EXCEPT !.out = <<>>]]]
     ELSE Send(e, f) /\ UNCHANGED <<mgr, obj>>
  /\ UNCHANGED <<acceptq, lost>>

\* The task of n yields: a frame, or the end of a dropped stream's channel.
TaskReady(e, n) ==
  /\ n \in mgr[e].tasks
  /\ obj[e][n].out # <<>> \/ obj[e][n].app = "dropped"

\* The handle is looked up by the id of the task.
Yielded(e, n) ==
  /\ Polling(e)
  /\ sysq[e] = <<>>
  /\ TaskReady(e, n)
  /\ mgr[e].streams[obj[e][n].id] # 0

Owner(e, n) == mgr[e].streams[obj[e][n].id]

\* Mutant of Remove: the task is pushed back.
RemoveHandle(e, n) == mgr' = [mgr EXCEPT ![e].streams[obj[e][n].id] = 0]

Remove(e, n) ==
  mgr' = [mgr EXCEPT ![e].tasks = @ \ {n}, ![e].streams[obj[e][n].id] = 0]

TakeReset(e, n) ==
  /\ Yielded(e, n)
  /\ LET h == Owner(e, n) IN
     /\ obj[e][h].sinkClosed /\ ~obj[e][h].needsFin
     /\ obj' = [obj EXCEPT ![e][h].cut = TRUE, ![e][n].out = <<>>]
  /\ Remove(e, n)
  /\ UNCHANGED <<task, sysq, wire, app, acceptq, lost>>

TakeFrame(e, n) ==
  /\ Yielded(e, n)
  /\ obj[e][n].out # <<>>
  /\ LET h == Owner(e, n) IN ~(obj[e][h].sinkClosed /\ ~obj[e][h].needsFin)
  /\ obj' = [obj EXCEPT ![e][n].out = Tail(@)]
  /\ Send(e, Head(obj[e][n].out))
  /\ UNCHANGED <<mgr, sysq, acceptq, lost>>

\* Mutant of TakeEnd: the handle stays in the map.
TakeEndOnly(e, n) ==
  /\ Yielded(e, n)
  /\ obj[e][n].out = <<>>
  /\ LET h == Owner(e, n) IN
     /\ ~(obj[e][h].sinkClosed /\ ~obj[e][h].needsFin)
     /\ IF obj[e][h].needsFin
        THEN Send(e, Fin(obj[e][n].id, n)) ELSE UNCHANGED <<task, wire, app>>
     /\ obj' = [obj EXCEPT ![e][h].needsFin = FALSE]
  /\ mgr' = [mgr EXCEPT ![e].tasks = @ \ {n}]
  /\ UNCHANGED <<sysq, acceptq, lost>>

TakeEnd(e, n) ==
  /\ Yielded(e, n)
  /\ obj[e][n].out = <<>>
  /\ LET h == Owner(e, n) IN
     /\ ~(obj[e][h].sinkClosed /\ ~obj[e][h].needsFin)
     /\ IF obj[e][h].needsFin
        THEN Send(e, Fin(obj[e][n].id, n)) ELSE UNCHANGED <<task, wire, app>>
     /\ obj' = [obj EXCEPT ![e][h].cut = TRUE, ![e][h].needsFin = FALSE]
  /\ Remove(e, n)
  /\ UNCHANGED <<sysq, acceptq, lost>>

\* A request for a stream is answered, with an error at the limit.
AnswerOpen(e) ==
  /\ task[e].writer = "run"
  /\ app[e].pending # <<>>
  /\ app' = [app EXCEPT ![e].pending = Tail(@)]
  /\ IF AtLimit(e)
     THEN UNCHANGED <<obj, mgr>>
     ELSE CreateStream(e, NextId(e), TRUE,
                       IF Head(app[e].pending) THEN "held" ELSE "dropped")
  /\ UNCHANGED <<task, sysq, wire, acceptq, lost>>

\* The manager has gone away and nobody is left to ask for a stream.
WriterCompletes(e) ==
  /\ task[e].writer = "run"
  /\ mgr[e].terminated
  /\ ~app[e].held /\ app[e].pending = <<>>
  /\ WriterEnds(e)
  /\ UNCHANGED <<obj, mgr, sysq, wire, acceptq, lost>>

\* The last reference is dropped: the task is cancelled where it stands.
CancelWriter(e) ==
  /\ task[e].writer # "done"
  /\ Unreferenced(e)
  /\ WriterEnds(e)
  /\ UNCHANGED <<obj, mgr, sysq, wire, acceptq, lost>>
----------------------------------------------------------------------------
(* The reader task.                                                        *)

Arriving(e) == Head(wire[Peer(e)])

Reading(e, typ) ==
  /\ task[e].reader = "run"
  /\ task[e].accepting = 0
  /\ wire[Peer(e)] # <<>>
  /\ Arriving(e).typ = typ

Consume(e) == wire' = [wire EXCEPT ![Peer(e)] = Tail(@)]

\* Reader::run is over: close_senders, and the channel of accept() ends.
ReaderEnds(e, now) ==
  /\ obj' = [obj EXCEPT ![e] = now]
  /\ task' = [task EXCEPT ![e].reader = "done", ![e].accepting = 0]

\* A SYN makes the stream and its handle; the frame is handed on afterwards.
ReadSyn(e) ==
  /\ Reading(e, "data")
  /\ Arriving(e).syn
  /\ ~AtLimit(e)
  /\ CreateStream(e, Arriving(e).id, FALSE, "queued")
  /\ task' = [task EXCEPT ![e].accepting = Len(obj[e]) + 1]
  /\ wire' = [wire EXCEPT ![Peer(e)][1].syn = FALSE]
  /\ UNCHANGED <<sysq, app, acceptq, lost>>

\* At the limit create_stream fails, and the error ends the reader.
ReadSynAtLimit(e) ==
  /\ Reading(e, "data")
  /\ Arriving(e).syn
  /\ AtLimit(e)
  /\ ReaderEnds(e, SendersClosed(e))
  /\ Consume(e)
  /\ UNCHANGED <<mgr, sysq, app, acceptq, lost>>

\* accept_tx.send: waits while the queue is full, fails when nobody accepts.
QueueAccept(e) ==
  /\ task[e].reader = "run"
  /\ task[e].accepting # 0
  /\ IF app[e].held
     THEN /\ Len(acceptq[e]) <= AcceptCap
          /\ acceptq' = [acceptq EXCEPT ![e] = Append(@, task[e].accepting)]
          /\ task' = [task EXCEPT ![e].accepting = 0]
          /\ UNCHANGED <<obj, wire>>
     ELSE /\ ReaderEnds(e, [SendersClosed(e) EXCEPT
                              ![task[e].accepting].app = "dropped"])
          /\ Consume(e)
          /\ UNCHANGED acceptq
  /\ UNCHANGED <<mgr, sysq, app, lost>>

\* The frame belongs to a stream that takes it.
Takes(e, n) == n # 0 /\ ~obj[e][n].dataWriteClosed /\ obj[e][n].app # "dropped"

ReadData(e) ==
  LET f == Arriving(e)
      n == mgr[e].streams[f.id]
  IN /\ Reading(e, "data")
     /\ ~f.syn
     /\ Takes(e, n)
     /\ obj' = [obj EXCEPT ![e][n].from = obj[e][n].from \cup {f.src},
                           ![e][n].dataWriteClosed = obj[e][n].dataWriteClosed \/ f.fin]
     /\ Consume(e)
     /\ UNCHANGED <<mgr, task, sysq, app, acceptq, lost>>

\* A FIN nobody can take is dropped.
IgnoreFin(e) ==
  LET f == Arriving(e)
      n == mgr[e].streams[f.id]
  IN /\ Reading(e, "data")
     /\ ~f.syn /\ f.fin
     /\ ~Takes(e, n)
     /\ obj' = IF n = 0 THEN obj ELSE [obj EXCEPT ![e][n].dataWriteClosed = TRUE]
     /\ Consume(e)
     /\ UNCHANGED <<mgr, task, sysq, app, acceptq, lost>>

\* Data nobody can take is answered with an RST.
RefuseData(e) ==
  LET f == Arriving(e)
      n == mgr[e].streams[f.id]
  IN /\ Reading(e, "data")
     /\ ~f.syn /\ ~f.fin
     /\ ~Takes(e, n)
     /\ Len(sysq[e]) <= SysCap
     /\ sysq' = [sysq EXCEPT ![e] = Append(@, Rst(f.id))]
     /\ obj' = IF n = 0 THEN obj
               ELSE [obj EXCEPT ![e][n].dataWriteClosed = TRUE,
                                ![e][n].sinkClosed = TRUE, ![e][n].needsFin = FALSE]
     /\ Consume(e)
     /\ UNCHANGED <<mgr, task, app, acceptq, lost>>

ReadRst(e) ==
  LET n == mgr[e].streams[Arriving(e).id] IN
  /\ Reading(e, "rst")
  /\ obj' = IF n = 0 THEN obj
            ELSE [obj EXCEPT ![e][n].dataWriteClosed = TRUE,
                             ![e][n].sinkClosed = TRUE, ![e][n].needsFin = FALSE]
  /\ Consume(e)
  /\ UNCHANGED <<mgr, task, sysq, app, acceptq, lost>>

ReadGoAway(e) ==
  /\ Reading(e, "goaway")
  /\ mgr' = [mgr EXCEPT ![e] = [GoneAway(e) EXCEPT !.terminated = TRUE]]
  /\ ReaderEnds(e, Drained(e, Arriving(e).fatal))
  /\ Consume(e)
  /\ UNCHANGED <<sysq, app, acceptq, lost>>

\* A frame of an unknown type: the session is to be closed, the reader goes on.
ReadInvalid(e) ==
  /\ Reading(e, "invalid")
  /\ Len(sysq[e]) <= SysCap
  /\ sysq' = [sysq EXCEPT ![e] = Append(@, GoAway(TRUE, TRUE))]
  /\ Consume(e)
  /\ UNCHANGED <<obj, mgr, task, app, acceptq, lost>>

\* Mutant of ReadEnd: a connection with nothing to read counts as ended.
ReadEndEarly(e) ==
  /\ task[e].reader = "run"
  /\ task[e].accepting = 0
  /\ wire[Peer(e)] = <<>>
  /\ ReaderEnds(e, SendersClosed(e))
  /\ UNCHANGED <<mgr, sysq, wire, app, acceptq, lost>>

\* The connection ended, here or at the peer.
ReadEnd(e) ==
  /\ task[e].reader = "run"
  /\ task[e].accepting = 0
  /\ wire[Peer(e)] = <<>>
  /\ lost \/ Stopped(Peer(e))
  /\ ReaderEnds(e, SendersClosed(e))
  /\ UNCHANGED <<mgr, sysq, wire, app, acceptq, lost>>

\* Cancelled: no close_senders, but a stream it was queueing is dropped.
CancelReader(e) ==
  /\ task[e].reader = "run"
  /\ Unreferenced(e)
  /\ ReaderEnds(e, IF task[e].accepting = 0 THEN obj[e]
                   ELSE [obj[e] EXCEPT ![task[e].accepting].app = "dropped"])
  /\ UNCHANGED <<mgr, sysq, wire, app, acceptq, lost>>
----------------------------------------------------------------------------
(* The connection.                                                         *)

\* What was in flight is lost with it, but not the frame a reader has in hand.
Lose ==
  /\ MayLose
  /\ ~lost
  /\ lost' = TRUE
  /\ wire' = [e \in Ends |->
                IF task[Peer(e)].accepting = 0 THEN <<>> ELSE <<Head(wire[e])>>]
  /\ UNCHANGED <<obj, mgr, task, sysq, app, acceptq>>

\* A peer of a later version sends a frame type this one has not; bounded to
\* one such frame until the session reacts.
SendUnknown(e) ==
  /\ "unknown" \in Events[e]
  /\ ~lost /\ ~Stopped(e)
  /\ wire[e] = <<>>
  /\ ~mgr[Peer(e)].gone /\ sysq[Peer(e)] = <<>>
  /\ wire' = [wire EXCEPT ![e] = <<Invalid>>]
  /\ UNCHANGED <<obj, mgr, task, sysq, app, acceptq, lost>>
----------------------------------------------------------------------------
AppStep(e) ==
  \/ CallOpen(e) \/ CancelOpen(e) \/ Close(e) \/ DropSession(e)
  \/ \E n \in DOMAIN obj[e] : Write(e, n) \/ DropStream(e, n)

WriterTask(e) ==
  \/ TakeSys(e) \/ AnswerOpen(e)
  \/ WriterCompletes(e) \/ CancelWriter(e)
  \/ \E n \in DOMAIN obj[e] : TakeReset(e, n) \/ TakeFrame(e, n) \/ TakeEnd(e, n)

ReaderTask(e) ==
  \/ ReadSyn(e) \/ ReadSynAtLimit(e) \/ QueueAccept(e) \/ ReadData(e)
  \/ IgnoreFin(e) \/ RefuseData(e) \/ ReadRst(e) \/ ReadGoAway(e)
  \/ ReadInvalid(e) \/ ReadEnd(e) \/ CancelReader(e)

Network == Lose \/ \E e \in Ends : SendUnknown(e)

Next ==
  \/ Network
  \/ \E e \in Ends : AppStep(e) \/ Accept(e) \/ WriterTask(e) \/ ReaderTask(e)

Spec == Init /\ [][Next]_vars

(***************************************************************************)
(* tokio polls the tasks that were woken, and drops those whose session is *)
(* gone: weak fairness of each task.  An application accepts streams where *)
(* it is said to; it owes nothing else.                                    *)
(***************************************************************************)
TaskFairness == \A e \in Ends : WF_vars(WriterTask(e)) /\ WF_vars(ReaderTask(e))
AcceptFairness == \A e \in Ends : WF_vars(Accept(e))

FairSpec == Spec /\ TaskFairness /\ AcceptFairness
----------------------------------------------------------------------------
(* Type invariant of the session, with the stream limit and the capacity of *)
(* its channels.                                                           *)
TypeOK ==
  /\ obj \in [Ends -> Seq(Objects)]
  /\ mgr \in [Ends -> Managers]
  /\ task \in [Ends -> Tasks]
  /\ sysq \in [Ends -> Seq(Frames)]
  /\ wire \in [Ends -> Seq(Frames)]
  /\ app \in [Ends -> Apps]
  /\ acceptq \in [Ends -> Seq(Nat)]
  /\ lost \in BOOLEAN
  /\ \A e \in Ends :
       /\ mgr[e].tasks \cup Handled(e) \subseteq DOMAIN obj[e]
       /\ Len(sysq[e]) <= SysCap + 1
       /\ Len(acceptq[e]) <= AcceptCap + 1
       /\ Open(e) <= Limit[e]

(***************************************************************************)
(* The unreachable!() in StreamManager::poll_next: a stream is removed only *)
(* when its channel ended and then its task is not pushed again, so a task *)
(* the writer polls always finds the handle of its stream.                 *)
(***************************************************************************)
TasksHaveHandles ==
  \A e \in Ends : Polling(e) =>
    \A n \in mgr[e].tasks : mgr[e].streams[obj[e][n].id] # 0

(***************************************************************************)
(* Frames are told apart by their stream id alone.  Whatever is opened,    *)
(* cancelled, refused, reset and dropped at both ends, a Stream receives   *)
(* the frames of one Stream of the peer, the one with its id.              *)
(***************************************************************************)
StreamsDoNotMix ==
  \A e \in Ends : \A n \in DOMAIN obj[e] :
    /\ Cardinality(obj[e][n].from) <= 1
    /\ \A m \in obj[e][n].from :
         obj[Peer(e)][m].local # obj[e][n].local

(***************************************************************************)
(* A Stream somebody holds is cut off only if the peer ended or reset it,  *)
(* or the session was closed, dropped or lost.                             *)
(***************************************************************************)
CutHasCause ==
  \A e \in Ends : \A n \in DOMAIN obj[e] :
    obj[e][n].app = "held" /\ obj[e][n].cut =>
      \/ obj[e][n].dataWriteClosed \/ obj[e][n].sinkClosed
      \/ mgr[e].gone \/ ~app[e].held
      \/ lost \/ Stopped(Peer(e))

(***************************************************************************)
(* Every call of open() returns: with a stream, at the limit with an       *)
(* error, and with an error when the writer task ends first.               *)
(***************************************************************************)
OpenReturns == \A e \in Ends : app[e].pending # <<>> ~> app[e].pending = <<>>

(***************************************************************************)
(* A session that is closed, dropped or disconnected is over for the peer  *)
(* too: its accept() ends, unless it was closing by itself.                *)
(***************************************************************************)
EndIsSeen ==
  \A e \in Ends :
    app[e].closed \/ Unreferenced(e) \/ lost
      ~> task[Peer(e)].reader = "done" \/ mgr[Peer(e)].gone

(***************************************************************************)
(* When the reader task is over, the streams it served reach end of file.  *)
(***************************************************************************)
StreamsReachEnd ==
  \A e \in Ends :
    task[e].reader = "done" ~>
      \A n \in DOMAIN obj[e] :
        obj[e][n].app = "held" /\ ~obj[e][n].late => InboundCut(e, n)

(***************************************************************************)
(* A dropped Stream gives its handle, and its place under the stream       *)
(* limit, back.                                                            *)
(***************************************************************************)
HandlesFreed ==
  \A e \in Ends : \A n \in 1..(MaxOpens["client"] + MaxOpens["server"]) :
    (n \in DOMAIN obj[e] /\ obj[e][n].app = "dropped")
      ~> (n \notin Handled(e) \/ task[e].writer = "done" \/ mgr[e].gone)
============================================================================
