---------------------------- MODULE NgrokSession ----------------------------
(***************************************************************************)
(* The ngrok session: tunnels that are started, served, closed, stopped by *)
(* the service and carried over when the connection is lost.  The actors   *)
(*   - one accept loop (accept_incoming), which owns the incoming half of  *)
(*     the connection, hands connections to tunnels and reconnects,        *)
(*   - for each tunnel its owner and the calls it makes (start_tunnel,     *)
(*     close_tunnel, the task its Drop spawns),                            *)
(*   - the owner of the Session, which may close or drop it,               *)
(*   - the ngrok service, known by what the client sees of it.             *)
(* A SessionInner belongs to one connection; a reconnect makes a new one   *)
(* and swaps it in (ArcSwap), while calls go on with the one they loaded.  *)
(***************************************************************************)
EXTENDS Integers, Sequences, FiniteSets

CONSTANTS
  Tunnels,    \* tunnels the application may start
  Labeled,    \* those that are labeled: a rebind gives them another id
  ChanCap,    \* capacity of a tunnel's channel
  MaxGen,     \* bound: connections
  MaxConns,   \* bound: connections of clients the service hands over
  MaxStops,   \* bound: StopTunnel requests of the service
  MayClose,   \* tunnels whose owner may close them
  MayDrop,    \* tunnels whose owner may drop them
  SessionEnd  \* how the session may end: subset of Endings

\* close() of the Session; its drop; the Connector's ConnectError::Canceled.
Endings == {"close", "drop", "cancel"}

ASSUME NgrokAssumption ==
  /\ Labeled \cup MayClose \cup MayDrop \subseteq Tunnels
  /\ ChanCap \in Nat \ {0}
  /\ MaxGen \in Nat \ {0}
  /\ MaxConns \in Nat /\ MaxStops \in Nat
  /\ SessionEnd \subseteq Endings

VARIABLES
  inner,   \* the SessionInners, one per connection; the last may not be in use yet
  gen,     \* the one the ArcSwap holds
  srv,     \* srv[g]: ids the service has bound on connection g
  tun,     \* the tunnels: owner, channel, the call in progress
  acc,     \* the accept loop
  sess,    \* the owner of the Session
  conns, stops \* what is left of MaxConns and MaxStops

vars == <<inner, gen, srv, tun, acc, sess, conns, stops>>
----------------------------------------------------------------------------
Gens == 1..MaxGen

\* A tunnel id, as the service gives it: the tunnel and the connection it was
\* given on.  The service keeps the id of a tunnel that is not labeled.
Ids == [of : Tunnels, at : Gens]
IdOn(t, g) == [of |-> t, at |-> g]
Rebound(id, g) == IF id.of \in Labeled THEN IdOn(id.of, g) ELSE id

\* client: who holds the Mutex of the RpcClient.
NewInner == [tunnels |-> {}, closed |-> FALSE, up |-> TRUE, client |-> "free"]

Inners == [tunnels : SUBSET Ids, closed : BOOLEAN, up : BOOLEAN,
           client : {"free"} \cup Tunnels]

\* g: the SessionInner the call in progress has loaded.
NewTunnel == [owner |-> "none", call |-> "none", g |-> 1, id |-> 1,
              chan |-> <<>>, told |-> FALSE]

TunnelStates ==
  [owner : {"none", "held", "closed", "dropped"},
   call : {"none", "listen", "insert", "spawned", "unlisten", "remove"},
   g : Gens, id : Gens, chan : Seq({"conn", "error"}), told : BOOLEAN]

Accepts == [pc : {"accept", "send", "request", "stop", "retry", "rebind", "drain",
                  "done"},
            ids : SUBSET Ids, hasSession : BOOLEAN]

Init ==
  /\ inner = <<NewInner>>
  /\ gen = 1
  /\ srv = [g \in Gens |-> {}]
  /\ tun = [t \in Tunnels |-> NewTunnel]
  /\ acc = [pc |-> "accept", ids |-> {}, hasSession |-> TRUE]
  /\ sess = [held |-> TRUE, call |-> "none", g |-> 1]
  /\ conns = MaxConns
  /\ stops = MaxStops
----------------------------------------------------------------------------
\* The receiver of the tunnel is there.
Listening(t) == tun[t].owner \in {"none", "held"}

\* The RwLock of the current map: the accept loop reads it while it hands a
\* connection over or rebinds, and writes it while it tells tunnels an error.
MapBusy(g) == g = gen /\ acc.pc \in {"send", "rebind", "stop", "drain"}

\* Sender::send on a tunnel's channel: waits when full, fails without receiver.
Sent(t, item) ==
  \/ /\ Listening(t)
     /\ Len(tun[t].chan) < ChanCap
     /\ tun' = [tun EXCEPT ![t].chan = Append(@, item),
                           ![t].told = @ \/ item = "error"]
  \/ ~Listening(t) /\ UNCHANGED tun

\* The application holds no Session and no tunnel, and no call is left.
Abandoned ==
  /\ ~sess.held
  /\ \A t \in Tunnels : tun[t].owner \notin {"held", "closed"} /\ tun[t].call = "none"

\* Every clone of the Session is gone, that of a first IncomingStreams too.
Unreferenced ==
  /\ ~acc.hasSession
  /\ Abandoned
----------------------------------------------------------------------------
(* Session::start_tunnel.                                                  *)

StartTunnel(t) ==
  /\ sess.held
  /\ tun[t].owner = "none" /\ tun[t].call = "none"
  /\ tun' = [tun EXCEPT ![t].call = "listen", ![t].g = gen]
  /\ UNCHANGED <<inner, gen, srv, acc, sess, conns, stops>>

\* The Mutex is taken, listen or listen_label answers: the Mutex is kept.
Listen(t) ==
  LET g == tun[t].g IN
  /\ tun[t].call = "listen"
  /\ inner[g].client = "free"
  /\ inner[g].up
  /\ srv' = [srv EXCEPT ![g] = @ \cup {IdOn(t, g)}]
  /\ inner' = [inner EXCEPT ![g].client = t]
  /\ tun' = [tun EXCEPT ![t].call = "insert", ![t].id = g]
  /\ UNCHANGED <<gen, acc, sess, conns, stops>>

ListenFails(t) ==
  /\ tun[t].call = "listen"
  /\ inner[tun[t].g].client = "free"
  /\ ~inner[tun[t].g].up
  /\ tun' = [tun EXCEPT ![t].call = "none"]
  /\ UNCHANGED <<inner, gen, srv, acc, sess, conns, stops>>

\* Mutant of Insert: the Mutex stays locked.
InsertKeepsLock(t) ==
  LET g == tun[t].g IN
  /\ tun[t].call = "insert"
  /\ ~MapBusy(g)
  /\ inner' = [inner EXCEPT ![g].tunnels = @ \cup {IdOn(t, tun[t].id)}]
  /\ tun' = [tun EXCEPT ![t].call = "none", ![t].owner = "held"]
  /\ UNCHANGED <<gen, srv, acc, sess, conns, stops>>

\* The map is written; the Mutex goes with the call.
Insert(t) ==
  LET g == tun[t].g IN
  /\ tun[t].call = "insert"
  /\ ~MapBusy(g)
  /\ inner' = [inner EXCEPT ![g].tunnels = @ \cup {IdOn(t, tun[t].id)},
                            ![g].client = "free"]
  /\ tun' = [tun EXCEPT ![t].call = "none", ![t].owner = "held"]
  /\ UNCHANGED <<gen, srv, acc, sess, conns, stops>>
----------------------------------------------------------------------------
(* The owner of a tunnel.                                                  *)

\* Next connection or error.  The owner cannot receive while it awaits close().
Receive(t) ==
  /\ tun[t].owner \in {"held", "closed"} /\ tun[t].call = "none"
  /\ tun[t].chan # <<>>
  /\ tun' = [tun EXCEPT ![t].chan = Tail(@)]
  /\ UNCHANGED <<inner, gen, srv, acc, sess, conns, stops>>

\* TunnelInner::close, which calls Session::close_tunnel.
CloseTunnel(t) ==
  /\ t \in MayClose
  /\ tun[t].owner = "held" /\ tun[t].call = "none"
  /\ tun' = [tun EXCEPT ![t].call = "unlisten", ![t].g = gen]
  /\ UNCHANGED <<inner, gen, srv, acc, sess, conns, stops>>

\* Drop for TunnelInner: the receiver goes, a task is spawned.
DropTunnel(t) ==
  /\ t \in MayDrop
  /\ tun[t].owner \in {"held", "closed"} /\ tun[t].call = "none"
  /\ tun' = [tun EXCEPT ![t].owner = "dropped", ![t].chan = <<>>,
                        ![t].call = "spawned"]
  /\ UNCHANGED <<inner, gen, srv, acc, sess, conns, stops>>

\* The spawned task runs Session::close_tunnel.
RunClose(t) ==
  /\ tun[t].call = "spawned"
  /\ tun' = [tun EXCEPT ![t].call = "unlisten", ![t].g = gen]
  /\ UNCHANGED <<inner, gen, srv, acc, sess, conns, stops>>

Unlisten(t) ==
  LET g == tun[t].g IN
  /\ tun[t].call = "unlisten"
  /\ inner[g].client = "free"
  /\ inner[g].up
  /\ srv' = [srv EXCEPT ![g] = @ \ {IdOn(t, tun[t].id)}]
  /\ tun' = [tun EXCEPT ![t].call = "remove"]
  /\ UNCHANGED <<inner, gen, acc, sess, conns, stops>>

\* No connection, or an id the service does not know (any more): the call
\* returns the error and leaves the map as it is.
UnlistenFails(t) ==
  LET g == tun[t].g IN
  /\ tun[t].call = "unlisten"
  /\ inner[g].client = "free"
  /\ ~inner[g].up \/ IdOn(t, tun[t].id) \notin srv[g]
  /\ tun' = [tun EXCEPT ![t].call = "none"]
  /\ UNCHANGED <<inner, gen, srv, acc, sess, conns, stops>>

\* The map is written; TunnelInner::close then closes the receiver.
Remove(t) ==
  LET g == tun[t].g IN
  /\ tun[t].call = "remove"
  /\ ~MapBusy(g)
  /\ inner' = [inner EXCEPT ![g].tunnels = @ \ {IdOn(t, tun[t].id)}]
  /\ tun' = [tun EXCEPT ![t].call = "none",
                        ![t].owner = IF @ = "held" THEN "closed" ELSE @]
  /\ UNCHANGED <<gen, srv, acc, sess, conns, stops>>
----------------------------------------------------------------------------
(* The owner of the Session.                                               *)

CloseSession ==
  /\ "close" \in SessionEnd
  /\ sess.held /\ sess.call = "none"
  /\ sess' = [sess EXCEPT !.call = "close", !.g = gen]
  /\ UNCHANGED <<inner, gen, srv, tun, acc, conns, stops>>

\* The GOAWAY is queued under the Mutex, then closed is set.
CloseDone ==
  /\ sess.call = "close"
  /\ inner[sess.g].client = "free"
  /\ inner' = [inner EXCEPT ![sess.g].closed = TRUE]
  /\ sess' = [sess EXCEPT !.call = "closed"]
  /\ UNCHANGED <<gen, srv, tun, acc, conns, stops>>

DropSession ==
  /\ "drop" \in SessionEnd
  /\ sess.held /\ sess.call # "close"
  /\ \A t \in Tunnels : tun[t].call \notin {"listen", "insert"}
  /\ sess' = [sess EXCEPT !.held = FALSE]
  /\ UNCHANGED <<inner, gen, srv, tun, acc, conns, stops>>
----------------------------------------------------------------------------
(* The accept loop on a connection: accept_one, IncomingStreams::accept.   *)

Accepting == acc.pc = "accept" /\ inner[gen].up

\* A connection for a tunnel.  Nobody gets one whose id is not in the map.
AcceptConn(id) ==
  /\ Accepting
  /\ conns > 0
  /\ id \in srv[gen]
  /\ conns' = conns - 1
  /\ acc' = IF id \in inner[gen].tunnels
            THEN [acc EXCEPT !.pc = "send", !.ids = {id}] ELSE acc
  /\ UNCHANGED <<inner, gen, srv, tun, sess, stops>>

\* The tunnel gets it, or is removed from the map when nobody listens.
SendConn ==
  /\ acc.pc = "send"
  /\ \E id \in acc.ids :
       /\ Sent(id.of, "conn")
       /\ inner' = IF Listening(id.of) THEN inner
                   ELSE [inner EXCEPT ![gen].tunnels = @ \ {id}]
  /\ acc' = [acc EXCEPT !.pc = "accept", !.ids = {}]
  /\ UNCHANGED <<gen, srv, sess, conns, stops>>

\* StopTunnel: the service has closed the tunnel.  Without a Session the
\* request is not even read.
AcceptStop(id) ==
  /\ Accepting
  /\ stops > 0
  /\ id \in srv[gen]
  /\ stops' = stops - 1
  /\ srv' = [srv EXCEPT ![gen] = @ \ {id}]
  /\ acc' = IF acc.hasSession THEN [acc EXCEPT !.pc = "request", !.ids = {id}] ELSE acc
  /\ UNCHANGED <<inner, gen, tun, sess, conns>>

\* Mutant of ReadRequest: a stopped tunnel stays in the map.
ReadRequestKeeps ==
  /\ acc.pc = "request"
  /\ inner[gen].up
  /\ acc' = IF acc.ids \subseteq inner[gen].tunnels THEN [acc EXCEPT !.pc = "stop"]
            ELSE [acc EXCEPT !.pc = "accept", !.ids = {}]
  /\ UNCHANGED <<inner, gen, srv, tun, sess, conns, stops>>

\* read_req: reads until the request parses.  At the end of the stream, which
\* a lost connection brings, read returns 0 bytes and the loop goes round.
\* close_tunnel_with_error keeps the map locked while it tells the owner.
ReadRequest ==
  LET known == acc.ids \cap inner[gen].tunnels IN
  /\ acc.pc = "request"
  /\ inner[gen].up
  /\ acc' = IF known # {} THEN [acc EXCEPT !.pc = "stop"]
            ELSE [acc EXCEPT !.pc = "accept", !.ids = {}]
  /\ inner' = [inner EXCEPT ![gen].tunnels = @ \ known]
  /\ UNCHANGED <<gen, srv, tun, sess, conns, stops>>

\* Mutant of SendStop: try_send: the error is lost when something waits in the channel.
SendStopTries ==
  /\ acc.pc = "stop"
  /\ \E id \in acc.ids :
       \/ tun[id.of].chan = <<>> /\ Sent(id.of, "error")
       \/ tun[id.of].chan # <<>> /\ UNCHANGED tun
  /\ acc' = [acc EXCEPT !.pc = "accept", !.ids = {}]
  /\ UNCHANGED <<inner, gen, srv, sess, conns, stops>>

SendStop ==
  /\ acc.pc = "stop"
  /\ \E id \in acc.ids : Sent(id.of, "error")
  /\ acc' = [acc EXCEPT !.pc = "accept", !.ids = {}]
  /\ UNCHANGED <<inner, gen, srv, sess, conns, stops>>

\* Mutant of AcceptFails: a transport error is taken for a protocol error.
AcceptFailsMildly ==
  /\ acc.pc = "accept"
  /\ ~inner[gen].up
  /\ UNCHANGED vars

AcceptFails ==
  /\ acc.pc = "accept"
  /\ ~inner[gen].up
  /\ acc' = [acc EXCEPT !.pc = "retry"]
  /\ UNCHANGED <<inner, gen, srv, tun, sess, conns, stops>>
----------------------------------------------------------------------------
(* Reconnecting: try_reconnect under RetryIf.                              *)

\* Mutant of Connect: closed is not looked at.
ConnectThough ==
  /\ acc.pc = "retry"
  /\ gen < MaxGen
  /\ inner' = Append(inner, NewInner)
  /\ acc' = [acc EXCEPT !.pc = "rebind"]
  /\ UNCHANGED <<gen, srv, tun, sess, conns, stops>>

\* connect_inner succeeds; the old map is read from here until the swap.
Connect ==
  /\ acc.pc = "retry"
  /\ ~inner[gen].closed
  /\ gen < MaxGen
  /\ inner' = Append(inner, NewInner)
  /\ acc' = [acc EXCEPT !.pc = "rebind"]
  /\ UNCHANGED <<gen, srv, tun, sess, conns, stops>>

\* A listen fails: the new connection is given up, another attempt follows.
RebindFails ==
  /\ acc.pc = "rebind"
  /\ inner' = SubSeq(inner, 1, gen)
  /\ srv' = [srv EXCEPT ![gen + 1] = {}]
  /\ acc' = [acc EXCEPT !.pc = "retry"]
  /\ UNCHANGED <<gen, tun, sess, conns, stops>>

\* Mutant of Rebind: a labeled tunnel is kept under the id it had.
RebindOldIds ==
  /\ acc.pc = "rebind"
  /\ inner[gen + 1].up
  /\ inner' = [inner EXCEPT ![gen + 1].tunnels = inner[gen].tunnels]
  /\ srv' = [srv EXCEPT ![gen + 1] = {Rebound(id, gen + 1) : id \in inner[gen].tunnels}]
  /\ gen' = gen + 1
  /\ acc' = [acc EXCEPT !.pc = "accept", !.hasSession = FALSE]
  /\ UNCHANGED <<tun, sess, conns, stops>>

\* Every tunnel of the old map is bound anew, then the new inner is swapped
\* in and the loop goes on with its incoming half, which knows no Session.
Rebind ==
  LET now == {Rebound(id, gen + 1) : id \in inner[gen].tunnels} IN
  /\ acc.pc = "rebind"
  /\ inner[gen + 1].up
  /\ inner' = [inner EXCEPT ![gen + 1].tunnels = now]
  /\ srv' = [srv EXCEPT ![gen + 1] = now]
  /\ gen' = gen + 1
  /\ acc' = [acc EXCEPT !.pc = "accept", !.hasSession = FALSE]
  /\ UNCHANGED <<tun, sess, conns, stops>>

\* Mutant of GiveUp: the loop returns without telling the tunnels.
GiveUpSilently ==
  /\ acc.pc = "retry"
  /\ inner[gen].closed \/ "cancel" \in SessionEnd
  /\ acc' = [acc EXCEPT !.pc = "drain"]
  /\ inner' = [inner EXCEPT ![gen].tunnels = {}]
  /\ UNCHANGED <<gen, srv, tun, sess, conns, stops>>

\* Closed, or the connector cancels: the tunnels are to be told.
GiveUp ==
  /\ acc.pc = "retry"
  /\ inner[gen].closed \/ "cancel" \in SessionEnd
  /\ acc' = [acc EXCEPT !.pc = "drain", !.ids = inner[gen].tunnels]
  /\ inner' = [inner EXCEPT ![gen].tunnels = {}]
  /\ UNCHANGED <<gen, srv, tun, sess, conns, stops>>

Drain ==
  /\ acc.pc = "drain"
  /\ \/ \E id \in acc.ids :
          /\ Sent(id.of, "error")
          /\ acc' = [acc EXCEPT !.ids = @ \ {id}]
     \/ /\ acc.ids = {}
        /\ acc' = [acc EXCEPT !.pc = "done", !.hasSession = FALSE]
        /\ UNCHANGED tun
  /\ UNCHANGED <<inner, gen, srv, sess, conns, stops>>

\* Mutant of CancelAccept: a tunnel that was dropped keeps its clone of the Session.
CancelAcceptUnused ==
  /\ acc.pc # "done"
  /\ Unreferenced
  /\ \A t \in Tunnels : tun[t].owner = "none"
  /\ acc' = [acc EXCEPT !.pc = "done", !.ids = {}]
  /\ inner' = [g \in DOMAIN inner |-> [inner[g] EXCEPT !.up = FALSE]]
  /\ srv' = [g \in Gens |-> {}]
  /\ UNCHANGED <<gen, tun, sess, conns, stops>>

\* The last Session is dropped: the loop is cancelled, the connection closed.
CancelAccept ==
  /\ acc.pc # "done"
  /\ Unreferenced
  /\ acc' = [acc EXCEPT !.pc = "done", !.ids = {}]
  /\ inner' = [g \in DOMAIN inner |-> [inner[g] EXCEPT !.up = FALSE]]
  /\ srv' = [g \in Gens |-> {}]
  /\ UNCHANGED <<gen, tun, sess, conns, stops>>
----------------------------------------------------------------------------
(* The connection is lost; the service forgets what was bound on it.       *)
Disconnect(g) ==
  /\ inner[g].up
  /\ inner' = [inner EXCEPT ![g].up = FALSE]
  /\ srv' = [srv EXCEPT ![g] = {}]
  /\ UNCHANGED <<gen, tun, acc, sess, conns, stops>>
----------------------------------------------------------------------------
Call(t) ==
  \/ Listen(t) \/ ListenFails(t) \/ Insert(t)
  \/ RunClose(t) \/ Unlisten(t) \/ UnlistenFails(t) \/ Remove(t)

Owner(t) == StartTunnel(t) \/ CloseTunnel(t) \/ DropTunnel(t)

Loop ==
  \/ SendConn \/ ReadRequest \/ SendStop \/ AcceptFails
  \/ Connect \/ RebindFails \/ Rebind \/ GiveUp \/ Drain \/ CancelAccept

Service ==
  \/ \E id \in Ids : AcceptConn(id) \/ AcceptStop(id)
  \/ \E g \in DOMAIN inner : Disconnect(g)

Next ==
  \/ \E t \in Tunnels : Owner(t) \/ Receive(t) \/ Call(t)
  \/ CloseSession \/ CloseDone \/ DropSession
  \/ Loop
  \/ Service

Spec == Init /\ [][Next]_vars
----------------------------------------------------------------------------
(* Fairness.  The tasks run on the tokio runtime; an RPC is answered or fails; *)
(* an application reads the tunnels it holds; the service hangs up once told   *)
(* of a close; not every attempt to bind the tunnels again fails; select polls *)
(* the end of the last Session whatever the loop does.                         *)

HangUp == \E g \in DOMAIN inner : inner[g].closed /\ Disconnect(g)

Fairness ==
  /\ \A t \in Tunnels : WF_vars(Call(t)) /\ WF_vars(Receive(t))
  /\ WF_vars(CloseDone)
  /\ WF_vars(Loop) /\ SF_vars(Rebind) /\ WF_vars(CancelAccept)
  /\ WF_vars(HangUp)

FairSpec == Spec /\ Fairness
----------------------------------------------------------------------------
(* Properties.                                                             *)

\* Values stay in their types, channels and the Mutex included: at most
\* ChanCap items wait in a tunnel's channel, and the RpcClient of a connection
\* is held only by a start_tunnel that is about to write the map.
TypeOK ==
  /\ gen \in Gens
  /\ inner \in Seq(Inners) /\ Len(inner) \in {gen, gen + 1}
  /\ srv \in [Gens -> SUBSET Ids]
  /\ tun \in [Tunnels -> TunnelStates]
  /\ \A t \in Tunnels : Len(tun[t].chan) <= ChanCap
  /\ acc \in Accepts
  /\ sess \in [held : BOOLEAN, call : {"none", "close", "closed"}, g : Gens]
  /\ conns \in 0..MaxConns /\ stops \in 0..MaxStops
  /\ \A g \in DOMAIN inner : inner[g].client # "free" =>
       tun[inner[g].client].call = "insert" /\ tun[inner[g].client].g = g

\* As long as the service has stopped no tunnel itself, while the accept loop
\* serves a live connection every tunnel in its map is one the service has
\* bound there under that id, unless a close of it is under way: what accept_one
\* and a later try_reconnect rely on.
MapIsServed ==
  (stops = MaxStops /\ acc.pc \in {"accept", "send"} /\ inner[gen].up) =>
    \A id \in inner[gen].tunnels :
      id \in srv[gen] \/ tun[id.of].call \in {"unlisten", "remove"}

\* Once a tunnel has been sent an error, by a StopTunnel or at the end of the
\* accept loop, nothing more is put in its channel: the error is the last item.
ToldIsFinal ==
  [][\A t \in Tunnels : tun[t].told => Len(tun'[t].chan) <= Len(tun[t].chan)]_vars

\* Each call returns: start_tunnel and close_tunnel, whatever becomes of the
\* connection they use and whoever holds the Mutex and the map, and close() of
\* the Session.
CallsReturn ==
  /\ \A t \in Tunnels : tun[t].call # "none" ~> tun[t].call = "none"
  /\ sess.call = "close" ~> sess.call = "closed"

\* read_req at the end of its stream: it reads 0 bytes and goes round, for ever.
Spinning == acc.pc = "request" /\ ~inner[gen].up

\* "Sessions recover from network failures by automatically reconnecting": a
\* lost connection is replaced, or the session has been ended, unless it was
\* lost under a StopTunnel request that accept() was reading.
Recovers ==
  \A g \in 1..(MaxGen - 1) :
    (gen = g /\ ~inner[g].up) ~> (gen > g \/ acc.pc = "done" \/ Spinning)

\* close() of the Session, with no reconnect under way, ends the accept loop for
\* good once the service hangs up: it does not reconnect.
CloseIsFinal ==
  (inner[gen].closed /\ acc.pc # "rebind") ~> (acc.pc = "done" \/ Spinning)

\* Every tunnel that is in the map then gets the error, unless its owner closes
\* or drops it first.
CloseTellsBound ==
  \A t \in Tunnels :
    (acc.pc \notin {"rebind", "done"} /\ inner[gen].closed
      /\ \E id \in inner[gen].tunnels : id.of = t)
      ~> (tun[t].told \/ tun[t].owner # "held" \/ Spinning)

\* Once the Session and all tunnels are dropped, and the closes that the drops
\* spawned are over, the loop ends, wherever it is.  (After a reconnect: on the
\* first connection it holds a Session itself and goes on for ever.)
DropEndsSession == Unreferenced ~> acc.pc = "done"

\* Both ways in which an application ends a session end its accept loop.
EndIsFinal == CloseIsFinal /\ DropEndsSession

\* "close the tunnel through the session": the owner of a tunnel in the map whose
\* StopTunnel the loop reads gets the error, whatever else it is doing, unless
\* the connection is lost under the request.  (Only the first connection reads
\* it: the IncomingStreams of a reconnect has no Session.)
StopTells ==
  \A t \in Tunnels :
    (acc.pc = "request" /\ \E id \in acc.ids \cap inner[gen].tunnels : id.of = t)
      ~> (tun[t].told \/ tun[t].owner # "held" \/ Spinning)

\* Whoever ends a tunnel, the service or close() of the Session, its owner learns
\* of it through the channel its connections come from.
OwnersAreTold == CloseTellsBound /\ StopTells

\* "Sessions recover from network failures by automatically reconnecting": a
\* tunnel its owner holds and nobody stopped is served after a reconnect.
TunnelSurvives ==
  \A t \in Tunnels :
    (acc.pc = "accept" /\ tun[t].owner = "held" /\ tun[t].call = "none" /\ ~tun[t].told)
      => \E id \in inner[gen].tunnels : id.of = t
=============================================================================
