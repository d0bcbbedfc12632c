------------------------------- MODULE Forward -------------------------------
(***************************************************************************)
(* Forwarding: accept_one tells a connection what its tunnel was bound     *)
(* with, forward_tunnel takes connections one after the other and spawns a *)
(* task for each, which reads the PROXY header, dials the URL, wraps it    *)
(* and joins both; or answers for a backend it could not reach.            *)
(*                                                                         *)
(* A Forwarder is two TunnelInner for one tunnel: the listener in the      *)
(* forwarding task, and the information the application holds; each closes *)
(* the tunnel when it is dropped.  The channel between accept_one and the  *)
(* tunnel never fills here (NgrokSession has that).                        *)
(***************************************************************************)
EXTENDS TunnelConfig

VARIABLES
  fwd,   \* for each tunnel: the forwarding task, the Forwarder, its channel
  conns  \* connections in the order accepted: where each is, and what it knows

vars == <<configVars, fwd, conns>>

\* As many as any plan has.
Tunnels == UNION {1..Plans[p].tunnels : p \in DOMAIN Plans}
Conns == UNION {1..Plans[p].conns : p \in DOMAIN Plans}

Edges == {"undefined", "tcp", "tls", "https"}
Stopped == 0  \* the AcceptError of a StopTunnel request, in a channel
BackendTls(url) == url.scheme \in {"https", "tls"}

\* forward
NewForwarder == [loop |-> "run", handle |-> "held", closes |-> 0, closed |-> FALSE, queue |-> <<>>]
NewListener == [NewForwarder EXCEPT !.loop = "none", !.handle = "none"]

Init == ConfigInit /\ fwd = <<>> /\ conns = <<>>
----------------------------------------------------------------------------
(* Accepting.                                                              *)

\* What the service sends with a connection: the protocol of the endpoint, or
\* the type of the edge and whether it left TLS to the agent.
Headers(t) ==
  IF kind = "labeled"
  THEN [proto : {""}, edge : Edges, passthrough : {FALSE}]
         \cup [proto : {""}, edge : {"tls"}, passthrough : {TRUE}]
  ELSE [proto : {tuns[t].bound.proto}, edge : {"undefined"}, passthrough : {FALSE}]

\* Whether the bytes of a connection are TLS, as the service has the tunnel.
ClientTls(tun, header) ==
  LET heard == tun.sent[Len(tun.sent)]
  IN IF kind = "tls" THEN heard.opts.tls_termination = Unset ELSE header.passthrough

\* Mutant of ConnInfo: passthrough_tls is left as the service sent it.
ConnInfoAsSent(bound, header) ==
  [app |-> bound.forwards_proto, verify |-> bound.verify, proto |-> header.proto,
   edge |-> header.edge, passthrough |-> header.passthrough,
   proxy |-> IF bound.opts = <<>> THEN 0 ELSE bound.opts.proxy_proto]

\* accept_one: the Info of a connection.
ConnInfo(bound, header) ==
  [app |-> bound.forwards_proto, verify |-> bound.verify, proto |-> header.proto,
   edge |-> header.edge,
   passthrough |-> IF bound.proto = "tls" THEN bound.opts.tls_termination = Unset
                   ELSE header.passthrough,
   proxy |-> IF bound.opts = <<>> THEN 0 ELSE bound.opts.proxy_proto]

Arrive(t, header) ==
  /\ Len(conns) < Plans[plan].conns /\ tuns[t].key # <<>> /\ fwd[t].loop = "run"
  /\ conns' = Append(conns, [tun |-> t, st |-> "queued", tls |-> ClientTls(tuns[t], header),
                             info |-> ConnInfo(tuns[t].bound, header), up |-> <<>>])
  /\ fwd' = [fwd EXCEPT ![t].queue = Append(@, Len(conns'))]
  /\ UNCHANGED configVars

\* close_tunnel_with_error
StopTunnel(t) ==
  /\ Plans[plan].closes /\ tuns[t].key # <<>> /\ fwd[t].loop = "run"
  /\ tuns' = [tuns EXCEPT ![t].key = <<>>]
  /\ fwd' = [fwd EXCEPT ![t].queue = Append(@, Stopped)]
  /\ UNCHANGED <<plan, kind, options, calls, auths, auth, conns>>
----------------------------------------------------------------------------
(* forward_tunnel.                                                         *)

Goto(c, st) == conns' = [conns EXCEPT ![c].st = st]

\* The listener goes with the task, and closes the tunnel.
EndLoop(t) == fwd' = [fwd EXCEPT ![t].loop = "ended", ![t].closes = @ + 1]

Take(t) ==
  /\ fwd[t].loop = "run" /\ fwd[t].queue # <<>> /\ Head(fwd[t].queue) # Stopped
  /\ LET c == Head(fwd[t].queue)
     IN Goto(c, IF kind # "labeled" /\ conns[c].info.proxy # 0 THEN "header" ELSE "dial")
  /\ fwd' = [fwd EXCEPT ![t].queue = Tail(@)]
  /\ UNCHANGED configVars

TakeError(t) ==
  /\ fwd[t].loop = "run" /\ fwd[t].queue # <<>> /\ Head(fwd[t].queue) = Stopped
  /\ EndLoop(t)
  /\ UNCHANGED <<configVars, conns>>

\* Mutant of TakeNone: what is in the channel is given up when it is closed.
TakeNoneAtOnce(t) ==
  /\ fwd[t].loop = "run" /\ tuns[t].key = <<>>
  /\ EndLoop(t)
  /\ UNCHANGED <<configVars, conns>>

\* The sender went with the BoundTunnel.
TakeNone(t) ==
  /\ fwd[t].loop = "run" /\ fwd[t].queue = <<>> /\ tuns[t].key = <<>>
  /\ EndLoop(t)
  /\ UNCHANGED <<configVars, conns>>
----------------------------------------------------------------------------
(* forward_to and connect, in the task of a connection.                    *)

Url(c) == tuns[conns[c].tun].url

\* proxy_header().await?
ReadHeader(c) ==
  /\ conns[c].st = "header"
  /\ conns' = [conns EXCEPT ![c].st = "dial", ![c].up = <<[layer |-> "proxy"]>>]
  /\ UNCHANGED <<configVars, fwd>>
ReadHeaderFails(c) ==
  /\ conns[c].st = "header"
  /\ Goto(c, "dropped")
  /\ UNCHANGED <<configVars, fwd>>

Dialable(url) ==
  /\ url.scheme \in {"tcp", "http", "https", "tls", "unix"}
  /\ url.scheme = "tcp" => url.port # 0

\* tunnel_tls, as EdgeConn and EndpointConn pass it to connect.
TunnelTls(info) ==
  (IF kind = "labeled" THEN info.edge = "tls" ELSE info.proto = "tls") /\ info.passthrough

NeedsTls(c) == BackendTls(Url(c)) /\ ~TunnelTls(conns[c].info)

Dial(c) ==
  /\ conns[c].st = "dial" /\ Dialable(Url(c))
  /\ Goto(c, IF NeedsTls(c) THEN "handshake" ELSE "joined")
  /\ UNCHANGED <<configVars, fwd>>

\* Mutant of TlsConfig: the flag for verification is read the wrong way round.
TlsConfigUnverified(info) == [layer |-> "tls", http2 |-> info.app = "http2", verify |-> ~info.verify]

\* tls_config
TlsConfig(info) == [layer |-> "tls", http2 |-> info.app = "http2", verify |-> info.verify]

\* Mutant of Handshake: the PROXY header is written inside TLS.
HandshakeFirst(c) ==
  /\ conns[c].st = "handshake"
  /\ conns' = [conns EXCEPT ![c].st = "joined", ![c].up = <<TlsConfig(conns[c].info)>> \o @]
  /\ UNCHANGED <<configVars, fwd>>

Handshake(c) ==
  /\ conns[c].st = "handshake"
  /\ conns' = [conns EXCEPT ![c].st = "joined", ![c].up = Append(@, TlsConfig(conns[c].info))]
  /\ UNCHANGED <<configVars, fwd>>

\* Only HTTP has an answer for the client.
SpeaksHttp(info) == IF kind = "labeled" THEN info.edge = "https" ELSE info.proto \in {"http", "https"}

\* Mutant of ConnectFails: the error of one connection ends the forwarding task.
ConnectFailsAll(c) ==
  /\ conns[c].st \in {"dial", "handshake"}
  /\ Goto(c, IF SpeaksHttp(conns[c].info) THEN "gateway" ELSE "dropped")
  /\ fwd' = [fwd EXCEPT ![conns[c].tun].loop = "ended"]
  /\ UNCHANGED configVars

\* Refused, unreachable, a bad certificate, or a URL that cannot be dialled.
ConnectFails(c) ==
  /\ conns[c].st \in {"dial", "handshake"}
  /\ Goto(c, IF SpeaksHttp(conns[c].info) THEN "gateway" ELSE "dropped")
  /\ UNCHANGED <<configVars, fwd>>

\* serve_gateway_error: one request is answered, keep_alive(false).
ServeGatewayError(c) ==
  /\ conns[c].st = "gateway"
  /\ Goto(c, "answered")
  /\ UNCHANGED <<configVars, fwd>>

\* copy_bidirectional returns.
EndCopy(c) ==
  /\ conns[c].st = "joined"
  /\ Goto(c, "ended")
  /\ UNCHANGED <<configVars, fwd>>
----------------------------------------------------------------------------
(* The Forwarder.                                                          *)

Close(t) ==
  /\ Plans[plan].closes /\ fwd[t].handle = "held"
  /\ fwd' = [fwd EXCEPT ![t].handle = "closed", ![t].closes = @ + 1]
  /\ UNCHANGED <<configVars, conns>>

\* Mutant of DropForwarder: the drop closes the tunnel and may happen again.
DropForwarderAgain(t) ==
  /\ Plans[plan].closes /\ fwd[t].handle \in {"held", "closed"}
  /\ fwd' = [fwd EXCEPT ![t].closes = @ + 1]
  /\ UNCHANGED <<configVars, conns>>

DropForwarder(t) ==
  /\ Plans[plan].closes /\ fwd[t].handle \in {"held", "closed"}
  /\ fwd' = [fwd EXCEPT ![t].handle = "gone", ![t].closes = @ + 1]
  /\ UNCHANGED <<configVars, conns>>

\* Mutant of CloseTunnel: the service is told, the map keeps the tunnel.
CloseTunnelKeeps(t) ==
  /\ fwd[t].closes > 0
  /\ fwd' = [fwd EXCEPT ![t].closes = @ - 1, ![t].closed = @ \/ tuns[t].key = tuns[t].info.id]
  /\ UNCHANGED <<configVars, conns>>

\* Session::close_tunnel, with the id the tunnel was started with.
CloseTunnel(t) ==
  /\ fwd[t].closes > 0
  /\ fwd' = [fwd EXCEPT ![t].closes = @ - 1, ![t].closed = @ \/ tuns[t].key = tuns[t].info.id]
  /\ tuns' = [tuns EXCEPT ![t].key = IF @ = tuns[t].info.id THEN <<>> ELSE @]
  /\ UNCHANGED <<plan, kind, options, calls, auths, auth, conns>>

\* unlisten(id).await?: the map stays as it is, and a dropped tunnel's error is
\* seen by nobody.
CloseTunnelFails(t) ==
  /\ fwd[t].closes > 0
  /\ fwd' = [fwd EXCEPT ![t].closes = @ - 1]
  /\ UNCHANGED <<configVars, conns>>
----------------------------------------------------------------------------
Configure ==
  \/ (\E c \in Plans[plan].calls : Set(c)) /\ UNCHANGED <<fwd, conns>>
  \/ Listen /\ fwd' = Append(fwd, NewListener) /\ UNCHANGED conns
  \/ (\E u \in Urls : ListenAndForward(u)) /\ fwd' = Append(fwd, NewForwarder) /\ UNCHANGED conns
  \/ ReconnectFails /\ UNCHANGED <<fwd, conns>>
  \/ (\E newIds \in BOOLEAN : Reconnect(newIds)) /\ UNCHANGED <<fwd, conns>>

Loop(t) == Take(t) \/ TakeError(t) \/ TakeNone(t)
Join(c) == ReadHeader(c) \/ ReadHeaderFails(c) \/ Dial(c) \/ Handshake(c) \/ ConnectFails(c)
             \/ ServeGatewayError(c)

Next ==
  \/ Configure
  \/ \E t \in DOMAIN tuns :
       \/ \E h \in Headers(t) : Arrive(t, h)
       \/ StopTunnel(t) \/ Loop(t)
       \/ Close(t) \/ DropForwarder(t) \/ CloseTunnel(t) \/ CloseTunnelFails(t)
  \/ \E c \in DOMAIN conns : Join(c) \/ EndCopy(c)

Fairness ==
  /\ \A t \in Tunnels : WF_vars(t \in DOMAIN tuns /\ Loop(t))
  /\ \A c \in Conns : WF_vars(c \in DOMAIN conns /\ Join(c))

Spec == Init /\ [][Next]_vars /\ Fairness
----------------------------------------------------------------------------
States == {"queued", "header", "dial", "handshake", "joined", "ended", "gateway", "answered",
           "dropped"}

\* Types: a connection belongs to a tunnel that was started, and a tunnel has at
\* most three closes under way: close() of the Forwarder, and the drops of its two
\* TunnelInner.
TypeOK ==
  /\ kind \in Kinds /\ DOMAIN options = Settings
  /\ \A i \in DOMAIN calls : calls[i].set \in SettingsOf(kind)
  /\ DOMAIN tuns \subseteq Tunnels /\ DOMAIN fwd = DOMAIN tuns /\ DOMAIN conns \subseteq Conns
  /\ \A t \in DOMAIN fwd : /\ fwd[t].loop \in {"none", "run", "ended"}
                           /\ fwd[t].handle \in {"none", "held", "closed", "gone"}
                           /\ fwd[t].closes \in 0..3
  /\ \A c \in DOMAIN conns : conns[c].st \in States /\ conns[c].tun \in DOMAIN tuns

Joined == {c \in DOMAIN conns : conns[c].st \in {"joined", "ended"}}
Said(c, s, default) == LastOf(tuns[conns[c].tun].said, s, default)
TlsLayers(c) == {i \in DOMAIN conns[c].up : conns[c].up[i].layer = "tls"}

\* Between the client and a backend that speaks TLS there is TLS exactly once,
\* the client's own or the agent's, whatever termination was asked for at the
\* edge and however often the tunnel was bound again; a backend that does not
\* speak it is never sent the agent's.
TlsOnce ==
  \A c \in Joined :
    IF BackendTls(Url(c)) THEN (TlsLayers(c) = {}) = conns[c].tls ELSE TlsLayers(c) = {}

\* A backend gets a PROXY header exactly when the application asked for it when
\* it started the tunnel, and gets it before anything else, outside TLS.
HeaderFirst ==
  \A c \in Joined :
    LET asked == kind # "labeled" /\ Said(c, "proxy_proto", 0) # 0
        at == {i \in DOMAIN conns[c].up : conns[c].up[i].layer = "proxy"}
    IN at = IF asked THEN {1} ELSE {}

\* The agent's TLS verifies the backend unless the application said not to, and
\* offers HTTP/2 only if the tunnel's app_protocol is that.
TlsAsSaid ==
  \A c \in Joined : \A i \in TlsLayers(c) :
    /\ conns[c].up[i].verify = Said(c, "verify_upstream_tls", TRUE)
    /\ conns[c].up[i].http2 = (Said(c, "app_protocol", "") = "http2")

\* A connection reaches the backend as the application said when it started the
\* tunnel, through rebinds, the headers of the service and the layers of
\* connect().
PathAsSaid == TypeOK /\ TlsOnce /\ HeaderFirst /\ TlsAsSaid

\* The forwarding task ends only because its tunnel is gone, never because of
\* one connection, and leaves no connection behind in the channel.
EndsWithTunnel ==
  \A t \in DOMAIN fwd : fwd[t].loop = "ended" =>
    /\ tuns[t].key = <<>>
    /\ \A c \in DOMAIN conns : conns[c].tun = t => conns[c].st # "queued"

\* Every connection that reaches the channel of a tunnel is joined with the
\* backend, answered, or dropped.
ConnsSettle ==
  \A c \in Conns :
    [](c \in DOMAIN conns =>
         <>(c \in DOMAIN conns /\ conns[c].st \in {"joined", "ended", "answered", "dropped"}))

\* A close() or a drop of the Forwarder that the service accepted ends the
\* forwarding task, which the application does not hold.
CloseEndsLoop ==
  \A t \in Tunnels :
    [](t \in DOMAIN fwd /\ fwd[t].closed => <>(t \in DOMAIN fwd /\ fwd[t].loop # "run"))

\* Forwarding goes on while the tunnel is there, and no longer.
ForwardsAndEnds == ConnsSettle /\ CloseEndsLoop
==============================================================================
