--------------------------- MODULE ForwardProofs ---------------------------
(***************************************************************************)
(* Forwarding, for every plan of calls, tunnels, reconnects, connections   *)
(* and closes: a connection reaches its backend as the application said    *)
(* when it started the tunnel, the forwarding task ends with its tunnel    *)
(* and leaves no connection behind, and every request for a tunnel says    *)
(* what the setter calls made before it was started say.                   *)
(***************************************************************************)
EXTENDS Forward, Integers, FiniteSetTheorems, WellFoundedInduction, TLAPS

----------------------------------------------------------------------------
(* The inductive invariant.                                                *)

RangeOf(s) == {s[i] : i \in DOMAIN s}
IsSeq(s) == s \in Seq(RangeOf(s))

\* The settings that decide how a connection is forwarded.
PathSettings == {"proxy_proto", "verify_upstream_tls", "app_protocol", "scheme"}

\* One of some calls is the last.
HasLast(own) == own = {} \/ \E i \in own : \A j \in own : j <= i

\* The options of the builder are what the last calls set.
CallInv(c) ==
  /\ c.set \in SettingsOf(kind) /\ c.val # Unset
  /\ c.set = "scheme" => c.val \in {"http", "https"}
BuilderInv ==
  /\ plan \in DOMAIN Plans /\ kind \in Kinds /\ DOMAIN options = Settings
  /\ IsSeq(calls) /\ \A i \in DOMAIN calls : CallInv(calls[i])
  /\ \A s \in PathSettings :
       HasLast(CallsOf(calls, s)) /\ options[s] = LastOf(calls, s, Unset)

\* What is kept of a tunnel is what was said before it was started.
ProtoInv(b) ==
  /\ kind = "http" => b.proto \in {"http", "https"}
  /\ kind = "tcp" => b.proto = "tcp"
  /\ kind = "tls" => b.proto = "tls"
  /\ kind = "labeled" => b.proto = "" /\ b.opts = <<>>
BoundInv(b, said) ==
  /\ ProtoInv(b)
  /\ b.verify = LastOf(said, "verify_upstream_tls", TRUE)
  /\ b.forwards_proto = LastOf(said, "app_protocol", "")
  /\ kind # "labeled" => b.opts # <<>> /\ b.opts.proxy_proto = LastOf(said, "proxy_proto", 0)
TunInv(tun) ==
  /\ {"key", "sent", "addr"} \subseteq DOMAIN tun
  /\ IsSeq(tun.sent) /\ tun.sent # <<>>
  /\ BoundInv(tun.bound, tun.said)
  /\ kind = "tls" =>
       tun.sent[Len(tun.sent)].opts.tls_termination = tun.bound.opts.tls_termination
TunsInv ==
  /\ IsSeq(tuns) /\ Len(tuns) <= Plans[plan].tunnels
  /\ \A t \in DOMAIN tuns : TunInv(tuns[t])

\* Closes under way and still to come are at most three.
Forwarders == [loop : {"none", "run", "ended"}, handle : {"none", "held", "closed", "gone"},
               closes : 0..3, closed : BOOLEAN, queue : Seq(Nat)]
Owed(f) == f.closes + (IF f.loop = "run" THEN 1 ELSE 0)
                    + (IF f.handle = "held" THEN 2 ELSE IF f.handle = "closed" THEN 1 ELSE 0)
FwdInv ==
  /\ fwd \in Seq(Forwarders) /\ Len(fwd) = Len(tuns)
  /\ \A t \in DOMAIN fwd : Owed(fwd[t]) <= 3

\* A channel holds every queued connection of its tunnel once, and behind them
\* at most the error that says that the tunnel is gone.
ItemInv(t, i) ==
  LET q == fwd[t].queue
  IN IF q[i] = Stopped THEN i = Len(q) /\ tuns[t].key = <<>>
     ELSE q[i] \in DOMAIN conns /\ conns[q[i]].tun = t /\ conns[q[i]].st = "queued"
QueueInv ==
  /\ \A t \in DOMAIN fwd :
       /\ \A i \in DOMAIN fwd[t].queue : ItemInv(t, i)
       /\ \A i, j \in DOMAIN fwd[t].queue : fwd[t].queue[i] = fwd[t].queue[j] => i = j
       /\ fwd[t].loop = "ended" =>
            tuns[t].key = <<>> /\ \A i \in DOMAIN fwd[t].queue : fwd[t].queue[i] = Stopped
  /\ \A c \in DOMAIN conns : conns[c].st = "queued" =>
       \E i \in DOMAIN fwd[conns[c].tun].queue : fwd[conns[c].tun].queue[i] = c

\* What a connection has been sent before it is joined, by where it is.
Asks(x) == kind # "labeled" /\ x.info.proxy # 0
Wants(x, url) == BackendTls(url) /\ ~TunnelTls(x.info)
HeaderOf(x) == IF Asks(x) THEN <<[layer |-> "proxy"]>> ELSE <<>>
UpInv(x, url) ==
  /\ x.st \in {"queued", "header"} => x.up = <<>>
  /\ x.st = "header" => Asks(x)
  /\ x.st \in {"dial", "handshake"} => x.up = HeaderOf(x)
  /\ x.st = "handshake" => Wants(x, url)
  /\ x.st \in {"joined", "ended"} =>
       x.up = IF Wants(x, url) THEN Append(HeaderOf(x), TlsConfig(x.info)) ELSE HeaderOf(x)
InfoInv(x, b) ==
  /\ x.info.verify = b.verify /\ x.info.app = b.forwards_proto
  /\ kind # "labeled" => x.info.proxy = b.opts.proxy_proto
  /\ x.tls = TunnelTls(x.info)
ConnInv(x) ==
  /\ DOMAIN x = {"tun", "st", "tls", "info", "up"}
  /\ x.tun \in DOMAIN tuns /\ x.st \in States
  /\ InfoInv(x, tuns[x.tun].bound) /\ UpInv(x, tuns[x.tun].url)
ConnsInv ==
  /\ IsSeq(conns) /\ Len(conns) <= Plans[plan].conns
  /\ \A c \in DOMAIN conns : ConnInv(conns[c])

ForwardInv == BuilderInv /\ TunsInv /\ FwdInv /\ QueueInv /\ ConnsInv
----------------------------------------------------------------------------
(* Sequences of anything.                                                  *)

\* Any sequence is one of its own elements.
LEMMA SeqIsSeq == ASSUME NEW S, NEW s \in Seq(S) PROVE IsSeq(s)
BY DEF IsSeq, RangeOf

\* The indices of a sequence.
LEMMA SeqAt ==
  ASSUME NEW s, IsSeq(s)
  PROVE  Len(s) \in Nat /\ DOMAIN s = 1..Len(s)
BY DEF IsSeq

\* A sequence that gets longer.
LEMMA AppendAt ==
  ASSUME NEW s, IsSeq(s), NEW e
  PROVE  /\ IsSeq(Append(s, e)) /\ Len(Append(s, e)) = Len(s) + 1
         /\ DOMAIN Append(s, e) = 1..(Len(s) + 1)
         /\ \A i \in DOMAIN s : Append(s, e)[i] = s[i]
         /\ Append(s, e)[Len(s) + 1] = e
<1> DEFINE S == RangeOf(s) \cup {e}
<1>1. s \in Seq(S)
  BY DEF IsSeq, RangeOf
<1>2. Append(s, e) \in Seq(S)
  BY <1>1
<1> HIDE DEF S
<1>3. IsSeq(Append(s, e))
  BY <1>2, SeqIsSeq
<1> QED
  BY <1>1, <1>3, SeqAt

\* A sequence of one.
LEMMA OneSeq ==
  ASSUME NEW e, NEW s, s = <<e>>
  PROVE  IsSeq(s) /\ s # <<>> /\ s[Len(s)] = e
<1>1. <<e>> \in Seq({e})
  OBVIOUS
<1>2. IsSeq(<<e>>)
  BY <1>1, SeqIsSeq
<1>3. Len(<<e>>) = 1 /\ <<e>>[1] = e /\ <<e>> # <<>>
  OBVIOUS
<1> QED
  BY <1>2, <1>3

\* A function on the indices of a sequence is one.
LEMMA MappedSeq ==
  ASSUME NEW s, IsSeq(s), NEW r, r = [i \in DOMAIN s |-> r[i]]
  PROVE  IsSeq(r) /\ Len(r) = Len(s) /\ DOMAIN r = DOMAIN s
<1>1. Len(s) \in Nat /\ DOMAIN s = 1..Len(s)
  BY SeqAt
<1>2. r \in Seq(RangeOf(r))
  BY <1>1 DEF RangeOf
<1> QED
  BY <1>1, <1>2 DEF IsSeq

\* The same for one that is changed at an index.
LEMMA ExceptSeq ==
  ASSUME NEW s, IsSeq(s), NEW i, NEW e
  PROVE  /\ IsSeq([s EXCEPT ![i] = e]) /\ Len([s EXCEPT ![i] = e]) = Len(s)
         /\ DOMAIN [s EXCEPT ![i] = e] = DOMAIN s
<1> DEFINE r == [s EXCEPT ![i] = e]
<1>1. r = [j \in DOMAIN s |-> r[j]]
  OBVIOUS
<1> HIDE DEF r
<1>2. IsSeq(r) /\ Len(r) = Len(s) /\ DOMAIN r = DOMAIN s
  BY <1>1, MappedSeq
<1> QED
  BY <1>2 DEF r
----------------------------------------------------------------------------
(* The builder: the last call of a setter.                                 *)

\* LastOf in terms of CallsOf.
LEMMA LastOfIs ==
  ASSUME NEW said, NEW s, NEW d
  PROVE  LastOf(said, s, d) = IF CallsOf(said, s) = {} THEN d ELSE said[Last(CallsOf(said, s))].val
BY DEF LastOf

\* The last of some indices is one of them.
LEMMA LastIn ==
  ASSUME NEW own, HasLast(own), own # {}
  PROVE  Last(own) \in own /\ \A j \in own : j <= Last(own)
BY DEF HasLast, Last

\* A call is the last of its setter, and of no other.
LEMMA LastAppend ==
  ASSUME NEW said, IsSeq(said), NEW c, NEW s, NEW d, HasLast(CallsOf(said, s))
  PROVE  /\ HasLast(CallsOf(Append(said, c), s))
         /\ LastOf(Append(said, c), s, d) = IF c.set = s THEN c.val ELSE LastOf(said, s, d)
<1> DEFINE n == Len(said) + 1  own == CallsOf(said, s)  all == CallsOf(Append(said, c), s)
           longer == Append(said, c)
<1>1. /\ Len(said) \in Nat /\ DOMAIN said = 1..Len(said) /\ DOMAIN longer = 1..n
      /\ \A i \in DOMAIN said : longer[i] = said[i]
      /\ longer[n] = c
  BY SeqAt, AppendAt
<1>2. own \subseteq 1..Len(said)
  BY <1>1 DEF CallsOf
<1>3. CASE c.set = s
  <2>1. all = own \cup {n}
    BY <1>1, <1>3 DEF CallsOf
  <2>2. \A j \in all : j <= n
    BY <1>1, <1>2, <2>1
  <2>3. HasLast(all) /\ all # {}
    BY <2>1, <2>2 DEF HasLast
  <2>4. Last(all) \in all /\ n <= Last(all)
    BY <2>1, <2>3, LastIn
  <2>5. Last(all) = n
    BY <1>1, <1>2, <2>1, <2>2, <2>4
  <2> QED
    BY <1>1, <1>3, <2>3, <2>5, LastOfIs
<1>4. CASE c.set # s
  <2>1. all = own
    BY <1>1, <1>4 DEF CallsOf
  <2>2. own # {} => Last(own) \in DOMAIN said
    BY LastIn DEF CallsOf
  <2> QED
    BY <1>1, <1>4, <2>1, <2>2, LastOfIs
<1> QED
  BY <1>3, <1>4

\* An option that a later call replaces is the last value, or the default.
LEMMA OptionIsLast ==
  ASSUME BuilderInv, NEW s \in PathSettings, NEW d
  PROVE  OrElse(options[s], d) = LastOf(calls, s, d)
<1>1. HasLast(CallsOf(calls, s)) /\ options[s] = LastOf(calls, s, Unset)
  BY DEF BuilderInv
<1>2. CASE CallsOf(calls, s) = {}
  BY <1>1, <1>2, LastOfIs DEF OrElse
<1>3. CASE CallsOf(calls, s) # {}
  <2>1. Last(CallsOf(calls, s)) \in DOMAIN calls
    BY <1>1, <1>3, LastIn DEF CallsOf
  <2>2. calls[Last(CallsOf(calls, s))].val # Unset
    BY <2>1 DEF BuilderInv, CallInv
  <2> QED
    BY <1>1, <1>3, <2>2, LastOfIs DEF OrElse
<1> QED
  BY <1>2, <1>3

\* A scheme is one of two.
LEMMA SchemeIsHttp ==
  ASSUME BuilderInv
  PROVE  OrElse(options["scheme"], "https") \in {"http", "https"}
<1> DEFINE own == CallsOf(calls, "scheme")
<1>1. HasLast(own) /\ OrElse(options["scheme"], "https") = LastOf(calls, "scheme", "https")
  BY OptionIsLast DEF BuilderInv, PathSettings
<1>2. own # {} => Last(own) \in own
  BY <1>1, LastIn
<1>3. own # {} => calls[Last(own)].val \in {"http", "https"}
  BY <1>2 DEF BuilderInv, CallInv, CallsOf
<1> QED
  BY <1>1, <1>3, LastOfIs

\* Where app_protocol cannot be called, nobody did.
LEMMA NoAppProtocol ==
  ASSUME BuilderInv, kind \in {"tcp", "tls"}
  PROVE  LastOf(calls, "app_protocol", "") = ""
<1>1. "app_protocol" \notin SettingsOf(kind)
  BY DEF SettingsOf, TcpSettings, TlsSettings, EndpointSettings
<1>2. CallsOf(calls, "app_protocol") = {}
  BY <1>1 DEF BuilderInv, CallInv, CallsOf
<1> QED
  BY <1>2, LastOfIs

\* for_forwarding_to leaves the settings of the path as they are.
LEMMA ForwardingKeeps ==
  ASSUME BuilderInv, NEW url
  PROVE  \A s \in PathSettings \cup {"termination"} : ForForwardingTo(options, url)[s] = options[s]
<1> DEFINE p == [options EXCEPT !["forwards_to"] = url]
           call == [set |-> "request_header", val |-> <<"host", url.host>>]
<1>1. \A s \in PathSettings \cup {"termination"} :
        s # "forwards_to" /\ s # "request_header" /\ s \in DOMAIN options
  BY DEF PathSettings, BuilderInv, Settings, AllKinds, SettingsOf, HttpSettings, TcpSettings,
         TlsSettings, LabeledSettings, EndpointSettings
<1>2. \A s \in PathSettings \cup {"termination"} : p[s] = options[s] /\ s \in DOMAIN p
  BY <1>1
<1> HIDE DEF p
<1>3. \A s \in PathSettings \cup {"termination"} : Apply(p, call)[s] = options[s]
  <2> DEFINE v == CASE call.set \in Lists -> Push(p[call.set], call.set, call.val)
                    [] call.set \in Tables -> Insert(p[call.set], call.set, call.val[1], call.val[2])
                    [] call.set = "policy" -> TryPolicy(p[call.set], call.val)
                    [] OTHER -> call.val
  <2>1. Apply(p, call) = [p EXCEPT ![call.set] = v]
    BY DEF Apply
  <2>2. call.set = "request_header"
    OBVIOUS
  <2> HIDE DEF v, call
  <2> QED
    BY <1>1, <1>2, <2>1, <2>2
<1> QED
  BY <1>2, <1>3 DEF ForForwardingTo, p
----------------------------------------------------------------------------
(* Tunnels: what is kept is what was said.                                 *)

\* The options of an endpoint, asked for and answered.
LEMMA EndpointOpts ==
  ASSUME kind \in {"http", "tcp", "tls"}, NEW o, NEW addr, NEW kept,
         kept = KeptOpts(Opts(kind, o), AnsweredOpts(Opts(kind, o), addr))
  PROVE  /\ kept # <<>> /\ kept.proxy_proto = OrElse(o["proxy_proto"], 0)
         /\ kind = "tls" => Opts(kind, o).tls_termination = kept.tls_termination
<1>1. CASE kind = "http"
  <2>1. Opts(kind, o) = HttpEndpoint(o)
    BY <1>1 DEF Opts
  <2>2. kept = [HttpEndpoint(o) EXCEPT !.hostname = addr]
    BY <2>1 DEF KeptOpts, AnsweredOpts, HttpEndpoint
  <2>3. "proxy_proto" \in DOMAIN kept /\ kept.proxy_proto = HttpEndpoint(o).proxy_proto
    BY <2>2 DEF HttpEndpoint
  <2> QED
    BY <1>1, <2>3 DEF HttpEndpoint
<1>2. CASE kind = "tcp"
  <2>1. Opts(kind, o) = TcpEndpoint(o)
    BY <1>2 DEF Opts
  <2>2. kept = [TcpEndpoint(o) EXCEPT !.addr = addr]
    BY <2>1 DEF KeptOpts, AnsweredOpts, TcpEndpoint
  <2>3. "proxy_proto" \in DOMAIN kept /\ kept.proxy_proto = TcpEndpoint(o).proxy_proto
    BY <2>2 DEF TcpEndpoint
  <2> QED
    BY <1>2, <2>3 DEF TcpEndpoint
<1>3. CASE kind = "tls"
  <2>1. Opts(kind, o) = TlsEndpoint(o)
    BY <1>3 DEF Opts
  <2>2. kept = [TlsEndpoint(o) EXCEPT !.hostname = addr]
    BY <2>1 DEF KeptOpts, AnsweredOpts, TlsEndpoint
  <2>3. /\ "proxy_proto" \in DOMAIN kept /\ kept.proxy_proto = TlsEndpoint(o).proxy_proto
        /\ kept.tls_termination = TlsEndpoint(o).tls_termination
    BY <2>2 DEF TlsEndpoint
  <2> QED
    BY <2>1, <2>3 DEF TlsEndpoint
<1> QED
  BY <1>1, <1>2, <1>3

\* The protocol of a tunnel.
LEMMA ProtoIs ==
  ASSUME BuilderInv, NEW o, o["scheme"] = options["scheme"]
  PROVE  /\ kind \in {"http", "tcp", "tls", "labeled"}
         /\ kind = "http" => Proto(kind, o) \in {"http", "https"}
         /\ kind = "tcp" => Proto(kind, o) = "tcp"
         /\ kind = "tls" => Proto(kind, o) = "tls"
         /\ kind = "labeled" => Proto(kind, o) = ""
<1>1. kind \in {"http", "tcp", "tls", "labeled"}
  BY ConfigAssumption DEF BuilderInv, AllKinds
<1>2. OrElse(o["scheme"], "https") \in {"http", "https"}
  BY SchemeIsHttp
<1> QED
  BY <1>1, <1>2 DEF Proto

\* The parts of a tunnel that is started, by the request for it.
LEMMA EndpointParts ==
  ASSUME NEW o, NEW t, NEW url, NEW tun, tun = StartedEndpoint(o, t, url), NEW req,
         req = BindReq(<<>>, Proto(kind, o), Opts(kind, o), Extra(o), ForwardsTo(o),
                       ForwardsProto(kind, o))
  PROVE  /\ {"key", "sent", "addr"} \subseteq DOMAIN tun
         /\ tun.said = calls /\ tun.sent = <<req>>
         /\ tun.bound.proto = Proto(kind, o) /\ tun.bound.forwards_proto = ForwardsProto(kind, o)
         /\ tun.bound.verify = VerifyUpstreamTls(o) /\ req.opts = Opts(kind, o)
         /\ tun.bound.opts =
              KeptOpts(Opts(kind, o), AnsweredOpts(Opts(kind, o), Address(Opts(kind, o), t)))
BY DEF StartedEndpoint, BindReq

\* The parts of a labeled tunnel.
IsLabeled(tun, o) ==
  /\ {"key", "sent", "addr"} \subseteq DOMAIN tun
  /\ tun.said = calls /\ IsSeq(tun.sent) /\ tun.sent # <<>>
  /\ tun.bound.proto = "" /\ tun.bound.forwards_proto = ForwardsProto(kind, o)
  /\ tun.bound.verify = VerifyUpstreamTls(o) /\ tun.bound.opts = <<>>

\* start_tunnel makes them.
LEMMA LabeledParts ==
  ASSUME NEW o, NEW t, NEW url, NEW tun, tun = StartedLabeled(o, t, url)
  PROVE  IsLabeled(tun, o)
<1> DEFINE req == LabelReq(o["label"], Extra(o).metadata, ForwardsTo(o), ForwardsProto(kind, o))
<1>1. /\ {"key", "sent", "addr"} \subseteq DOMAIN tun
      /\ tun.said = calls /\ tun.sent = <<req>>
      /\ tun.bound.proto = "" /\ tun.bound.forwards_proto = ForwardsProto(kind, o)
      /\ tun.bound.verify = VerifyUpstreamTls(o) /\ tun.bound.opts = <<>>
  BY DEF StartedLabeled, LabelReq
<1> HIDE DEF req
<1> QED
  BY <1>1, OneSeq DEF IsLabeled

\* A tunnel that is started.
LEMMA StartedInv ==
  ASSUME BuilderInv, NEW o, \A s \in PathSettings \cup {"termination"} : o[s] = options[s],
         NEW t, NEW url
  PROVE  TunInv(IF Proto(kind, o) # "" THEN StartedEndpoint(o, t, url) ELSE StartedLabeled(o, t, url))
<1>1. /\ kind \in {"http", "tcp", "tls", "labeled"}
      /\ kind = "http" => Proto(kind, o) \in {"http", "https"}
      /\ kind = "tcp" => Proto(kind, o) = "tcp"
      /\ kind = "tls" => Proto(kind, o) = "tls"
      /\ kind = "labeled" => Proto(kind, o) = ""
  BY ProtoIs DEF PathSettings
<1>2. VerifyUpstreamTls(o) = LastOf(calls, "verify_upstream_tls", TRUE)
  BY OptionIsLast DEF VerifyUpstreamTls, PathSettings
<1>3. ForwardsProto(kind, o) = LastOf(calls, "app_protocol", "")
  BY <1>1, OptionIsLast, NoAppProtocol DEF ForwardsProto, PathSettings
<1>4. OrElse(o["proxy_proto"], 0) = LastOf(calls, "proxy_proto", 0)
  BY OptionIsLast DEF PathSettings
<1>5. CASE kind # "labeled"
  <2>1. PICK tun : tun = StartedEndpoint(o, t, url)
    OBVIOUS
  <2>2. PICK req : req = BindReq(<<>>, Proto(kind, o), Opts(kind, o), Extra(o), ForwardsTo(o),
                                 ForwardsProto(kind, o))
    OBVIOUS
  <2>3. PICK kept : kept = KeptOpts(Opts(kind, o),
                                    AnsweredOpts(Opts(kind, o), Address(Opts(kind, o), t)))
    OBVIOUS
  <2>4. /\ {"key", "sent", "addr"} \subseteq DOMAIN tun
        /\ tun.said = calls /\ tun.sent = <<req>>
        /\ tun.bound.proto = Proto(kind, o) /\ tun.bound.forwards_proto = ForwardsProto(kind, o)
        /\ tun.bound.verify = VerifyUpstreamTls(o) /\ req.opts = Opts(kind, o)
        /\ tun.bound.opts = kept
    BY <2>1, <2>2, <2>3, EndpointParts
  <2>5. /\ kept # <<>> /\ kept.proxy_proto = OrElse(o["proxy_proto"], 0)
        /\ kind = "tls" => Opts(kind, o).tls_termination = kept.tls_termination
    BY <1>1, <1>5, <2>3, EndpointOpts
  <2>6. BoundInv(tun.bound, tun.said)
    <3>1. ProtoInv(tun.bound)
      BY <1>1, <1>5, <2>4 DEF ProtoInv
    <3>2. tun.bound.opts # <<>> /\ tun.bound.opts.proxy_proto = LastOf(calls, "proxy_proto", 0)
      BY <1>4, <2>4, <2>5
    <3> QED
      BY <1>2, <1>3, <2>4, <3>1, <3>2 DEF BoundInv
  <2>7. IsSeq(tun.sent) /\ tun.sent # <<>> /\ tun.sent[Len(tun.sent)] = req
    BY <2>4, OneSeq
  <2>8. TunInv(tun)
    BY <2>4, <2>5, <2>6, <2>7 DEF TunInv
  <2> QED
    BY <1>1, <1>5, <2>1, <2>8
<1>6. CASE kind = "labeled"
  <2>1. PICK tun : tun = StartedLabeled(o, t, url)
    OBVIOUS
  <2>2. IsLabeled(tun, o)
    BY <2>1, LabeledParts
  <2>3. BoundInv(tun.bound, tun.said)
    BY <1>2, <1>3, <1>6, <2>2 DEF BoundInv, ProtoInv, IsLabeled
  <2>4. TunInv(tun)
    BY <1>6, <2>2, <2>3 DEF TunInv, IsLabeled
  <2> QED
    BY <1>1, <1>6, <2>1, <2>4
<1> QED
  BY <1>5, <1>6

\* A tunnel that is bound again.
LEMMA ReboundInv ==
  ASSUME BuilderInv, NEW tun, TunInv(tun), NEW t, NEW newId
  PROVE  /\ TunInv(Rebound(tun, t, newId))
         /\ Rebound(tun, t, newId).bound = tun.bound /\ Rebound(tun, t, newId).url = tun.url
         /\ Rebound(tun, t, newId).said = tun.said
<1> DEFINE new == Rebound(tun, t, newId)
           b == tun.bound
           bind == BindReq(tun.key, b.proto, b.opts, b.extra, b.forwards_to, b.forwards_proto)
           req == IF b.proto # "" THEN bind
                  ELSE LabelReq(b.labels, b.extra.metadata, b.forwards_to, b.forwards_proto)
<1>1. /\ DOMAIN new = DOMAIN tun
      /\ new.bound = b /\ new.url = tun.url /\ new.said = tun.said
      /\ new.sent = Append(tun.sent, req)
  <2>1. CASE b.proto # ""
    <3>1. new = [tun EXCEPT !.sent = Append(@, req), !.addr = Address(b.opts, t)]
      BY <2>1 DEF Rebound
    <3> HIDE DEF new, req
    <3> QED
      BY <3>1 DEF TunInv
  <2>2. CASE b.proto = ""
    <3>1. new = [tun EXCEPT !.sent = Append(@, req), !.key = IF newId THEN FreshId(t) ELSE tun.key]
      BY <2>2 DEF Rebound
    <3> HIDE DEF new, req
    <3> QED
      BY <3>1 DEF TunInv
  <2> QED
    BY <2>1, <2>2
<1>2. bind.opts = b.opts
  BY DEF BindReq
<1>3. kind = "tls" => req = bind
  BY DEF TunInv, BoundInv, ProtoInv
<1> HIDE DEF new, req, bind
<1>4. /\ IsSeq(new.sent) /\ Len(tun.sent) \in Nat /\ Len(new.sent) = Len(tun.sent) + 1
      /\ new.sent[Len(new.sent)] = req
  BY <1>1, AppendAt, SeqAt DEF TunInv
<1>5. new.sent # <<>>
  BY <1>4
<1>6. TunInv(new)
  BY <1>1, <1>2, <1>3, <1>4, <1>5 DEF TunInv
<1> QED
  BY <1>1, <1>6 DEF new

\* A tunnel whose key changes and nothing else.
LEMMA KeyedInv ==
  ASSUME NEW tun, TunInv(tun), NEW k
  PROVE  /\ TunInv([tun EXCEPT !.key = k]) /\ [tun EXCEPT !.key = k].key = k
         /\ [tun EXCEPT !.key = k].bound = tun.bound /\ [tun EXCEPT !.key = k].url = tun.url
         /\ [tun EXCEPT !.key = k].said = tun.said
BY DEF TunInv
----------------------------------------------------------------------------
(* What a step leaves alone.                                               *)

\* A builder nobody calls.
LEMMA BuilderSame ==
  ASSUME BuilderInv, UNCHANGED <<plan, kind, options, calls>>
  PROVE  BuilderInv'
<1>1. IsSeq(calls)' /\ (\A i \in DOMAIN calls : CallInv(calls[i]))'
  BY DEF BuilderInv, CallInv, IsSeq, RangeOf, SettingsOf
<1>2. ASSUME NEW s \in PathSettings
      PROVE  HasLast(CallsOf(calls, s))' /\ (options[s] = LastOf(calls, s, Unset))'
  BY DEF BuilderInv, HasLast, CallsOf, LastOf
<1> QED
  BY <1>1, <1>2 DEF BuilderInv, Settings, PathSettings

\* A tunnel as it was, while the type of tunnels does not change.
LEMMA TunInvSame == ASSUME UNCHANGED kind, NEW tun, TunInv(tun) PROVE TunInv(tun)'
<1>1. BoundInv(tun.bound, tun.said)'
  BY DEF TunInv, BoundInv, ProtoInv, LastOf
<1>2. IsSeq(tun.sent)'
  BY DEF TunInv, IsSeq, RangeOf
<1> QED
  BY <1>1, <1>2 DEF TunInv

\* Tunnels as they were.
LEMMA TunsSame == ASSUME TunsInv, UNCHANGED <<plan, kind, tuns>> PROVE TunsInv'
BY TunInvSame DEF TunsInv

\* Tunnels keep what they were bound with and where they forward to.
TunsKept ==
  /\ DOMAIN tuns \subseteq DOMAIN tuns'
  /\ \A t \in DOMAIN tuns : tuns'[t].bound = tuns[t].bound /\ tuns'[t].url = tuns[t].url

\* A connection of a tunnel that keeps what it was bound with.
LEMMA ConnSame ==
  ASSUME TunsKept, UNCHANGED kind, NEW x, ConnInv(x)
  PROVE  ConnInv(x)'
<1>1. /\ x.tun \in DOMAIN tuns /\ x.tun \in DOMAIN tuns'
      /\ tuns'[x.tun].bound = tuns[x.tun].bound /\ tuns'[x.tun].url = tuns[x.tun].url
  BY DEF TunsKept, ConnInv
<1>2. InfoInv(x, tuns[x.tun].bound)'
  BY <1>1 DEF ConnInv, InfoInv, TunnelTls
<1>3. UpInv(x, tuns[x.tun].url)'
  BY <1>1 DEF ConnInv, UpInv, Asks, Wants, HeaderOf, TunnelTls, BackendTls, TlsConfig
<1> QED
  BY <1>1, <1>2, <1>3 DEF ConnInv, States

\* Connections as they were, of such tunnels.
LEMMA ConnsSame ==
  ASSUME ConnsInv, TunsKept, UNCHANGED <<plan, kind, conns>>
  PROVE  ConnsInv'
<1>1. \A c \in DOMAIN conns : ConnInv(conns[c])'
  BY ConnSame DEF ConnsInv
<1>2. IsSeq(conns)'
  BY DEF ConnsInv, IsSeq, RangeOf
<1> QED
  BY <1>1, <1>2 DEF ConnsInv

\* Tunnels that do not change keep everything.
LEMMA TunsKeptSame == ASSUME UNCHANGED tuns PROVE TunsKept
BY DEF TunsKept

\* One set of indices for tunnels and their Forwarders.
LEMMA SameIndices ==
  ASSUME TunsInv, FwdInv
  PROVE  /\ DOMAIN fwd = DOMAIN tuns /\ DOMAIN fwd = 1..Len(fwd) /\ Len(fwd) \in Nat
         /\ \A t \in DOMAIN fwd : fwd[t] \in Forwarders
BY SeqAt DEF TunsInv, FwdInv

\* A channel that stays as it is, of a tunnel that does not come back; or a new
\* one.
ChannelKept(t) ==
  \/ /\ t \in DOMAIN fwd /\ fwd'[t].queue = fwd[t].queue
     /\ tuns[t].key = <<>> => tuns'[t].key = <<>>
     /\ fwd'[t].loop = "ended" =>
          tuns'[t].key = <<>> /\ \A i \in DOMAIN fwd[t].queue : fwd[t].queue[i] = Stopped
  \/ t \notin DOMAIN fwd /\ fwd'[t].queue = <<>> /\ fwd'[t].loop # "ended"

\* Channels that keep what they hold.
LEMMA QueueSame ==
  ASSUME ForwardInv, UNCHANGED conns, DOMAIN fwd \subseteq DOMAIN fwd',
         \A t \in DOMAIN fwd' : ChannelKept(t)
  PROVE  QueueInv'
<1>1. \A c \in DOMAIN conns : conns[c].tun \in DOMAIN fwd
  BY SameIndices DEF ForwardInv, ConnsInv, ConnInv
<1>2. ASSUME NEW t \in DOMAIN fwd'
      PROVE  /\ \A i \in DOMAIN fwd'[t].queue : ItemInv(t, i)'
             /\ \A i, j \in DOMAIN fwd'[t].queue : fwd'[t].queue[i] = fwd'[t].queue[j] => i = j
             /\ fwd'[t].loop = "ended" =>
                  tuns'[t].key = <<>> /\ \A i \in DOMAIN fwd'[t].queue : fwd'[t].queue[i] = Stopped
  <2>1. CASE t \in DOMAIN fwd
    <3>1. fwd'[t].queue = fwd[t].queue /\ (tuns[t].key = <<>> => tuns'[t].key = <<>>)
      BY <2>1, <1>2 DEF ChannelKept
    <3>2. ASSUME NEW i \in DOMAIN fwd[t].queue PROVE ItemInv(t, i)'
      <4>1. ItemInv(t, i)
        BY <2>1 DEF ForwardInv, QueueInv
      <4> QED
        BY <3>1, <4>1 DEF ItemInv, Stopped
    <3> QED
      BY <1>2, <2>1, <3>1, <3>2 DEF ForwardInv, QueueInv, ChannelKept
  <2>2. CASE t \notin DOMAIN fwd
    <3>1. fwd'[t].queue = <<>> /\ fwd'[t].loop # "ended"
      BY <1>2, <2>2 DEF ChannelKept
    <3> QED
      BY <3>1
  <2> QED
    BY <2>1, <2>2
<1>3. ASSUME NEW c \in DOMAIN conns, conns[c].st = "queued"
      PROVE  \E i \in DOMAIN fwd'[conns[c].tun].queue : fwd'[conns[c].tun].queue[i] = c
  <2>1. conns[c].tun \in DOMAIN fwd /\ conns[c].tun \in DOMAIN fwd'
    BY <1>1, <1>3
  <2>2. fwd'[conns[c].tun].queue = fwd[conns[c].tun].queue
    BY <2>1 DEF ChannelKept
  <2> QED
    BY <1>3, <2>2 DEF ForwardInv, QueueInv
<1> QED
  BY <1>2, <1>3 DEF QueueInv, Stopped
----------------------------------------------------------------------------
(* Steps of one connection.                                                *)

\* A connection that has left its channel moves on its own.
LEMMA ConnStep ==
  ASSUME ForwardInv, NEW c \in DOMAIN conns, conns[c].st # "queued", NEW y,
         conns' = [conns EXCEPT ![c] = y], y.tun = conns[c].tun, y.st # "queued", ConnInv(y),
         UNCHANGED <<configVars, fwd>>
  PROVE  ForwardInv'
<1>1. UNCHANGED <<plan, kind, options, calls, tuns, fwd>>
  BY DEF configVars
<1>2. BuilderInv' /\ TunsInv' /\ TunsKept
  BY <1>1, BuilderSame, TunsSame, TunsKeptSame DEF ForwardInv
<1>3. FwdInv'
  BY <1>1 DEF ForwardInv, FwdInv, Owed
<1>4. /\ IsSeq(conns') /\ Len(conns') = Len(conns) /\ DOMAIN conns' = DOMAIN conns
      /\ conns'[c] = y /\ \A d \in DOMAIN conns : d # c => conns'[d] = conns[d]
  BY ExceptSeq DEF ForwardInv, ConnsInv
<1>5. ConnsInv'
  <2>1. ASSUME NEW d \in DOMAIN conns PROVE ConnInv(conns[d])'
    <3>1. PICK x : x = conns'[d]
      OBVIOUS
    <3>2. ConnInv(x)
      BY <1>4, <3>1 DEF ForwardInv, ConnsInv
    <3>3. ConnInv(x)'
      BY <1>1, <1>2, <3>2, ConnSame
    <3> QED
      BY <3>1, <3>3
  <2> QED
    BY <1>1, <1>4, <2>1 DEF ForwardInv, ConnsInv
<1>6. QueueInv'
  <2>1. ASSUME NEW t \in DOMAIN fwd, NEW i \in DOMAIN fwd[t].queue PROVE ItemInv(t, i)'
    <3>1. ItemInv(t, i)
      BY DEF ForwardInv, QueueInv
    <3> QED
      BY <1>1, <1>4, <3>1 DEF ItemInv, Stopped
  <2> QED
    BY <1>1, <1>4, <2>1 DEF ForwardInv, QueueInv, Stopped
<1> QED
  BY <1>2, <1>3, <1>5, <1>6 DEF ForwardInv

\* A connection that goes on, and what it was sent until then.
LEMMA MoveConn ==
  ASSUME ForwardInv, NEW c \in DOMAIN conns, conns[c].st # "queued",
         NEW st \in States, st # "queued", NEW up,
         conns' = [conns EXCEPT ![c].st = st, ![c].up = up],
         UpInv([conns[c] EXCEPT !.st = st, !.up = up], Url(c)),
         UNCHANGED <<configVars, fwd>>
  PROVE  ForwardInv'
<1>1. ConnInv(conns[c])
  BY DEF ForwardInv, ConnsInv
<1>2. PICK y : y = [conns[c] EXCEPT !.st = st, !.up = up]
  OBVIOUS
<1>3. /\ DOMAIN y = {"tun", "st", "tls", "info", "up"} /\ y.st = st
      /\ y.tun = conns[c].tun /\ y.tls = conns[c].tls /\ y.info = conns[c].info
  BY <1>1, <1>2 DEF ConnInv
<1>4. InfoInv(y, tuns[y.tun].bound)
  BY <1>1, <1>3 DEF ConnInv, InfoInv
<1>5. UpInv(y, tuns[y.tun].url)
  BY <1>2, <1>3 DEF Url
<1>6. ConnInv(y)
  BY <1>1, <1>3, <1>4, <1>5 DEF ConnInv
<1>7. conns' = [conns EXCEPT ![c] = y]
  BY <1>2
<1> QED
  BY <1>3, <1>6, <1>7, ConnStep

\* One that is sent nothing.
LEMMA GotoConn ==
  ASSUME ForwardInv, NEW c \in DOMAIN conns, conns[c].st # "queued",
         NEW st \in States, st # "queued", Goto(c, st),
         UpInv([conns[c] EXCEPT !.st = st], Url(c)),
         UNCHANGED <<configVars, fwd>>
  PROVE  ForwardInv'
<1>1. "up" \in DOMAIN conns[c]
  BY DEF ForwardInv, ConnsInv, ConnInv
<1>2. PICK up : up = conns[c].up
  OBVIOUS
<1>3. [conns[c] EXCEPT !.st = st, !.up = up] = [conns[c] EXCEPT !.st = st]
  BY <1>1, <1>2
<1>4. conns' = [conns EXCEPT ![c].st = st, ![c].up = up]
  BY <1>3 DEF Goto
<1> QED
  BY <1>3, <1>4, MoveConn

\* Where nothing is sent, nothing needs to hold.
LEMMA AwayUp ==
  ASSUME NEW x, NEW url, x.st \in {"gateway", "answered", "dropped"}
  PROVE  UpInv(x, url)
BY DEF UpInv

\* The task of a connection: forward_to, connect and serve_gateway_error.
LEMMA JoinInv ==
  ASSUME ForwardInv, NEW c \in DOMAIN conns, Join(c) \/ EndCopy(c)
  PROVE  ForwardInv'
<1> DEFINE x == conns[c]
<1>1. /\ DOMAIN x = {"tun", "st", "tls", "info", "up"} /\ UpInv(x, Url(c))
      /\ NeedsTls(c) <=> Wants(x, Url(c))
  BY DEF ForwardInv, ConnsInv, ConnInv, Url, NeedsTls, Wants
<1>2. CASE ReadHeader(c)
  <2>1. x.st = "header" /\ Asks(x)
    BY <1>1, <1>2 DEF ReadHeader, UpInv
  <2>2. PICK y : y = [x EXCEPT !.st = "dial", !.up = <<[layer |-> "proxy"]>>]
    OBVIOUS
  <2>3. y.st = "dial" /\ y.up = <<[layer |-> "proxy"]>> /\ y.info = x.info
    BY <1>1, <2>2
  <2>4. UpInv(y, Url(c))
    BY <2>1, <2>3 DEF UpInv, HeaderOf, Asks
  <2> QED
    BY <1>2, <2>1, <2>2, <2>4, MoveConn DEF ReadHeader, States
<1>3. CASE ReadHeaderFails(c)
  <2>1. UpInv([x EXCEPT !.st = "dropped"], Url(c))
    BY <1>1, AwayUp
  <2> QED
    BY <1>3, <2>1, GotoConn DEF ReadHeaderFails, States
<1>4. CASE Dial(c)
  <2>1. x.st = "dial" /\ x.up = HeaderOf(x)
    BY <1>1, <1>4 DEF Dial, UpInv
  <2>2. PICK st : st = IF NeedsTls(c) THEN "handshake" ELSE "joined"
    OBVIOUS
  <2>3. PICK y : y = [x EXCEPT !.st = st]
    OBVIOUS
  <2>4. y.st = st /\ y.up = x.up /\ y.info = x.info
    BY <1>1, <2>3
  <2>5. HeaderOf(y) = HeaderOf(x) /\ (Wants(y, Url(c)) <=> NeedsTls(c))
    BY <1>1, <2>4 DEF HeaderOf, Asks, Wants
  <2>6. UpInv(y, Url(c))
    BY <2>1, <2>2, <2>4, <2>5 DEF UpInv
  <2> QED
    BY <1>4, <2>1, <2>2, <2>3, <2>6, GotoConn DEF Dial, States
<1>5. CASE Handshake(c)
  <2>1. x.st = "handshake" /\ x.up = HeaderOf(x) /\ Wants(x, Url(c))
    BY <1>1, <1>5 DEF Handshake, UpInv
  <2>2. PICK up : up = Append(x.up, TlsConfig(x.info))
    OBVIOUS
  <2>3. PICK y : y = [x EXCEPT !.st = "joined", !.up = up]
    OBVIOUS
  <2>4. y.st = "joined" /\ y.up = up /\ y.info = x.info
    BY <1>1, <2>3
  <2>5. HeaderOf(y) = HeaderOf(x) /\ Wants(y, Url(c))
    BY <2>1, <2>4 DEF HeaderOf, Asks, Wants
  <2>6. UpInv(y, Url(c))
    BY <2>1, <2>2, <2>4, <2>5 DEF UpInv
  <2> QED
    BY <1>5, <2>1, <2>2, <2>3, <2>6, MoveConn DEF Handshake, States
<1>6. CASE ConnectFails(c)
  <2>1. PICK st : st = IF SpeaksHttp(x.info) THEN "gateway" ELSE "dropped"
    OBVIOUS
  <2>2. UpInv([x EXCEPT !.st = st], Url(c))
    BY <1>1, <2>1, AwayUp
  <2> QED
    BY <1>6, <2>1, <2>2, GotoConn DEF ConnectFails, States
<1>7. CASE ServeGatewayError(c)
  <2>1. UpInv([x EXCEPT !.st = "answered"], Url(c))
    BY <1>1, AwayUp
  <2> QED
    BY <1>7, <2>1, GotoConn DEF ServeGatewayError, States
<1>8. CASE EndCopy(c)
  <2>1. PICK y : y = [x EXCEPT !.st = "ended"]
    OBVIOUS
  <2>2. y.st = "ended" /\ y.up = x.up /\ y.info = x.info /\ x.st = "joined"
    BY <1>1, <1>8, <2>1 DEF EndCopy
  <2>3. HeaderOf(y) = HeaderOf(x) /\ (Wants(y, Url(c)) <=> Wants(x, Url(c)))
    BY <2>2 DEF HeaderOf, Asks, Wants
  <2>4. UpInv(y, Url(c))
    BY <1>1, <2>2, <2>3 DEF UpInv
  <2> QED
    BY <1>8, <2>1, <2>4, GotoConn DEF EndCopy, States
<1> QED
  BY <1>2, <1>3, <1>4, <1>5, <1>6, <1>7, <1>8 DEF Join
----------------------------------------------------------------------------
(* Steps of a Forwarder and of its tunnel.                                 *)

\* A tunnel whose key changes, or none.
LEMMA KeyStep ==
  ASSUME TunsInv, NEW t \in DOMAIN tuns, NEW k,
         tuns' = tuns \/ tuns' = [tuns EXCEPT ![t].key = k],
         tuns[t].key = <<>> => k = <<>>,
         UNCHANGED <<plan, kind>>
  PROVE  /\ DOMAIN tuns' = DOMAIN tuns /\ Len(tuns') = Len(tuns)
         /\ TunsInv' /\ TunsKept
         /\ \A u \in DOMAIN tuns : tuns[u].key = <<>> => tuns'[u].key = <<>>
<1>1. IsSeq(tuns)
  BY DEF TunsInv
<1>2. /\ IsSeq(tuns') /\ Len(tuns') = Len(tuns) /\ DOMAIN tuns' = DOMAIN tuns
      /\ \A u \in DOMAIN tuns : \/ tuns'[u] = tuns[u]
                                \/ u = t /\ tuns'[u] = [tuns[u] EXCEPT !.key = k]
  <2>1. CASE tuns' = tuns
    BY <1>1, <2>1
  <2>2. CASE tuns' = [tuns EXCEPT ![t].key = k]
    <3>1. PICK e : e = [tuns[t] EXCEPT !.key = k]
      OBVIOUS
    <3>2. tuns' = [tuns EXCEPT ![t] = e]
      BY <2>2, <3>1
    <3>3. IsSeq(tuns') /\ Len(tuns') = Len(tuns) /\ DOMAIN tuns' = DOMAIN tuns
      BY <1>1, <3>2, ExceptSeq
    <3>4. \A u \in DOMAIN tuns : tuns'[u] = IF u = t THEN e ELSE tuns[u]
      BY <1>1, <3>2
    <3> QED
      BY <3>1, <3>3, <3>4
  <2> QED
    BY <2>1, <2>2
<1>3. ASSUME NEW u \in DOMAIN tuns
      PROVE  /\ TunInv(tuns'[u]) /\ tuns'[u].bound = tuns[u].bound /\ tuns'[u].url = tuns[u].url
             /\ tuns[u].key = <<>> => tuns'[u].key = <<>>
  <2>1. TunInv(tuns[u])
    BY DEF TunsInv
  <2>2. CASE tuns'[u] = tuns[u]
    BY <2>1, <2>2
  <2>3. CASE u = t /\ tuns'[u] = [tuns[u] EXCEPT !.key = k]
    <3>1. PICK x : x = tuns[u]
      OBVIOUS
    <3>2. TunInv(x) /\ tuns'[u] = [x EXCEPT !.key = k]
      BY <2>1, <2>3, <3>1
    <3>3. /\ TunInv(tuns'[u]) /\ tuns'[u].key = k
          /\ tuns'[u].bound = x.bound /\ tuns'[u].url = x.url
      BY <3>2, KeyedInv
    <3> QED
      BY <2>3, <3>1, <3>3
  <2> QED
    BY <1>2, <2>2, <2>3
<1>4. TunsInv'
  <2>1. ASSUME NEW u \in DOMAIN tuns PROVE TunInv(tuns[u])'
    <3>1. PICK x : x = tuns'[u]
      OBVIOUS
    <3>2. TunInv(x)'
      BY <1>3, <3>1, TunInvSame
    <3> QED
      BY <3>1, <3>2
  <2> QED
    BY <1>2, <2>1 DEF TunsInv
<1>5. TunsKept
  BY <1>2, <1>3 DEF TunsKept
<1> QED
  BY <1>2, <1>3, <1>4, <1>5

\* A Forwarder that changes, and the key of its tunnel with it.
LEMMA FwdStep ==
  ASSUME ForwardInv, NEW t \in DOMAIN fwd, NEW g \in Forwarders, fwd' = [fwd EXCEPT ![t] = g],
         Owed(g) <= 3, g.queue = fwd[t].queue, NEW k,
         tuns' = tuns \/ tuns' = [tuns EXCEPT ![t].key = k],
         tuns[t].key = <<>> => k = <<>>,
         g.loop = "ended" =>
           tuns'[t].key = <<>> /\ \A i \in DOMAIN fwd[t].queue : fwd[t].queue[i] = Stopped,
         UNCHANGED <<plan, kind, options, calls, conns>>
  PROVE  ForwardInv'
<1>1. DOMAIN fwd = DOMAIN tuns /\ IsSeq(tuns)
  BY SameIndices DEF ForwardInv, TunsInv
<1>2. BuilderInv'
  BY BuilderSame DEF ForwardInv
<1>3. /\ DOMAIN tuns' = DOMAIN tuns /\ Len(tuns') = Len(tuns) /\ TunsInv' /\ TunsKept
      /\ \A u \in DOMAIN tuns : tuns[u].key = <<>> => tuns'[u].key = <<>>
  BY <1>1, KeyStep DEF ForwardInv
<1>4. ConnsInv'
  BY <1>3, ConnsSame DEF ForwardInv
<1>5. /\ DOMAIN fwd' = DOMAIN fwd /\ Len(fwd') = Len(fwd) /\ fwd' \in Seq(Forwarders)
      /\ \A u \in DOMAIN fwd : fwd'[u] = IF u = t THEN g ELSE fwd[u]
  BY DEF ForwardInv, FwdInv
<1>6. FwdInv'
  <2>1. ASSUME NEW u \in DOMAIN fwd PROVE (Owed(fwd[u]) <= 3)'
    <3>1. Owed(fwd[u]) <= 3
      BY DEF ForwardInv, FwdInv
    <3> QED
      BY <1>5, <3>1 DEF Owed
  <2> QED
    BY <1>3, <1>5, <2>1 DEF ForwardInv, FwdInv
<1>7. ASSUME NEW u \in DOMAIN fwd' PROVE ChannelKept(u)
  <2>1. u \in DOMAIN fwd /\ u \in DOMAIN tuns /\ (tuns[u].key = <<>> => tuns'[u].key = <<>>)
    BY <1>1, <1>3, <1>5
  <2>2. CASE u = t
    BY <1>5, <2>1, <2>2 DEF ChannelKept
  <2>3. CASE u # t
    BY <1>5, <2>1, <2>3 DEF ChannelKept, ForwardInv, QueueInv
  <2> QED
    BY <2>2, <2>3
<1>8. QueueInv'
  BY <1>5, <1>7, QueueSame
<1> QED
  BY <1>2, <1>3, <1>4, <1>6, <1>8 DEF ForwardInv

\* The parts of a Forwarder.
LEMMA ForwarderAt ==
  ASSUME ForwardInv, NEW t \in DOMAIN fwd
  PROVE  /\ fwd[t] \in Forwarders /\ Owed(fwd[t]) <= 3
         /\ fwd[t].loop = "ended" => /\ tuns[t].key = <<>>
                                     /\ \A i \in DOMAIN fwd[t].queue : fwd[t].queue[i] = Stopped
BY SameIndices DEF ForwardInv, FwdInv, QueueInv

\* The sum of Owed, by cases.
LEMMA OwedIs ==
  ASSUME NEW f \in Forwarders, NEW g,
         DOMAIN g = DOMAIN f, g.queue = f.queue, g.closed \in BOOLEAN,
         Owed(f) <= 3,
         \/ /\ f.loop = "run" /\ g.loop = "ended" /\ g.handle = f.handle
            /\ g.closes = f.closes + 1
         \/ /\ f.handle \in {"held", "closed"} /\ g.loop = f.loop
            /\ g.handle \in {"closed", "gone"} /\ g.closes = f.closes + 1
            /\ g.handle = "closed" => f.handle = "held"
         \/ /\ f.closes > 0 /\ g.loop = f.loop /\ g.handle = f.handle /\ g.closes = f.closes - 1,
         g = [a \in DOMAIN g |-> g[a]]
  PROVE  g \in Forwarders /\ Owed(g) <= 3
<1>1. f.closes \in 0..3 /\ f.loop \in {"none", "run", "ended"} /\ f.queue \in Seq(Nat)
      /\ f.handle \in {"none", "held", "closed", "gone"}
      /\ DOMAIN f = {"loop", "handle", "closes", "closed", "queue"}
  BY DEF Forwarders
<1>2. g.closes \in Int /\ Owed(g) <= 3 /\ 0 <= g.closes /\ g.closes <= 3
  BY <1>1 DEF Owed
<1>3. g.loop \in {"none", "run", "ended"} /\ g.handle \in {"none", "held", "closed", "gone"}
  BY <1>1
<1>4. g.closes \in 0..3
  BY <1>2
<1> QED
  BY <1>1, <1>2, <1>3, <1>4 DEF Forwarders

\* forward_tunnel ends, on the error or when the sender is gone.
LEMMA LoopEnds ==
  ASSUME ForwardInv, NEW t \in DOMAIN fwd, TakeError(t) \/ TakeNone(t)
  PROVE  ForwardInv'
<1>1. fwd[t] \in Forwarders /\ Owed(fwd[t]) <= 3 /\ fwd[t].loop = "run"
  BY ForwarderAt DEF TakeError, TakeNone
<1>2. tuns[t].key = <<>> /\ \A i \in DOMAIN fwd[t].queue : fwd[t].queue[i] = Stopped
  <2>1. CASE TakeError(t)
    <3>1. fwd[t].queue \in Seq(Nat) /\ fwd[t].queue # <<>> /\ fwd[t].queue[1] = Stopped
      BY <1>1, <2>1 DEF Forwarders, TakeError
    <3>2. 1 \in DOMAIN fwd[t].queue /\ DOMAIN fwd[t].queue = 1..Len(fwd[t].queue)
      BY <3>1
    <3>3. ItemInv(t, 1)
      BY <3>2 DEF ForwardInv, QueueInv
    <3> QED
      BY <3>1, <3>2, <3>3 DEF ItemInv
  <2>2. CASE TakeNone(t)
    BY <2>2 DEF TakeNone
  <2> QED
    BY <2>1, <2>2
<1>3. PICK g : g = [fwd[t] EXCEPT !.loop = "ended", !.closes = @ + 1]
  OBVIOUS
<1>4. g \in Forwarders /\ Owed(g) <= 3 /\ g.queue = fwd[t].queue
  <2>1. /\ DOMAIN g = DOMAIN fwd[t] /\ g = [a \in DOMAIN g |-> g[a]]
        /\ g.queue = fwd[t].queue /\ g.closed = fwd[t].closed /\ g.handle = fwd[t].handle
        /\ g.loop = "ended" /\ g.closes = fwd[t].closes + 1
    BY <1>1, <1>3 DEF Forwarders
  <2>2. fwd[t].closed \in BOOLEAN
    BY <1>1 DEF Forwarders
  <2> QED
    BY <1>1, <2>1, <2>2, OwedIs
<1>5. fwd' = [fwd EXCEPT ![t] = g] /\ UNCHANGED <<plan, kind, options, calls, conns, tuns>>
  BY <1>3 DEF TakeError, TakeNone, EndLoop, configVars
<1> QED
  BY <1>2, <1>4, <1>5, FwdStep

\* Forwarder::close, its drop, and a close the service refuses.
LEMMA CloseInv ==
  ASSUME ForwardInv, NEW t \in DOMAIN fwd, Close(t) \/ DropForwarder(t) \/ CloseTunnelFails(t)
  PROVE  ForwardInv'
<1>1. fwd[t] \in Forwarders /\ Owed(fwd[t]) <= 3
  BY ForwarderAt
<1>2. UNCHANGED <<plan, kind, options, calls, conns, tuns>>
  BY DEF Close, DropForwarder, CloseTunnelFails, configVars
<1>3. PICK g : /\ g \in Forwarders /\ Owed(g) <= 3 /\ g.queue = fwd[t].queue
               /\ g.loop = fwd[t].loop /\ fwd' = [fwd EXCEPT ![t] = g]
  <2>1. CASE Close(t)
    <3>1. PICK g : g = [fwd[t] EXCEPT !.handle = "closed", !.closes = @ + 1]
      OBVIOUS
    <3>2. fwd' = [fwd EXCEPT ![t] = g] /\ fwd[t].handle = "held"
      BY <2>1, <3>1 DEF Close
    <3>3. /\ DOMAIN g = DOMAIN fwd[t] /\ g = [a \in DOMAIN g |-> g[a]]
          /\ g.queue = fwd[t].queue /\ g.closed = fwd[t].closed /\ g.handle = "closed"
          /\ g.loop = fwd[t].loop /\ g.closes = fwd[t].closes + 1
      BY <1>1, <3>1 DEF Forwarders
    <3>4. fwd[t].closed \in BOOLEAN
      BY <1>1 DEF Forwarders
    <3> QED
      BY <1>1, <3>2, <3>3, <3>4, OwedIs
  <2>2. CASE DropForwarder(t)
    <3>1. PICK g : g = [fwd[t] EXCEPT !.handle = "gone", !.closes = @ + 1]
      OBVIOUS
    <3>2. fwd' = [fwd EXCEPT ![t] = g] /\ fwd[t].handle \in {"held", "closed"}
      BY <2>2, <3>1 DEF DropForwarder
    <3>3. /\ DOMAIN g = DOMAIN fwd[t] /\ g = [a \in DOMAIN g |-> g[a]]
          /\ g.queue = fwd[t].queue /\ g.closed = fwd[t].closed /\ g.handle = "gone"
          /\ g.loop = fwd[t].loop /\ g.closes = fwd[t].closes + 1
      BY <1>1, <3>1 DEF Forwarders
    <3>4. fwd[t].closed \in BOOLEAN
      BY <1>1 DEF Forwarders
    <3> QED
      BY <1>1, <3>2, <3>3, <3>4, OwedIs
  <2>3. CASE CloseTunnelFails(t)
    <3>1. PICK g : g = [fwd[t] EXCEPT !.closes = @ - 1]
      OBVIOUS
    <3>2. fwd' = [fwd EXCEPT ![t] = g] /\ fwd[t].closes > 0
      BY <2>3, <3>1 DEF CloseTunnelFails
    <3>3. /\ DOMAIN g = DOMAIN fwd[t] /\ g = [a \in DOMAIN g |-> g[a]]
          /\ g.queue = fwd[t].queue /\ g.closed = fwd[t].closed /\ g.handle = fwd[t].handle
          /\ g.loop = fwd[t].loop /\ g.closes = fwd[t].closes - 1
      BY <1>1, <3>1 DEF Forwarders
    <3>4. fwd[t].closed \in BOOLEAN
      BY <1>1 DEF Forwarders
    <3> QED
      BY <1>1, <3>2, <3>3, <3>4, OwedIs
  <2> QED
    BY <2>1, <2>2, <2>3
<1> QED
  BY <1>2, <1>3, ForwarderAt, FwdStep

\* Session::close_tunnel takes the tunnel out of the map.
LEMMA CloseTunnelInv ==
  ASSUME ForwardInv, NEW t \in DOMAIN fwd, CloseTunnel(t)
  PROVE  ForwardInv'
<1>1. /\ fwd[t] \in Forwarders /\ Owed(fwd[t]) <= 3 /\ fwd[t].closes > 0
      /\ t \in DOMAIN tuns /\ TunInv(tuns[t])
  BY ForwarderAt, SameIndices DEF CloseTunnel, ForwardInv, TunsInv
<1>2. UNCHANGED <<plan, kind, options, calls, conns>>
  BY DEF CloseTunnel
<1>3. PICK g : g = [fwd[t] EXCEPT !.closes = @ - 1, !.closed = @ \/ tuns[t].key = tuns[t].info.id]
  OBVIOUS
<1>4. g \in Forwarders /\ Owed(g) <= 3 /\ g.queue = fwd[t].queue /\ g.loop = fwd[t].loop
  <2>1. g.closed \in BOOLEAN
    BY <1>1, <1>3, Zenon DEF Forwarders
  <2>2. /\ DOMAIN g = DOMAIN fwd[t] /\ g = [a \in DOMAIN g |-> g[a]]
        /\ g.queue = fwd[t].queue /\ g.handle = fwd[t].handle
        /\ g.loop = fwd[t].loop /\ g.closes = fwd[t].closes - 1
    BY <1>1, <1>3 DEF Forwarders
  <2> QED
    BY <1>1, <2>1, <2>2, OwedIs
<1>5. fwd' = [fwd EXCEPT ![t] = g]
  BY <1>3 DEF CloseTunnel
<1>6. PICK k : k = IF tuns[t].key = tuns[t].info.id THEN <<>> ELSE tuns[t].key
  OBVIOUS
<1>7. tuns' = [tuns EXCEPT ![t].key = k]
  BY <1>6 DEF CloseTunnel
<1>8. tuns[t].key = <<>> => k = <<>>
  BY <1>6
<1>9. tuns[t].key = <<>> => tuns'[t].key = <<>>
  <2>1. tuns'[t].key = k
    BY <1>1, <1>7 DEF TunInv
  <2> QED
    BY <1>8, <2>1
<1> QED
  BY <1>2, <1>4, <1>5, <1>7, <1>8, <1>9, ForwarderAt, FwdStep
----------------------------------------------------------------------------
(* Steps of a channel.                                                     *)

\* The channel of one tunnel changes, and the rest of the Forwarders does not.
LEMMA ChannelStep ==
  ASSUME ForwardInv, NEW t \in DOMAIN fwd, NEW q \in Seq(Nat),
         fwd' = [fwd EXCEPT ![t].queue = q], Len(tuns') = Len(tuns)
  PROVE  /\ FwdInv' /\ DOMAIN fwd' = DOMAIN fwd
         /\ fwd'[t].queue = q /\ fwd'[t].loop = fwd[t].loop
         /\ \A u \in DOMAIN fwd : u # t => fwd'[u] = fwd[u]
<1>1. PICK g : g = [fwd[t] EXCEPT !.queue = q]
  OBVIOUS
<1>2. fwd[t] \in Forwarders /\ Owed(fwd[t]) <= 3
  BY ForwarderAt
<1>3. /\ g \in Forwarders /\ g.queue = q /\ g.loop = fwd[t].loop /\ g.handle = fwd[t].handle
      /\ g.closes = fwd[t].closes
  BY <1>1, <1>2 DEF Forwarders
<1>4. Owed(g) <= 3
  BY <1>2, <1>3 DEF Owed
<1>5. /\ DOMAIN fwd' = DOMAIN fwd /\ Len(fwd') = Len(fwd) /\ fwd' \in Seq(Forwarders)
      /\ fwd'[t] = g /\ \A u \in DOMAIN fwd : u # t => fwd'[u] = fwd[u]
  BY <1>1, <1>3 DEF ForwardInv, FwdInv
<1>6. FwdInv'
  <2>1. ASSUME NEW u \in DOMAIN fwd PROVE (Owed(fwd[u]) <= 3)'
    <3>1. Owed(fwd[u]) <= 3
      BY DEF ForwardInv, FwdInv
    <3> QED
      BY <1>4, <1>5, <3>1 DEF Owed
  <2> QED
    BY <1>5, <2>1 DEF ForwardInv, FwdInv
<1> QED
  BY <1>3, <1>5, <1>6

\* The channels of the other tunnels, when no connection of theirs moves.
LEMMA OtherChannels ==
  ASSUME ForwardInv, NEW t \in DOMAIN fwd, NEW u \in DOMAIN fwd, u # t, fwd'[u] = fwd[u],
         tuns[u].key = <<>> => tuns'[u].key = <<>>,
         \A d \in DOMAIN conns : conns[d].tun # t => d \in DOMAIN conns' /\ conns'[d] = conns[d]
  PROVE  /\ \A i \in DOMAIN fwd'[u].queue : ItemInv(u, i)'
         /\ \A i, j \in DOMAIN fwd'[u].queue : fwd'[u].queue[i] = fwd'[u].queue[j] => i = j
         /\ fwd'[u].loop = "ended" =>
              tuns'[u].key = <<>> /\ \A i \in DOMAIN fwd'[u].queue : fwd'[u].queue[i] = Stopped
<1>1. ASSUME NEW i \in DOMAIN fwd[u].queue PROVE ItemInv(u, i)'
  <2>1. ItemInv(u, i)
    BY DEF ForwardInv, QueueInv
  <2>2. CASE fwd[u].queue[i] = Stopped
    BY <2>1, <2>2 DEF ItemInv, Stopped
  <2>3. CASE fwd[u].queue[i] # Stopped
    BY <2>1, <2>3 DEF ItemInv, Stopped
  <2> QED
    BY <2>2, <2>3
<1> QED
  BY <1>1 DEF ForwardInv, QueueInv

\* close_tunnel_with_error: the error goes behind all connections.
LEMMA StopTunnelInv ==
  ASSUME ForwardInv, NEW t \in DOMAIN fwd, StopTunnel(t)
  PROVE  ForwardInv'
<1> DEFINE old == fwd[t].queue
<1>1. PICK q : q = Append(old, Stopped)
  OBVIOUS
<1>2. PICK k : k = <<>>
  OBVIOUS
<1>3. /\ UNCHANGED <<plan, kind, options, calls, conns>> /\ fwd[t].loop = "run"
      /\ tuns' = [tuns EXCEPT ![t].key = k] /\ fwd' = [fwd EXCEPT ![t].queue = q]
      /\ tuns[t].key # <<>>
  BY <1>1, <1>2 DEF StopTunnel
<1>4. /\ old \in Seq(Nat) /\ t \in DOMAIN tuns /\ TunInv(tuns[t]) /\ DOMAIN fwd = DOMAIN tuns
  BY ForwarderAt, SameIndices DEF ForwardInv, TunsInv, Forwarders
<1>5. /\ q \in Seq(Nat) /\ DOMAIN q = 1..(Len(old) + 1) /\ Len(q) = Len(old) + 1 /\ Len(old) \in Nat
      /\ DOMAIN old = 1..Len(old)
      /\ q[Len(old) + 1] = Stopped /\ \A i \in DOMAIN old : q[i] = old[i]
  BY <1>1, <1>4 DEF Stopped
<1>6. /\ DOMAIN tuns' = DOMAIN tuns /\ Len(tuns') = Len(tuns) /\ TunsInv' /\ TunsKept
      /\ \A u \in DOMAIN tuns : tuns[u].key = <<>> => tuns'[u].key = <<>>
  BY <1>3, <1>4, KeyStep DEF ForwardInv
<1>7. tuns'[t].key = <<>>
  BY <1>2, <1>3, <1>4 DEF TunInv
<1>8. BuilderInv' /\ ConnsInv'
  BY <1>3, <1>6, BuilderSame, ConnsSame DEF ForwardInv
<1>9. /\ FwdInv' /\ DOMAIN fwd' = DOMAIN fwd
      /\ fwd'[t].queue = q /\ fwd'[t].loop = fwd[t].loop
      /\ \A u \in DOMAIN fwd : u # t => fwd'[u] = fwd[u]
  BY <1>3, <1>5, <1>6, ChannelStep
<1>10. \A i \in DOMAIN old : old[i] # Stopped
  BY <1>3 DEF ForwardInv, QueueInv, ItemInv
<1>11. ASSUME NEW u \in DOMAIN fwd
       PROVE  /\ \A i \in DOMAIN fwd'[u].queue : ItemInv(u, i)'
              /\ \A i, j \in DOMAIN fwd'[u].queue : fwd'[u].queue[i] = fwd'[u].queue[j] => i = j
              /\ fwd'[u].loop = "ended" =>
                   tuns'[u].key = <<>> /\ \A i \in DOMAIN fwd'[u].queue : fwd'[u].queue[i] = Stopped
  <2>1. CASE u # t
    BY <1>3, <1>4, <1>6, <1>9, <2>1, OtherChannels
  <2>2. CASE u = t
    <3>1. ASSUME NEW i \in DOMAIN q PROVE ItemInv(t, i)'
      <4>1. CASE i \in DOMAIN old
        <5>1. ItemInv(t, i)
          BY <4>1 DEF ForwardInv, QueueInv
        <5> QED
          BY <1>3, <1>5, <1>9, <1>10, <4>1, <5>1 DEF ItemInv, Stopped
      <4>2. CASE i = Len(old) + 1
        BY <1>5, <1>7, <1>9, <4>2 DEF ItemInv, Stopped
      <4> QED
        BY <1>5, <4>1, <4>2
    <3>2. ASSUME NEW i \in DOMAIN q, NEW j \in DOMAIN q, q[i] = q[j] PROVE i = j
      <4>1. (i \in DOMAIN old \/ i = Len(old) + 1) /\ (j \in DOMAIN old \/ j = Len(old) + 1)
        BY <1>5
      <4>2. \A a, b \in DOMAIN old : old[a] = old[b] => a = b
        BY DEF ForwardInv, QueueInv
      <4> QED
        BY <1>5, <1>10, <3>2, <4>1, <4>2
    <3> QED
      BY <1>3, <1>9, <2>2, <3>1, <3>2
  <2> QED
    BY <2>1, <2>2
<1>12. ASSUME NEW c \in DOMAIN conns, conns[c].st = "queued"
       PROVE  \E i \in DOMAIN fwd'[conns[c].tun].queue : fwd'[conns[c].tun].queue[i] = c
  <2>1. conns[c].tun \in DOMAIN fwd
    BY <1>4 DEF ForwardInv, ConnsInv, ConnInv
  <2>2. PICK i \in DOMAIN fwd[conns[c].tun].queue : fwd[conns[c].tun].queue[i] = c
    BY <1>12 DEF ForwardInv, QueueInv
  <2>3. CASE conns[c].tun = t
    <3>1. i \in DOMAIN old /\ old[i] = c
      BY <2>2, <2>3
    <3>2. i \in DOMAIN q /\ q[i] = c
      BY <1>5, <3>1
    <3> QED
      BY <1>9, <2>3, <3>2
  <2>4. CASE conns[c].tun # t
    BY <1>9, <2>1, <2>2, <2>4
  <2> QED
    BY <2>3, <2>4
<1>13. QueueInv'
  BY <1>3, <1>9, <1>11, <1>12 DEF QueueInv, Stopped
<1> QED
  BY <1>6, <1>8, <1>9, <1>13 DEF ForwardInv

\* forward_tunnel takes the first connection.
LEMMA TakeInv ==
  ASSUME ForwardInv, NEW t \in DOMAIN fwd, Take(t)
  PROVE  ForwardInv'
<1> DEFINE old == fwd[t].queue
<1>1. PICK q : q = Tail(old)
  OBVIOUS
<1>2. PICK c : c = Head(old)
  OBVIOUS
<1>3. PICK st : st = IF kind # "labeled" /\ conns[c].info.proxy # 0 THEN "header" ELSE "dial"
  OBVIOUS
<1>4. /\ UNCHANGED configVars /\ fwd[t].loop = "run" /\ old # <<>> /\ c # Stopped
      /\ conns' = [conns EXCEPT ![c].st = st] /\ fwd' = [fwd EXCEPT ![t].queue = q]
  BY <1>1, <1>2, <1>3 DEF Take, Goto
<1>5. UNCHANGED <<plan, kind, options, calls, tuns>>
  BY <1>4 DEF configVars
<1>6. old \in Seq(Nat) /\ DOMAIN fwd = DOMAIN tuns
  BY ForwarderAt, SameIndices DEF ForwardInv, Forwarders
<1>7. /\ q \in Seq(Nat) /\ DOMAIN old = 1..Len(old) /\ Len(old) \in Nat /\ 1 \in DOMAIN old
      /\ old[1] = c /\ Len(q) = Len(old) - 1 /\ DOMAIN q = 1..(Len(old) - 1)
      /\ \A i \in DOMAIN q : i + 1 \in DOMAIN old /\ q[i] = old[i + 1]
  BY <1>1, <1>2, <1>4, <1>6
<1>8. c \in DOMAIN conns /\ conns[c].tun = t /\ conns[c].st = "queued"
  <2>1. ItemInv(t, 1)
    BY <1>7 DEF ForwardInv, QueueInv
  <2> QED
    BY <1>4, <1>7, <2>1 DEF ItemInv
<1>9. BuilderInv' /\ TunsInv' /\ TunsKept
  BY <1>5, BuilderSame, TunsSame, TunsKeptSame DEF ForwardInv
<1>10. /\ FwdInv' /\ DOMAIN fwd' = DOMAIN fwd
       /\ fwd'[t].queue = q /\ fwd'[t].loop = fwd[t].loop
       /\ \A u \in DOMAIN fwd : u # t => fwd'[u] = fwd[u]
  BY <1>4, <1>5, <1>7, ChannelStep
<1>11. PICK y : y = [conns[c] EXCEPT !.st = st]
  OBVIOUS
<1>12. /\ IsSeq(conns') /\ Len(conns') = Len(conns) /\ DOMAIN conns' = DOMAIN conns
       /\ conns'[c] = y /\ \A d \in DOMAIN conns : d # c => conns'[d] = conns[d]
  <2>1. conns' = [conns EXCEPT ![c] = y]
    BY <1>4, <1>11
  <2> QED
    BY <1>8, <2>1, ExceptSeq DEF ForwardInv, ConnsInv
<1>13. ConnInv(y) /\ y.st # "queued"
  <2>1. ConnInv(conns[c])
    BY <1>8 DEF ForwardInv, ConnsInv
  <2>2. /\ DOMAIN y = {"tun", "st", "tls", "info", "up"} /\ y.st = st /\ y.up = conns[c].up
        /\ y.tun = conns[c].tun /\ y.tls = conns[c].tls /\ y.info = conns[c].info
    BY <1>11, <2>1 DEF ConnInv
  <2>3. InfoInv(y, tuns[y.tun].bound)
    BY <2>1, <2>2 DEF ConnInv, InfoInv
  <2>4. y.up = <<>>
    BY <1>8, <2>1, <2>2 DEF ConnInv, UpInv
  <2>5. UpInv(y, tuns[y.tun].url)
    BY <1>3, <2>2, <2>4 DEF UpInv, HeaderOf, Asks
  <2> QED
    BY <1>3, <2>1, <2>2, <2>3, <2>5 DEF ConnInv, States
<1>14. ConnsInv'
  <2>1. ASSUME NEW d \in DOMAIN conns PROVE ConnInv(conns[d])'
    <3>1. PICK x : x = conns'[d]
      OBVIOUS
    <3>2. ConnInv(x)
      BY <1>12, <1>13, <3>1 DEF ForwardInv, ConnsInv
    <3>3. ConnInv(x)'
      BY <1>5, <1>9, <3>2, ConnSame
    <3> QED
      BY <3>1, <3>3
  <2> QED
    BY <1>5, <1>12, <2>1 DEF ForwardInv, ConnsInv
<1>15. \A a, b \in DOMAIN old : old[a] = old[b] => a = b
  BY DEF ForwardInv, QueueInv
<1>16. ASSUME NEW u \in DOMAIN fwd
       PROVE  /\ \A i \in DOMAIN fwd'[u].queue : ItemInv(u, i)'
              /\ \A i, j \in DOMAIN fwd'[u].queue : fwd'[u].queue[i] = fwd'[u].queue[j] => i = j
              /\ fwd'[u].loop = "ended" =>
                   tuns'[u].key = <<>> /\ \A i \in DOMAIN fwd'[u].queue : fwd'[u].queue[i] = Stopped
  <2>1. CASE u # t
    <3>1. \A d \in DOMAIN conns : conns[d].tun # t => d \in DOMAIN conns' /\ conns'[d] = conns[d]
      BY <1>8, <1>12
    <3> QED
      BY <1>5, <1>10, <2>1, <3>1, OtherChannels
  <2>2. CASE u = t
    <3>1. ASSUME NEW i \in DOMAIN q PROVE ItemInv(t, i)'
      <4>1. i + 1 \in DOMAIN old /\ i + 1 # 1 /\ q[i] = old[i + 1] /\ i \in Nat
        BY <1>7
      <4>2. ItemInv(t, i + 1) /\ old[i + 1] # c
        BY <1>7, <1>15, <4>1 DEF ForwardInv, QueueInv
      <4>3. CASE q[i] = Stopped
        BY <1>5, <1>7, <1>10, <4>1, <4>2, <4>3 DEF ItemInv, Stopped
      <4>4. CASE q[i] # Stopped
        BY <1>10, <1>12, <4>1, <4>2, <4>4 DEF ItemInv, Stopped
      <4> QED
        BY <4>3, <4>4
    <3>2. ASSUME NEW i \in DOMAIN q, NEW j \in DOMAIN q, q[i] = q[j] PROVE i = j
      <4>1. i + 1 \in DOMAIN old /\ j + 1 \in DOMAIN old /\ i \in Nat /\ j \in Nat
            /\ old[i + 1] = old[j + 1]
        BY <1>7, <3>2
      <4>2. i + 1 = j + 1
        BY <1>15, <4>1
      <4> QED
        BY <4>1, <4>2
    <3> QED
      BY <1>4, <1>10, <2>2, <3>1, <3>2
  <2> QED
    BY <2>1, <2>2
<1>17. ASSUME NEW d \in DOMAIN conns, conns'[d].st = "queued"
       PROVE  \E i \in DOMAIN fwd'[conns'[d].tun].queue : fwd'[conns'[d].tun].queue[i] = d
  <2>1. d # c /\ conns'[d] = conns[d]
    BY <1>12, <1>13, <1>17
  <2>2. conns[d].tun \in DOMAIN fwd
    BY <1>6 DEF ForwardInv, ConnsInv, ConnInv
  <2>3. PICK i \in DOMAIN fwd[conns[d].tun].queue : fwd[conns[d].tun].queue[i] = d
    BY <1>17, <2>1 DEF ForwardInv, QueueInv
  <2>4. CASE conns[d].tun = t
    <3>1. i \in DOMAIN old /\ old[i] = d /\ i # 1
      BY <1>7, <2>1, <2>3, <2>4
    <3>2. i \in Nat /\ i - 1 \in DOMAIN q /\ (i - 1) + 1 = i
      BY <1>7, <3>1
    <3>3. q[i - 1] = d
      BY <1>7, <3>1, <3>2
    <3> QED
      BY <1>10, <2>1, <2>4, <3>2, <3>3
  <2>5. CASE conns[d].tun # t
    BY <1>10, <2>1, <2>2, <2>3, <2>5
  <2> QED
    BY <2>4, <2>5
<1>18. QueueInv'
  BY <1>10, <1>12, <1>16, <1>17 DEF QueueInv, Stopped
<1> QED
  BY <1>9, <1>10, <1>14, <1>18 DEF ForwardInv

\* What a connection is told, against what its tunnel was bound with.
LEMMA ArrivesInv ==
  ASSUME ForwardInv, NEW t \in DOMAIN tuns, NEW h \in Headers(t), NEW y,
         y = [tun |-> t, st |-> "queued", tls |-> ClientTls(tuns[t], h),
              info |-> ConnInfo(tuns[t].bound, h), up |-> <<>>]
  PROVE  ConnInv(y)
<1> DEFINE b == tuns[t].bound
<1>1. TunInv(tuns[t]) /\ kind \in {"http", "tcp", "tls", "labeled"}
  BY ConfigAssumption DEF ForwardInv, TunsInv, BuilderInv, AllKinds
<1>2. PICK info : info = ConnInfo(b, h)
  OBVIOUS
<1>3. PICK tls : tls = ClientTls(tuns[t], h)
  OBVIOUS
<1>4. /\ y.tun = t /\ y.st = "queued" /\ y.tls = tls /\ y.info = info /\ y.up = <<>>
      /\ DOMAIN y = {"tun", "st", "tls", "info", "up"}
  BY <1>2, <1>3
<1>5. /\ info.verify = b.verify /\ info.app = b.forwards_proto
      /\ info.proto = h.proto /\ info.edge = h.edge
      /\ info.proxy = IF b.opts = <<>> THEN 0 ELSE b.opts.proxy_proto
      /\ info.passthrough = IF b.proto = "tls" THEN b.opts.tls_termination = Unset
                            ELSE h.passthrough
  BY <1>2 DEF ConnInfo
<1>6. kind # "labeled" => info.proxy = b.opts.proxy_proto
  BY <1>1, <1>5 DEF TunInv, BoundInv
<1>7. tls = TunnelTls(info)
  <2>1. CASE kind = "labeled"
    <3>1. h.passthrough \in BOOLEAN /\ (h.passthrough = TRUE => h.edge = "tls") /\ b.proto = ""
      BY <1>1, <2>1 DEF Headers, Edges, TunInv, BoundInv, ProtoInv
    <3>2. tls = h.passthrough /\ info.passthrough = h.passthrough
      BY <1>3, <1>5, <2>1, <3>1 DEF ClientTls
    <3> QED
      BY <1>5, <2>1, <3>1, <3>2 DEF TunnelTls
  <2>2. CASE kind = "tls"
    <3>1. h.proto = "tls" /\ b.proto = "tls"
      BY <1>1, <2>2 DEF Headers, TunInv, BoundInv, ProtoInv
    <3>2. tls = (b.opts.tls_termination = Unset)
      BY <1>1, <1>3, <2>2 DEF ClientTls, TunInv
    <3> QED
      BY <1>5, <2>2, <3>1, <3>2 DEF TunnelTls
  <2>3. CASE kind \in {"http", "tcp"}
    <3>1. h.passthrough = FALSE /\ h.proto = b.proto /\ b.proto # "tls"
      BY <1>1, <2>3 DEF Headers, TunInv, BoundInv, ProtoInv
    <3> QED
      BY <1>3, <1>5, <2>3, <3>1 DEF ClientTls, TunnelTls
  <2> QED
    BY <1>1, <2>1, <2>2, <2>3
<1>8. InfoInv(y, tuns[y.tun].bound)
  BY <1>4, <1>5, <1>6, <1>7 DEF InfoInv
<1>9. UpInv(y, tuns[y.tun].url)
  BY <1>4 DEF UpInv
<1> QED
  BY <1>4, <1>8, <1>9 DEF ConnInv, States

\* accept_one: a connection goes behind all others.
LEMMA ArriveInv ==
  ASSUME ForwardInv, NEW t \in DOMAIN fwd, NEW h \in Headers(t), Arrive(t, h)
  PROVE  ForwardInv'
<1> DEFINE old == fwd[t].queue  n == Len(conns) + 1
<1>1. PICK y : y = [tun |-> t, st |-> "queued", tls |-> ClientTls(tuns[t], h),
                    info |-> ConnInfo(tuns[t].bound, h), up |-> <<>>]
  OBVIOUS
<1>2. /\ UNCHANGED configVars /\ fwd[t].loop = "run" /\ tuns[t].key # <<>>
      /\ Len(conns) < Plans[plan].conns /\ conns' = Append(conns, y)
      /\ fwd' = [fwd EXCEPT ![t].queue = Append(old, Len(conns'))]
  BY <1>1 DEF Arrive
<1>3. UNCHANGED <<plan, kind, options, calls, tuns>>
  BY <1>2 DEF configVars
<1>4. old \in Seq(Nat) /\ DOMAIN fwd = DOMAIN tuns
  BY ForwarderAt, SameIndices DEF ForwardInv, Forwarders
<1>5. ConnInv(y)
  BY <1>1, <1>4, ArrivesInv
<1>6. /\ Len(conns) \in Nat /\ DOMAIN conns = 1..Len(conns) /\ IsSeq(conns') /\ Len(conns') = n
      /\ DOMAIN conns' = 1..n /\ conns'[n] = y /\ \A d \in DOMAIN conns : conns'[d] = conns[d]
  BY <1>2, SeqAt, AppendAt DEF ForwardInv, ConnsInv
<1>7. n \in Nat /\ n # Stopped /\ n \notin DOMAIN conns
  BY <1>6 DEF Stopped
<1>8. PICK q : q = Append(old, n)
  OBVIOUS
<1>9. /\ q \in Seq(Nat) /\ DOMAIN q = 1..(Len(old) + 1) /\ Len(q) = Len(old) + 1 /\ Len(old) \in Nat
      /\ DOMAIN old = 1..Len(old)
      /\ q[Len(old) + 1] = n /\ \A i \in DOMAIN old : q[i] = old[i]
  BY <1>4, <1>7, <1>8
<1>10. BuilderInv' /\ TunsInv' /\ TunsKept
  BY <1>3, BuilderSame, TunsSame, TunsKeptSame DEF ForwardInv
<1>11. /\ FwdInv' /\ DOMAIN fwd' = DOMAIN fwd
       /\ fwd'[t].queue = q /\ fwd'[t].loop = fwd[t].loop
       /\ \A u \in DOMAIN fwd : u # t => fwd'[u] = fwd[u]
  BY <1>2, <1>3, <1>6, <1>8, <1>9, ChannelStep
<1>12. ConnsInv'
  <2>1. ASSUME NEW d \in DOMAIN conns' PROVE ConnInv(conns[d])'
    <3>1. PICK x : x = conns'[d]
      OBVIOUS
    <3>2. ConnInv(x)
      BY <1>5, <1>6, <3>1 DEF ForwardInv, ConnsInv
    <3>3. ConnInv(x)'
      BY <1>3, <1>10, <3>2, ConnSame
    <3> QED
      BY <3>1, <3>3
  <2>2. Plans[plan].conns \in Nat
    BY ConfigAssumption DEF ForwardInv, BuilderInv
  <2> QED
    BY <1>2, <1>3, <1>6, <2>1, <2>2 DEF ConnsInv
<1>13. \A i \in DOMAIN old : old[i] \in DOMAIN conns /\ old[i] # n /\ old[i] # Stopped
  <2>1. ASSUME NEW i \in DOMAIN old PROVE old[i] \in DOMAIN conns /\ old[i] # Stopped
    <3>1. ItemInv(t, i)
      BY DEF ForwardInv, QueueInv
    <3> QED
      BY <1>2, <3>1 DEF ItemInv
  <2> QED
    BY <1>7, <2>1
<1>14. ASSUME NEW u \in DOMAIN fwd
       PROVE  /\ \A i \in DOMAIN fwd'[u].queue : ItemInv(u, i)'
              /\ \A i, j \in DOMAIN fwd'[u].queue : fwd'[u].queue[i] = fwd'[u].queue[j] => i = j
              /\ fwd'[u].loop = "ended" =>
                   tuns'[u].key = <<>> /\ \A i \in DOMAIN fwd'[u].queue : fwd'[u].queue[i] = Stopped
  <2>1. CASE u # t
    <3>1. \A d \in DOMAIN conns : conns[d].tun # t => d \in DOMAIN conns' /\ conns'[d] = conns[d]
      BY <1>6
    <3> QED
      BY <1>3, <1>11, <2>1, <3>1, OtherChannels
  <2>2. CASE u = t
    <3>1. ASSUME NEW i \in DOMAIN q PROVE ItemInv(t, i)'
      <4>1. CASE i \in DOMAIN old
        <5>1. ItemInv(t, i) /\ q[i] = old[i] /\ q[i] # Stopped
          BY <1>9, <1>13, <4>1 DEF ForwardInv, QueueInv
        <5>2. q[i] \in DOMAIN conns /\ conns[q[i]].tun = t /\ conns[q[i]].st = "queued"
          BY <5>1 DEF ItemInv
        <5>3. q[i] \in DOMAIN conns' /\ conns'[q[i]].tun = t /\ conns'[q[i]].st = "queued"
          BY <1>6, <5>2
        <5> QED
          BY <1>11, <5>1, <5>3 DEF ItemInv, Stopped
      <4>2. CASE i = Len(old) + 1
        <5>1. q[i] = n /\ n \in DOMAIN conns' /\ y.tun = t /\ y.st = "queued"
          BY <1>1, <1>6, <1>9, <4>2
        <5> QED
          BY <1>6, <1>7, <1>11, <5>1 DEF ItemInv, Stopped
      <4> QED
        BY <1>9, <4>1, <4>2
    <3>2. ASSUME NEW i \in DOMAIN q, NEW j \in DOMAIN q, q[i] = q[j] PROVE i = j
      <4>1. (i \in DOMAIN old \/ i = Len(old) + 1) /\ (j \in DOMAIN old \/ j = Len(old) + 1)
        BY <1>9
      <4>2. \A a, b \in DOMAIN old : old[a] = old[b] => a = b
        BY DEF ForwardInv, QueueInv
      <4> QED
        BY <1>9, <1>13, <3>2, <4>1, <4>2
    <3>3. fwd'[t].loop # "ended"
      BY <1>2, <1>11
    <3> QED
      BY <1>11, <2>2, <3>1, <3>2, <3>3
  <2> QED
    BY <2>1, <2>2
<1>15. ASSUME NEW d \in DOMAIN conns', conns'[d].st = "queued"
       PROVE  \E i \in DOMAIN fwd'[conns'[d].tun].queue : fwd'[conns'[d].tun].queue[i] = d
  <2>1. CASE d = n
    <3>1. conns'[d].tun = t /\ Len(old) + 1 \in DOMAIN q /\ q[Len(old) + 1] = d
      BY <1>1, <1>6, <1>9, <2>1
    <3> QED
      BY <1>11, <3>1
  <2>2. CASE d \in DOMAIN conns
    <3>1. conns'[d] = conns[d] /\ conns[d].tun \in DOMAIN fwd
      BY <1>4, <1>6, <2>2 DEF ForwardInv, ConnsInv, ConnInv
    <3>2. PICK i \in DOMAIN fwd[conns[d].tun].queue : fwd[conns[d].tun].queue[i] = d
      BY <1>15, <2>2, <3>1 DEF ForwardInv, QueueInv
    <3>3. CASE conns[d].tun = t
      <4>1. i \in DOMAIN old /\ old[i] = d
        BY <3>2, <3>3
      <4>2. i \in DOMAIN q /\ q[i] = d
        BY <1>9, <4>1
      <4> QED
        BY <1>11, <3>1, <3>3, <4>2
    <3>4. CASE conns[d].tun # t
      BY <1>11, <3>1, <3>2, <3>4
    <3> QED
      BY <3>3, <3>4
  <2> QED
    BY <1>6, <2>1, <2>2
<1>16. QueueInv'
  BY <1>11, <1>14, <1>15 DEF QueueInv, Stopped
<1> QED
  BY <1>10, <1>11, <1>12, <1>16 DEF ForwardInv
----------------------------------------------------------------------------
(* Steps of the builder and of the session.                                *)

\* A setter call is the last of its setter.
LEMMA SetInv ==
  ASSUME ForwardInv, NEW c \in Plans[plan].calls, Set(c), UNCHANGED <<fwd, conns>>
  PROVE  ForwardInv'
<1>1. /\ UNCHANGED <<plan, kind, tuns, fwd, conns>> /\ c.set \in SettingsOf(kind)
      /\ options' = Apply(options, c) /\ calls' = Append(calls, c)
  BY DEF Set
<1>2. CallInv(c) /\ c.set \in Settings
  BY <1>1, ConfigAssumption, CallsAssumption DEF ForwardInv, BuilderInv, CallInv
<1>3. PICK v : options' = [options EXCEPT ![c.set] = v] /\ (c.set \in PathSettings => v = c.val)
  <2> DEFINE w == CASE c.set \in Lists -> Push(options[c.set], c.set, c.val)
                    [] c.set \in Tables -> Insert(options[c.set], c.set, c.val[1], c.val[2])
                    [] c.set = "policy" -> TryPolicy(options[c.set], c.val)
                    [] OTHER -> c.val
  <2>1. options' = [options EXCEPT ![c.set] = w]
    BY <1>1 DEF Apply
  <2>2. c.set \in PathSettings => w = c.val
    BY DEF PathSettings, Lists, Tables
  <2> HIDE DEF w
  <2> QED
    BY <2>1, <2>2
<1>4. /\ IsSeq(calls') /\ DOMAIN calls' = 1..(Len(calls) + 1) /\ Len(calls) \in Nat
      /\ DOMAIN calls = 1..Len(calls) /\ calls'[Len(calls) + 1] = c
      /\ \A i \in DOMAIN calls : calls'[i] = calls[i]
  BY <1>1, SeqAt, AppendAt DEF ForwardInv, BuilderInv
<1>5. ASSUME NEW i \in DOMAIN calls' PROVE CallInv(calls[i])'
  <2>1. PICK x : x = calls'[i]
    OBVIOUS
  <2>2. CallInv(x)
    BY <1>2, <1>4, <2>1 DEF ForwardInv, BuilderInv
  <2> QED
    BY <1>1, <2>1, <2>2 DEF CallInv, SettingsOf
<1>6. ASSUME NEW s \in PathSettings
      PROVE  HasLast(CallsOf(calls', s)) /\ options'[s] = LastOf(calls', s, Unset)
  <2>1. HasLast(CallsOf(calls, s)) /\ options[s] = LastOf(calls, s, Unset) /\ IsSeq(calls)
    BY DEF ForwardInv, BuilderInv
  <2>2. /\ HasLast(CallsOf(calls', s))
        /\ LastOf(calls', s, Unset) = IF c.set = s THEN c.val ELSE LastOf(calls, s, Unset)
    BY <1>1, <2>1, LastAppend
  <2>3. options'[s] = IF c.set = s THEN c.val ELSE options[s]
    <3>1. s \in DOMAIN options
      BY DEF ForwardInv, BuilderInv, PathSettings, Settings, AllKinds, SettingsOf, HttpSettings,
             TcpSettings, TlsSettings, LabeledSettings, EndpointSettings
    <3> QED
      BY <1>3, <3>1
  <2> QED
    BY <2>1, <2>2, <2>3
<1>7. BuilderInv'
  <2>1. DOMAIN options' = Settings /\ plan' \in DOMAIN Plans /\ kind' \in Kinds
    BY <1>1, <1>3 DEF ForwardInv, BuilderInv
  <2> QED
    BY <1>4, <1>5, <1>6, <2>1 DEF BuilderInv
<1>8. TunsInv' /\ TunsKept
  BY <1>1, TunsSame, TunsKeptSame DEF ForwardInv
<1>9. FwdInv' /\ ConnsInv'
  BY <1>1, <1>8, ConnsSame DEF ForwardInv, FwdInv, Owed
<1>10. QueueInv'
  BY <1>1 DEF ForwardInv, QueueInv, ItemInv, Stopped
<1> QED
  BY <1>7, <1>8, <1>9, <1>10 DEF ForwardInv

\* A tunnel that is started, and its Forwarder.
LEMMA StartInv ==
  ASSUME ForwardInv, Len(tuns) < Plans[plan].tunnels,
         NEW o, \A s \in PathSettings \cup {"termination"} : o[s] = options[s], NEW url,
         StartTunnel(o, url), NEW f \in {NewForwarder, NewListener}, fwd' = Append(fwd, f),
         UNCHANGED <<plan, kind, options, calls, conns>>
  PROVE  ForwardInv'
<1> DEFINE n == Len(tuns) + 1
<1>1. PICK tun : tun = IF Proto(kind, o) # "" THEN StartedEndpoint(o, n, url)
                       ELSE StartedLabeled(o, n, url)
  OBVIOUS
<1>2. tuns' = Append(tuns, tun)
  BY <1>1 DEF StartTunnel
<1>3. TunInv(tun)
  BY <1>1, StartedInv DEF ForwardInv
<1>4. /\ IsSeq(tuns') /\ Len(tuns') = n /\ DOMAIN tuns' = 1..n /\ Len(tuns) \in Nat
      /\ DOMAIN tuns = 1..Len(tuns)
      /\ tuns'[n] = tun /\ \A t \in DOMAIN tuns : tuns'[t] = tuns[t]
  BY <1>2, SeqAt, AppendAt DEF ForwardInv, TunsInv
<1>5. TunsInv'
  <2>1. ASSUME NEW t \in DOMAIN tuns' PROVE TunInv(tuns[t])'
    <3>1. PICK x : x = tuns'[t]
      OBVIOUS
    <3>2. TunInv(x)
      BY <1>3, <1>4, <3>1 DEF ForwardInv, TunsInv
    <3>3. TunInv(x)'
      BY <3>2, TunInvSame
    <3> QED
      BY <3>1, <3>3
  <2>2. Plans[plan].tunnels \in Nat
    BY ConfigAssumption DEF ForwardInv, BuilderInv
  <2> QED
    BY <1>4, <2>1, <2>2 DEF TunsInv
<1>6. TunsKept
  BY <1>4 DEF TunsKept
<1>7. BuilderInv' /\ ConnsInv'
  BY <1>6, BuilderSame, ConnsSame DEF ForwardInv
<1>8. f \in Forwarders /\ Owed(f) <= 3 /\ f.queue = <<>> /\ f.loop # "ended"
  <2>1. <<>> \in Seq(Nat)
    OBVIOUS
  <2>2. NewForwarder \in Forwarders /\ NewListener \in Forwarders
    <3>1. NewForwarder \in Forwarders
      BY <2>1 DEF NewForwarder, Forwarders
    <3>2. NewListener \in Forwarders
      BY <3>1 DEF NewListener, Forwarders
    <3> QED
      BY <3>1, <3>2
  <2>3. Owed(NewForwarder) <= 3 /\ Owed(NewListener) <= 3
    BY DEF Owed, NewForwarder, NewListener
  <2>4. /\ NewForwarder.queue = <<>> /\ NewForwarder.loop # "ended"
        /\ NewListener.queue = <<>> /\ NewListener.loop # "ended"
    BY DEF NewForwarder, NewListener
  <2> QED
    BY <2>2, <2>3, <2>4
<1>9. DOMAIN fwd = DOMAIN tuns /\ Len(fwd) = Len(tuns) /\ fwd \in Seq(Forwarders)
  BY SameIndices DEF ForwardInv, FwdInv
<1>10. /\ fwd' \in Seq(Forwarders) /\ Len(fwd') = n /\ DOMAIN fwd' = 1..n
       /\ fwd'[n] = f /\ \A t \in DOMAIN fwd : fwd'[t] = fwd[t]
  BY <1>4, <1>8, <1>9
<1>11. FwdInv'
  <2>1. ASSUME NEW t \in DOMAIN fwd' PROVE (Owed(fwd[t]) <= 3)'
    <3>1. CASE t = n
      BY <1>8, <1>10, <3>1 DEF Owed
    <3>2. CASE t \in DOMAIN fwd
      <4>1. Owed(fwd[t]) <= 3
        BY <3>2 DEF ForwardInv, FwdInv
      <4> QED
        BY <1>10, <3>2, <4>1 DEF Owed
    <3> QED
      BY <1>4, <1>9, <1>10, <3>1, <3>2
  <2> QED
    BY <1>4, <1>10, <2>1 DEF FwdInv
<1>12. ASSUME NEW t \in DOMAIN fwd' PROVE ChannelKept(t)
  <2>1. CASE t = n
    <3>1. t \notin DOMAIN fwd
      BY <1>4, <1>9, <2>1
    <3> QED
      BY <1>8, <1>10, <2>1, <3>1 DEF ChannelKept
  <2>2. CASE t \in DOMAIN fwd
    <3>1. fwd'[t] = fwd[t] /\ tuns'[t] = tuns[t]
      BY <1>4, <1>9, <1>10, <2>2
    <3> QED
      BY <2>2, <3>1 DEF ChannelKept, ForwardInv, QueueInv
  <2> QED
    BY <1>4, <1>9, <1>10, <2>1, <2>2
<1>13. QueueInv'
  BY <1>4, <1>9, <1>10, <1>12, QueueSame
<1> QED
  BY <1>5, <1>7, <1>11, <1>13 DEF ForwardInv

\* try_reconnect binds the tunnels of the map again.
LEMMA ReconnectInv ==
  ASSUME ForwardInv, NEW newIds \in BOOLEAN, Reconnect(newIds), UNCHANGED <<fwd, conns>>
  PROVE  ForwardInv'
<1>1. /\ UNCHANGED <<plan, kind, options, calls, fwd, conns>>
      /\ tuns' = [t \in DOMAIN tuns |-> IF tuns[t].key = <<>> THEN tuns[t]
                                       ELSE Rebound(tuns[t], t, newIds)]
  BY DEF Reconnect
<1>2. IsSeq(tuns') /\ Len(tuns') = Len(tuns) /\ DOMAIN tuns' = DOMAIN tuns
  <2>1. tuns' = [t \in DOMAIN tuns |-> tuns'[t]]
    BY <1>1
  <2> QED
    BY <2>1, MappedSeq DEF ForwardInv, TunsInv
<1>3. ASSUME NEW t \in DOMAIN tuns
      PROVE  /\ TunInv(tuns'[t]) /\ tuns'[t].bound = tuns[t].bound /\ tuns'[t].url = tuns[t].url
             /\ tuns[t].key = <<>> => tuns'[t].key = <<>>
  <2>1. TunInv(tuns[t]) /\ BuilderInv
    BY DEF ForwardInv, TunsInv
  <2>2. CASE tuns[t].key = <<>>
    <3>1. tuns'[t] = tuns[t]
      BY <1>1, <2>2
    <3> QED
      BY <2>1, <2>2, <3>1
  <2>3. CASE tuns[t].key # <<>>
    <3>1. PICK x : x = tuns[t]
      OBVIOUS
    <3>2. tuns'[t] = Rebound(x, t, newIds)
      BY <1>1, <2>3, <3>1
    <3> QED
      BY <2>1, <2>3, <3>1, <3>2, ReboundInv
  <2> QED
    BY <2>2, <2>3
<1>4. TunsInv'
  <2>1. ASSUME NEW t \in DOMAIN tuns PROVE TunInv(tuns[t])'
    <3>1. PICK x : x = tuns'[t]
      OBVIOUS
    <3>2. TunInv(x)'
      BY <1>1, <1>3, <3>1, TunInvSame
    <3> QED
      BY <3>1, <3>2
  <2> QED
    BY <1>1, <1>2, <2>1 DEF ForwardInv, TunsInv
<1>5. TunsKept
  BY <1>2, <1>3 DEF TunsKept
<1>6. BuilderInv' /\ ConnsInv'
  BY <1>1, <1>5, BuilderSame, ConnsSame DEF ForwardInv
<1>7. FwdInv'
  BY <1>1, <1>2 DEF ForwardInv, FwdInv, Owed
<1>8. ASSUME NEW t \in DOMAIN fwd' PROVE ChannelKept(t)
  <2>1. t \in DOMAIN tuns /\ t \in DOMAIN fwd
    BY <1>1, SameIndices DEF ForwardInv
  <2> QED
    BY <1>1, <1>3, <2>1 DEF ChannelKept, ForwardInv, QueueInv
<1>9. QueueInv'
  BY <1>1, <1>8, QueueSame
<1> QED
  BY <1>4, <1>6, <1>7, <1>9 DEF ForwardInv

\* A step of nobody here.
LEMMA SameInv ==
  ASSUME ForwardInv, UNCHANGED <<plan, kind, options, calls, tuns, fwd, conns>>
  PROVE  ForwardInv'
<1>1. BuilderInv' /\ TunsInv' /\ TunsKept
  BY BuilderSame, TunsSame, TunsKeptSame DEF ForwardInv
<1>2. FwdInv' /\ ConnsInv'
  BY <1>1, ConnsSame DEF ForwardInv, FwdInv, Owed
<1>3. QueueInv'
  BY DEF ForwardInv, QueueInv, ItemInv, Stopped
<1> QED
  BY <1>1, <1>2, <1>3 DEF ForwardInv

\* The application starts tunnels, and the session connects again.
LEMMA ConfigureInv == ASSUME ForwardInv, Configure PROVE ForwardInv'
<1>1. ASSUME NEW c \in Plans[plan].calls, Set(c), UNCHANGED <<fwd, conns>> PROVE ForwardInv'
  BY <1>1, SetInv
<1>2. CASE Listen /\ fwd' = Append(fwd, NewListener) /\ UNCHANGED conns
  <2>1. PICK f \in {NewForwarder, NewListener} : fwd' = Append(fwd, f)
    BY <1>2
  <2>2. PICK o : o = options
    OBVIOUS
  <2>3. \A s \in PathSettings \cup {"termination"} : o[s] = options[s]
    BY <2>2
  <2> QED
    BY <1>2, <2>1, <2>2, <2>3, StartInv DEF Listen
<1>3. ASSUME NEW u \in Urls, ListenAndForward(u), fwd' = Append(fwd, NewForwarder), UNCHANGED conns
      PROVE  ForwardInv'
  <2>1. PICK f \in {NewForwarder, NewListener} : fwd' = Append(fwd, f)
    BY <1>3
  <2>2. PICK o : o = ForForwardingTo(options, u)
    OBVIOUS
  <2>3. \A s \in PathSettings \cup {"termination"} : o[s] = options[s]
    BY <2>2, ForwardingKeeps DEF ForwardInv
  <2> QED
    BY <1>3, <2>1, <2>2, <2>3, StartInv DEF ListenAndForward
<1>4. CASE ReconnectFails /\ UNCHANGED <<fwd, conns>>
  BY <1>4, SameInv DEF ReconnectFails
<1>5. ASSUME NEW newIds \in BOOLEAN, Reconnect(newIds), UNCHANGED <<fwd, conns>> PROVE ForwardInv'
  BY <1>5, ReconnectInv
<1> QED
  BY <1>1, <1>2, <1>3, <1>4, <1>5 DEF Configure
----------------------------------------------------------------------------
(* The theorems.                                                           *)

\* Nothing is there at first.
LEMMA InitInv == Init => ForwardInv
<1> SUFFICES ASSUME Init PROVE ForwardInv
  OBVIOUS
<1>1. /\ plan \in DOMAIN Plans /\ kind \in Kinds /\ options = DefaultOptions
      /\ calls = <<>> /\ tuns = <<>> /\ fwd = <<>> /\ conns = <<>>
  BY DEF Init, ConfigInit
<1>2. /\ IsSeq(<<>>) /\ DOMAIN <<>> = {} /\ Len(<<>>) = 0
  <2>1. <<>> \in Seq({}) /\ DOMAIN <<>> = {} /\ Len(<<>>) = 0
    OBVIOUS
  <2>2. IsSeq(<<>>)
    BY <2>1, SeqIsSeq
  <2> QED
    BY <2>1, <2>2
<1>3. BuilderInv
  <2>1. DOMAIN options = Settings
    BY <1>1 DEF DefaultOptions
  <2>2. ASSUME NEW s \in PathSettings
        PROVE  HasLast(CallsOf(calls, s)) /\ options[s] = LastOf(calls, s, Unset)
    <3>1. CallsOf(calls, s) = {}
      BY <1>1, <1>2 DEF CallsOf
    <3>2. s \in Settings /\ s \notin Lists /\ s \notin Tables
      BY DEF PathSettings, Lists, Tables, Settings, AllKinds, SettingsOf, HttpSettings,
             TcpSettings, TlsSettings, LabeledSettings, EndpointSettings
    <3>3. options[s] = Unset
      BY <1>1, <3>2 DEF DefaultOptions
    <3> QED
      BY <3>1, <3>3, LastOfIs DEF HasLast
  <2> QED
    BY <1>1, <1>2, <2>1, <2>2 DEF BuilderInv
<1>4. TunsInv /\ ConnsInv
  BY <1>1, <1>2, ConfigAssumption DEF TunsInv, ConnsInv
<1>5. FwdInv
  BY <1>1, <1>2 DEF FwdInv
<1>6. QueueInv
  BY <1>1, <1>2 DEF QueueInv
<1> QED
  BY <1>3, <1>4, <1>5, <1>6 DEF ForwardInv

\* Every step keeps the invariant.
LEMMA NextInv == ForwardInv /\ [Next]_vars => ForwardInv'
<1> SUFFICES ASSUME ForwardInv, [Next]_vars PROVE ForwardInv'
  OBVIOUS
<1>1. CASE Configure
  BY <1>1, ConfigureInv
<1>2. ASSUME NEW t \in DOMAIN tuns,
             \/ \E h \in Headers(t) : Arrive(t, h)
             \/ StopTunnel(t) \/ Loop(t)
             \/ Close(t) \/ DropForwarder(t) \/ CloseTunnel(t) \/ CloseTunnelFails(t)
      PROVE  ForwardInv'
  <2>1. t \in DOMAIN fwd
    BY SameIndices DEF ForwardInv
  <2> QED
    BY <1>2, <2>1, ArriveInv, StopTunnelInv, TakeInv, LoopEnds, CloseInv, CloseTunnelInv DEF Loop
<1>3. ASSUME NEW c \in DOMAIN conns, Join(c) \/ EndCopy(c) PROVE ForwardInv'
  BY <1>3, JoinInv
<1>4. CASE UNCHANGED vars
  BY <1>4, SameInv DEF vars, configVars
<1> QED
  BY <1>1, <1>2, <1>3, <1>4 DEF Next

\* The channel, the options and the layers are as the invariant says.
LEMMA Invariant == Spec => []ForwardInv
<1>1. Init => ForwardInv
  BY InitInv
<1>2. ForwardInv /\ [Next]_vars => ForwardInv'
  BY NextInv
<1> QED
  BY <1>1, <1>2, PTL DEF Spec

\* A channel of an ended task holds no connection.
LEMMA QueueEnds == ForwardInv => EndsWithTunnel
<1> SUFFICES ASSUME ForwardInv, NEW t \in DOMAIN fwd, fwd[t].loop = "ended"
             PROVE  /\ tuns[t].key = <<>>
                    /\ \A c \in DOMAIN conns : conns[c].tun = t => conns[c].st # "queued"
  BY DEF EndsWithTunnel
<1>1. tuns[t].key = <<>> /\ \A i \in DOMAIN fwd[t].queue : fwd[t].queue[i] = Stopped
  BY ForwarderAt
<1>2. ASSUME NEW c \in DOMAIN conns, conns[c].tun = t, conns[c].st = "queued" PROVE FALSE
  <2>1. PICK i \in DOMAIN fwd[t].queue : fwd[t].queue[i] = c
    BY <1>2 DEF ForwardInv, QueueInv
  <2>2. c = Stopped /\ c # Stopped
    BY <1>1, <2>1, SeqAt DEF ForwardInv, ConnsInv, Stopped
  <2> QED
    BY <2>2
<1> QED
  BY <1>1, <1>2

\* For every plan, a forwarding task that has ended belongs to a tunnel that is
\* out of the map, and no connection accepted for it is still in its channel
\* (forward_tunnel, close_tunnel_with_error and Session::close_tunnel).
THEOREM EndsForwarding == Spec => []EndsWithTunnel
<1>1. Spec => []ForwardInv
  BY Invariant
<1>2. ForwardInv => EndsWithTunnel
  BY QueueEnds
<1> QED
  BY <1>1, <1>2, PTL

\* The invariant has the types.
LEMMA InvTypes == ForwardInv => TypeOK
<1> SUFFICES ASSUME ForwardInv PROVE TypeOK
  OBVIOUS
<1>1. kind \in Kinds /\ DOMAIN options = Settings /\ plan \in DOMAIN Plans
      /\ \A i \in DOMAIN calls : calls[i].set \in SettingsOf(kind)
  BY DEF ForwardInv, BuilderInv, CallInv
<1>2. DOMAIN tuns \subseteq Tunnels
  <2>1. Len(tuns) \in Nat /\ DOMAIN tuns = 1..Len(tuns) /\ Len(tuns) <= Plans[plan].tunnels
        /\ Plans[plan].tunnels \in Nat
    BY <1>1, SeqAt, ConfigAssumption DEF ForwardInv, TunsInv
  <2>2. DOMAIN tuns \subseteq 1..Plans[plan].tunnels
    BY <2>1
  <2> QED
    BY <1>1, <2>2 DEF Tunnels
<1>3. DOMAIN conns \subseteq Conns
  <2>1. Len(conns) \in Nat /\ DOMAIN conns = 1..Len(conns) /\ Len(conns) <= Plans[plan].conns
        /\ Plans[plan].conns \in Nat
    BY <1>1, SeqAt, ConfigAssumption DEF ForwardInv, ConnsInv
  <2>2. DOMAIN conns \subseteq 1..Plans[plan].conns
    BY <2>1
  <2> QED
    BY <1>1, <2>2 DEF Conns
<1>4. DOMAIN fwd = DOMAIN tuns /\ \A t \in DOMAIN fwd : fwd[t] \in Forwarders
  BY SameIndices DEF ForwardInv
<1>5. \A t \in DOMAIN fwd : /\ fwd[t].loop \in {"none", "run", "ended"}
                            /\ fwd[t].handle \in {"none", "held", "closed", "gone"}
                            /\ fwd[t].closes \in 0..3
  BY <1>4 DEF Forwarders
<1>6. \A c \in DOMAIN conns : conns[c].st \in States /\ conns[c].tun \in DOMAIN tuns
  BY DEF ForwardInv, ConnsInv, ConnInv
<1> QED
  BY <1>1, <1>2, <1>3, <1>4, <1>5, <1>6 DEF TypeOK

\* The layers of a connection that is joined.
LEMMA LayersOf ==
  ASSUME ForwardInv, NEW c \in Joined
  PROVE  /\ TlsLayers(c) = {} <=> ~Wants(conns[c], Url(c))
         /\ \A i \in TlsLayers(c) : conns[c].up[i] = TlsConfig(conns[c].info)
         /\ {i \in DOMAIN conns[c].up : conns[c].up[i].layer = "proxy"} =
              IF Asks(conns[c]) THEN {1} ELSE {}
<1>1. PICK x : x = conns[c]
  OBVIOUS
<1>2. PICK p : p = [layer |-> "proxy"]
  OBVIOUS
<1>3. PICK tls : tls = TlsConfig(x.info)
  OBVIOUS
<1>4. p.layer = "proxy" /\ tls.layer = "tls"
  BY <1>2, <1>3 DEF TlsConfig
<1>5. x.up = IF Wants(x, Url(c)) THEN Append(HeaderOf(x), tls) ELSE HeaderOf(x)
  BY <1>1, <1>3 DEF Joined, ForwardInv, ConnsInv, ConnInv, UpInv, Url
<1>6. HeaderOf(x) = IF Asks(x) THEN <<p>> ELSE <<>>
  BY <1>2 DEF HeaderOf
<1>7. TlsLayers(c) = {i \in DOMAIN x.up : x.up[i].layer = "tls"}
  BY <1>1 DEF TlsLayers
<1>8. CASE Asks(x) /\ Wants(x, Url(c))
  <2>1. x.up = Append(<<p>>, tls)
    BY <1>5, <1>6, <1>8
  <2>2. DOMAIN x.up = {1, 2} /\ x.up[1] = p /\ x.up[2] = tls
    BY <2>1
  <2> QED
    BY <1>1, <1>3, <1>4, <1>7, <1>8, <2>2
<1>9. CASE Asks(x) /\ ~Wants(x, Url(c))
  <2>1. x.up = <<p>>
    BY <1>5, <1>6, <1>9
  <2>2. DOMAIN x.up = {1} /\ x.up[1] = p
    BY <2>1
  <2> QED
    BY <1>1, <1>3, <1>4, <1>7, <1>9, <2>2
<1>10. CASE ~Asks(x) /\ Wants(x, Url(c))
  <2>1. x.up = Append(<<>>, tls)
    BY <1>5, <1>6, <1>10
  <2>2. DOMAIN x.up = {1} /\ x.up[1] = tls
    BY <2>1
  <2> QED
    BY <1>1, <1>3, <1>4, <1>7, <1>10, <2>2
<1>11. CASE ~Asks(x) /\ ~Wants(x, Url(c))
  <2>1. DOMAIN x.up = {}
    BY <1>5, <1>6, <1>11
  <2> QED
    BY <1>1, <1>7, <1>11, <2>1
<1> QED
  BY <1>8, <1>9, <1>10, <1>11

\* The layers are those that were asked for.
LEMMA InvPath == ForwardInv => PathAsSaid
<1> SUFFICES ASSUME ForwardInv PROVE PathAsSaid
  OBVIOUS
<1>1. ASSUME NEW c \in Joined
      PROVE  /\ c \in DOMAIN conns /\ InfoInv(conns[c], tuns[conns[c].tun].bound)
             /\ BoundInv(tuns[conns[c].tun].bound, tuns[conns[c].tun].said)
  BY DEF Joined, ForwardInv, ConnsInv, ConnInv, TunsInv, TunInv
<1>2. TlsOnce
  <2>1. ASSUME NEW c \in Joined
        PROVE  IF BackendTls(Url(c)) THEN (TlsLayers(c) = {}) = conns[c].tls ELSE TlsLayers(c) = {}
    <3>1. TlsLayers(c) = {} <=> ~Wants(conns[c], Url(c))
      BY LayersOf
    <3>2. conns[c].tls = TunnelTls(conns[c].info)
      BY <1>1 DEF InfoInv
    <3>3. CASE BackendTls(Url(c))
      <4>1. (TlsLayers(c) = {}) <=> TunnelTls(conns[c].info)
        BY <3>1, <3>3 DEF Wants
      <4>2. (TlsLayers(c) = {}) = TunnelTls(conns[c].info)
        BY <4>1 DEF TunnelTls
      <4> QED
        BY <3>2, <3>3, <4>2
    <3>4. CASE ~BackendTls(Url(c))
      BY <3>1, <3>4 DEF Wants
    <3> QED
      BY <3>3, <3>4
  <2> QED
    BY <2>1 DEF TlsOnce
<1>3. HeaderFirst
  <2>1. ASSUME NEW c \in Joined
        PROVE  {i \in DOMAIN conns[c].up : conns[c].up[i].layer = "proxy"} =
                 IF kind # "labeled" /\ Said(c, "proxy_proto", 0) # 0 THEN {1} ELSE {}
    <3>1. kind # "labeled" => Said(c, "proxy_proto", 0) = conns[c].info.proxy
      BY <1>1 DEF InfoInv, BoundInv, Said
    <3> QED
      BY <3>1, LayersOf DEF Asks
  <2> QED
    BY <2>1 DEF HeaderFirst
<1>4. TlsAsSaid
  <2>1. ASSUME NEW c \in Joined, NEW i \in TlsLayers(c)
        PROVE  /\ conns[c].up[i].verify = Said(c, "verify_upstream_tls", TRUE)
               /\ conns[c].up[i].http2 = (Said(c, "app_protocol", "") = "http2")
    <3>1. conns[c].up[i] = TlsConfig(conns[c].info)
      BY LayersOf
    <3>2. /\ conns[c].info.verify = Said(c, "verify_upstream_tls", TRUE)
          /\ conns[c].info.app = Said(c, "app_protocol", "")
      BY <1>1 DEF InfoInv, BoundInv, Said
    <3>3. PICK info : info = conns[c].info
      OBVIOUS
    <3>4. TlsConfig(info).verify = info.verify /\ TlsConfig(info).http2 = (info.app = "http2")
      BY DEF TlsConfig
    <3> QED
      BY <3>1, <3>2, <3>3, <3>4
  <2> QED
    BY <2>1 DEF TlsAsSaid
<1> QED
  BY <1>2, <1>3, <1>4, InvTypes DEF PathAsSaid

\* For every plan of setter calls, tunnels, reconnects and connections, a
\* connection that is joined with its backend has TLS exactly once where the
\* backend speaks it, the PROXY header first and exactly when it was asked for,
\* and the agent's TLS configured, as the application said when it started the
\* tunnel (listen, try_reconnect, accept_one and forward_to).
THEOREM ForwardsAsSaid == Spec => []PathAsSaid
<1>1. Spec => []ForwardInv
  BY Invariant
<1>2. ForwardInv => PathAsSaid
  BY InvPath
<1> QED
  BY <1>1, <1>2, PTL
----------------------------------------------------------------------------
(* What was said: one call more.                                           *)

\* A set of numbers has a least one.
LEMMA LeastIn ==
  ASSUME NEW T, T \subseteq Nat, T # {}
  PROVE  \E x \in T : \A y \in T : x <= y
<1> DEFINE R == OpToRel(<, Nat)
<1>1. IsWellFoundedOn(R, Nat)
  BY NatLessThanWellFounded
<1> HIDE DEF R
<1>2. PICK x \in T : \A y \in T : ~(<<y, x>> \in R)
  BY <1>1, WFMin
<1>3. \A y \in T : ~(y < x)
  BY <1>2 DEF R, OpToRel
<1> QED
  BY <1>3

\* Of some indices one is the last.
LEMMA IndicesHaveLast ==
  ASSUME NEW n \in Nat, NEW own, own \subseteq 1..n
  PROVE  HasLast(own)
<1> SUFFICES ASSUME own # {} PROVE \E i \in own : \A j \in own : j <= i
  BY DEF HasLast
<1> DEFINE T == {n - i : i \in own}
<1>1. T \subseteq Nat /\ T # {}
  <2>1. \A i \in own : n - i \in Nat
    OBVIOUS
  <2> QED
    BY <2>1
<1>2. PICK x \in T : \A y \in T : x <= y
  <2> HIDE DEF T
  <2> QED
    BY <1>1, LeastIn
<1>3. PICK i \in own : x = n - i
  BY <1>2
<1>4. \A j \in own : n - j \in T
  OBVIOUS
<1>5. \A j \in own : j <= i
  BY <1>2, <1>3, <1>4
<1> QED
  BY <1>5

\* An index beyond all others is the last.
LEMMA LastBeyond ==
  ASSUME NEW m \in Nat, NEW own, own \subseteq 1..m, NEW all, all = own \cup {m + 1}
  PROVE  Last(all) = m + 1
<1>1. m + 1 \in Nat /\ all \subseteq 1..(m + 1) /\ all # {} /\ m + 1 \in all
  OBVIOUS
<1>2. HasLast(all)
  BY <1>1, IndicesHaveLast
<1>3. PICK x : x = Last(all)
  OBVIOUS
<1>4. x \in all /\ m + 1 <= x
  BY <1>1, <1>2, <1>3, LastIn
<1>5. x \in 1..(m + 1)
  BY <1>1, <1>4
<1>6. x = m + 1
  BY <1>4, <1>5
<1> QED
  BY <1>3, <1>6

\* The calls of a setter after one more call.
LEMMA CallsAppend ==
  ASSUME NEW said, IsSeq(said), NEW c, NEW s
  PROVE  /\ Len(said) \in Nat /\ IsSeq(Append(said, c))
         /\ Append(said, c)[Len(said) + 1] = c
         /\ CallsOf(said, s) \subseteq 1..Len(said)
         /\ \A i \in CallsOf(said, s) : Append(said, c)[i] = said[i]
         /\ CallsOf(Append(said, c), s) =
              IF c.set = s THEN CallsOf(said, s) \cup {Len(said) + 1} ELSE CallsOf(said, s)
<1>1. /\ Len(said) \in Nat /\ DOMAIN said = 1..Len(said)
      /\ DOMAIN Append(said, c) = 1..(Len(said) + 1)
      /\ \A i \in DOMAIN said : Append(said, c)[i] = said[i]
      /\ Append(said, c)[Len(said) + 1] = c /\ IsSeq(Append(said, c))
  BY SeqAt, AppendAt
<1> QED
  BY <1>1 DEF CallsOf

\* How many of some indices come before one of them.
UpTo(own, i) == {j \in own : j <= i}
LEMMA CountUpTo ==
  ASSUME NEW m \in Nat, NEW own, own \subseteq 1..m
  PROVE  /\ IsFiniteSet(own) /\ Cardinality(own) \in Nat
         /\ \A i \in own : Cardinality(UpTo(own, i)) \in 1..Cardinality(own)
<1>1. own \in SUBSET Nat /\ \A i \in own : i <= m
  OBVIOUS
<1>2. IsFiniteSet(own) /\ Cardinality(own) \in Nat
  BY <1>1, FS_BoundedSetOfNaturals, FS_CardinalityType
<1>3. ASSUME NEW i \in own PROVE Cardinality(UpTo(own, i)) \in 1..Cardinality(own)
  <2>1. UpTo(own, i) \in SUBSET own /\ i \in UpTo(own, i)
    BY <1>1 DEF UpTo
  <2>2. /\ IsFiniteSet(UpTo(own, i)) /\ Cardinality(UpTo(own, i)) <= Cardinality(own)
        /\ Cardinality(UpTo(own, i)) \in Nat
    BY <1>2, <2>1, FS_Subset, FS_CardinalityType
  <2>3. Cardinality(UpTo(own, i)) # 0
    BY <2>1, <2>2, FS_EmptySet
  <2> QED
    BY <1>2, <2>2, <2>3
<1> QED
  BY <1>2, <1>3

\* The calls of a setter in order: one more is behind the others.
OneMore(all, own, m, size) ==
  own \subseteq 1..m /\ all = own \cup {m + 1} /\ Cardinality(own) = size
Ordered(all, own, m, size) ==
  /\ Cardinality(all) = size + 1
  /\ \A k \in 1..size : Nth(all, k) = Nth(own, k)
  /\ Nth(all, size + 1) = m + 1
LEMMA NthAppend ==
  ASSUME NEW m \in Nat, NEW size \in Nat, NEW own, NEW all, OneMore(all, own, m, size)
  PROVE  Ordered(all, own, m, size)
<1>1. own \subseteq 1..m /\ all = own \cup {m + 1} /\ Cardinality(own) = size
  BY DEF OneMore
<1>2. IsFiniteSet(own) /\ \A i \in own : Cardinality(UpTo(own, i)) \in 1..size
  BY <1>1, CountUpTo
<1>3. m + 1 \notin own /\ Cardinality(all) = size + 1
  BY <1>1, <1>2, FS_AddElement
<1>4. \A i \in own : UpTo(all, i) = UpTo(own, i)
  BY <1>1 DEF UpTo
<1>5. UpTo(all, m + 1) = all
  <2>1. \A i \in all : i <= m + 1
    BY <1>1
  <2> QED
    BY <2>1 DEF UpTo
<1>6. ASSUME NEW k \in 1..size PROVE Nth(all, k) = Nth(own, k)
  <2>1. Cardinality(UpTo(all, m + 1)) # k
    <3>1. Cardinality(all) # k
      BY <1>3
    <3> QED
      BY <1>5, <3>1
  <2>2. \A i \in own : Cardinality(UpTo(all, i)) = Cardinality(UpTo(own, i))
    BY <1>4
  <2>3. \A i : (i \in all /\ Cardinality(UpTo(all, i)) = k) <=> (i \in own /\ Cardinality(UpTo(own, i)) = k)
    BY <1>1, <2>1, <2>2
  <2>4. /\ Nth(all, k) = CHOOSE i : i \in all /\ Cardinality(UpTo(all, i)) = k
        /\ Nth(own, k) = CHOOSE i : i \in own /\ Cardinality(UpTo(own, i)) = k
    BY DEF Nth, UpTo
  <2> QED
    BY <2>3, <2>4
<1>7. Nth(all, size + 1) = m + 1
  <2>1. \A i \in all : Cardinality(UpTo(all, i)) = size + 1 => i = m + 1
    <3>1. ASSUME NEW i \in own PROVE Cardinality(UpTo(all, i)) # size + 1
      BY <1>2, <1>4
    <3> QED
      BY <1>1, <3>1
  <2>2. m + 1 \in all /\ Cardinality(UpTo(all, m + 1)) = size + 1
    BY <1>1, <1>3, <1>5
  <2> DEFINE x == CHOOSE i \in all : Cardinality(UpTo(all, i)) = size + 1
  <2>3. x \in all /\ Cardinality(UpTo(all, x)) = size + 1
    BY <2>2
  <2>4. x = Nth(all, size + 1)
    BY DEF Nth, UpTo
  <2> HIDE DEF x
  <2> QED
    BY <2>1, <2>3, <2>4
<1> QED
  BY <1>3, <1>6, <1>7 DEF Ordered

\* Induction over numbers, for a set of them.
LEMMA NatIn ==
  ASSUME NEW S, 0 \in S, \A n \in Nat : n \in S => n + 1 \in S
  PROVE  \A n \in Nat : n \in S
<1> DEFINE T == Nat \ S
<1> SUFFICES ASSUME T # {} PROVE FALSE
  OBVIOUS
<1>1. PICK x \in T : \A y \in T : x <= y
  <2>1. T \subseteq Nat
    OBVIOUS
  <2> HIDE DEF T
  <2> QED
    BY <2>1, LeastIn
<1>2. x # 0 /\ x \in Nat
  OBVIOUS
<1>3. x - 1 \in Nat /\ x - 1 \notin T
  BY <1>1, <1>2
<1>4. (x - 1) + 1 \in S
  BY <1>3
<1> QED
  BY <1>1, <1>2, <1>4

\* The k-th of some indices is one of them.
LEMMA NthIn ==
  ASSUME NEW m \in Nat, NEW own, own \subseteq 1..m
  PROVE  \A k \in 1..Cardinality(own) : Nth(own, k) \in own
<1> DEFINE S == {n \in Nat : \A some \in SUBSET (1..n) :
                              \A k \in 1..Cardinality(some) : Nth(some, k) \in some}
<1>1. 0 \in S
  <2>1. \A some \in SUBSET (1..0) : some = {}
    OBVIOUS
  <2> QED
    BY <2>1, FS_EmptySet
<1>2. ASSUME NEW n \in Nat, n \in S PROVE n + 1 \in S
  <2> SUFFICES ASSUME NEW some \in SUBSET (1..(n + 1)), NEW k \in 1..Cardinality(some)
               PROVE  Nth(some, k) \in some
    OBVIOUS
  <2>1. CASE n + 1 \notin some
    <3>1. some \in SUBSET (1..n)
      BY <2>1
    <3> QED
      BY <1>2, <3>1
  <2>2. CASE n + 1 \in some
    <3>1. PICK own1 : own1 = some \ {n + 1}
      OBVIOUS
    <3>2. own1 \subseteq 1..n /\ some = own1 \cup {n + 1}
      BY <2>2, <3>1
    <3>3. PICK size \in Nat : Cardinality(own1) = size
      BY <1>2, <3>2, CountUpTo
    <3>4. /\ Cardinality(some) = size + 1
          /\ \A j \in 1..size : Nth(some, j) = Nth(own1, j)
          /\ Nth(some, size + 1) = n + 1
      <4>1. OneMore(some, own1, n, size)
        BY <3>2, <3>3 DEF OneMore
      <4> QED
        BY <4>1, NthAppend DEF Ordered
    <3>5. \A j \in 1..size : Nth(own1, j) \in own1
      BY <1>2, <3>2, <3>3
    <3>6. k \in 1..size \/ k = size + 1
      BY <3>3, <3>4
    <3> QED
      BY <3>2, <3>4, <3>5, <3>6
  <2> QED
    BY <2>1, <2>2
<1>3. m \in S
  <2> HIDE DEF S
  <2> QED
    BY <1>1, <1>2, NatIn
<1> QED
  BY <1>3

\* A list after one more call.
LEMMA ListAppend ==
  ASSUME NEW said, IsSeq(said), NEW c, NEW s
  PROVE  ListOf(Append(said, c), s) =
           IF c.set = s THEN Append(ListOf(said, s), Spelled(s, c.val)) ELSE ListOf(said, s)
<1>1. PICK longer, n, own, all, size :
        /\ longer = Append(said, c) /\ own = CallsOf(said, s) /\ all = CallsOf(longer, s)
        /\ n \in Nat /\ Len(said) = n /\ size \in Nat /\ Cardinality(own) = size
  BY CallsAppend, CountUpTo
<1>2. /\ n \in Nat /\ longer[n + 1] = c /\ own \subseteq 1..n
      /\ \A i \in own : longer[i] = said[i]
      /\ all = IF c.set = s THEN own \cup {n + 1} ELSE own
  BY <1>1, CallsAppend
<1>3. size \in Nat /\ \A k \in 1..size : Nth(own, k) \in own
  BY <1>1, <1>2, NthIn, CountUpTo
<1>4. /\ ListOf(said, s) = [k \in 1..size |-> Spelled(s, said[Nth(own, k)].val)]
      /\ ListOf(longer, s) = [k \in 1..Cardinality(all) |-> Spelled(s, longer[Nth(all, k)].val)]
  BY <1>1 DEF ListOf
<1>5. CASE c.set # s
  <2>1. \A k \in 1..size : longer[Nth(own, k)] = said[Nth(own, k)]
    BY <1>2, <1>3
  <2>2. all = own /\ Cardinality(all) = size
    BY <1>1, <1>2, <1>5
  <2>3. ListOf(longer, s) = [k \in 1..size |-> Spelled(s, longer[Nth(own, k)].val)]
    BY <1>4, <2>2
  <2>4. \A k \in 1..size : Spelled(s, longer[Nth(own, k)].val) = Spelled(s, said[Nth(own, k)].val)
    BY <2>1
  <2>5. ListOf(longer, s) = ListOf(said, s)
    BY <1>4, <2>3, <2>4
  <2> QED
    BY <1>1, <1>5, <2>5
<1>6. CASE c.set = s
  <2>1. /\ Cardinality(all) = size + 1
        /\ \A k \in 1..size : Nth(all, k) = Nth(own, k)
        /\ Nth(all, size + 1) = n + 1
    <3>1. OneMore(all, own, n, size)
      BY <1>1, <1>2, <1>6 DEF OneMore
    <3>2. Ordered(all, own, n, size)
      BY <1>2, <1>3, <3>1, NthAppend
    <3> QED
      BY <3>2 DEF Ordered
  <2>2. PICK old, new, v : old = ListOf(said, s) /\ new = ListOf(longer, s) /\ v = Spelled(s, c.val)
    OBVIOUS
  <2>3. /\ DOMAIN new = 1..(size + 1) /\ new = [k \in 1..(size + 1) |-> new[k]] /\ new[size + 1] = v
        /\ \A k \in 1..size : new[k] = old[k]
    <3>1. new = [k \in 1..(size + 1) |-> Spelled(s, longer[Nth(all, k)].val)]
      BY <1>4, <2>1, <2>2
    <3>2. \A k \in 1..size : longer[Nth(all, k)] = said[Nth(own, k)]
      BY <1>2, <1>3, <2>1
    <3>3. \A k \in 1..(size + 1) : new[k] = Spelled(s, longer[Nth(all, k)].val)
      BY <3>1
    <3>4. \A k \in 1..size : old[k] = Spelled(s, said[Nth(own, k)].val)
      BY <1>4, <2>2
    <3>5. \A k \in 1..size : new[k] = old[k]
      BY <1>3, <3>2, <3>3, <3>4
    <3>6. new[size + 1] = v
      BY <1>2, <1>3, <2>1, <2>2, <3>3
    <3> QED
      BY <3>1, <3>5, <3>6
  <2>4. IsSeq(old) /\ Len(old) = size
    <3>1. old = [k \in 1..size |-> old[k]] /\ DOMAIN old = 1..size
      BY <1>4, <2>2
    <3>2. old \in Seq(RangeOf(old))
      BY <1>3, <3>1 DEF RangeOf
    <3> QED
      BY <1>3, <3>1, <3>2 DEF IsSeq
  <2>5. PICK app : app = Append(old, v)
    OBVIOUS
  <2>6. /\ DOMAIN app = 1..(size + 1) /\ app[size + 1] = v /\ \A k \in DOMAIN old : app[k] = old[k]
        /\ IsSeq(app)
    BY <2>4, <2>5, AppendAt
  <2>7. app = [k \in 1..(size + 1) |-> app[k]] /\ DOMAIN old = 1..size
    BY <2>4, <2>6, SeqAt DEF IsSeq
  <2>8. ASSUME NEW k \in 1..(size + 1) PROVE app[k] = new[k]
    <3>1. k \in 1..size \/ k = size + 1
      BY <1>3
    <3> QED
      BY <2>3, <2>6, <2>7, <3>1
  <2> QED
    BY <1>1, <1>6, <2>2, <2>3, <2>5, <2>7, <2>8
<1> QED
  BY <1>5, <1>6

\* A table after one more call.
LEMMA TableAppend ==
  ASSUME NEW said, IsSeq(said), NEW c, NEW s
  PROVE  TableOf(Append(said, c), s) =
           IF c.set = s THEN Put(TableOf(said, s), Spelled(s, c.val[1]), c.val[2]) ELSE TableOf(said, s)
<1> DEFINE Key(x) == Spelled(s, x.val[1])
<1>1. PICK longer, n, own, all :
        /\ longer = Append(said, c) /\ own = CallsOf(said, s) /\ all = CallsOf(longer, s)
        /\ n \in Nat /\ Len(said) = n
  BY CallsAppend
<1>2. /\ n \in Nat /\ longer[n + 1] = c /\ own \subseteq 1..n
      /\ \A i \in own : longer[i] = said[i]
      /\ all = IF c.set = s THEN own \cup {n + 1} ELSE own
  BY <1>1, CallsAppend
<1>3. PICK old, new : old = TableOf(said, s) /\ new = TableOf(longer, s)
  OBVIOUS
<1> DEFINE For(k) == {i \in own : Key(said[i]) = k}
           All(k) == {i \in all : Key(longer[i]) = k}
<1>4. /\ old = [k \in {Key(said[i]) : i \in own} |-> said[Last(For(k))].val[2]]
      /\ new = [k \in {Key(longer[i]) : i \in all} |-> longer[Last(All(k))].val[2]]
  BY <1>1, <1>3 DEF TableOf
<1>5. ASSUME NEW k \in {Key(said[i]) : i \in own} PROVE Last(For(k)) \in own
  <2>1. For(k) \subseteq 1..n /\ For(k) # {}
    BY <1>2
  <2>2. HasLast(For(k))
    BY <1>2, <2>1, IndicesHaveLast
  <2>3. Last(For(k)) \in For(k)
    BY <2>1, <2>2, LastIn
  <2> QED
    BY <2>3
<1>6. CASE c.set # s
  <2>1. all = own
    BY <1>2, <1>6
  <2>2. {Key(longer[i]) : i \in all} = {Key(said[i]) : i \in own}
    BY <1>2, <2>1
  <2>3. \A k : All(k) = For(k)
    BY <1>2, <2>1
  <2>4. \A k \in {Key(said[i]) : i \in own} : longer[Last(All(k))] = said[Last(For(k))]
    BY <1>2, <1>5, <2>3
  <2> HIDE DEF For, All, Key
  <2>5. new = old
    BY <1>4, <2>2, <2>4
  <2> QED
    BY <1>1, <1>3, <1>6, <2>5
<1>7. CASE c.set = s
  <2>1. all = own \cup {n + 1}
    BY <1>2, <1>7
  <2>2. {Key(longer[i]) : i \in all} = {Key(said[i]) : i \in own} \cup {Key(c)}
    BY <1>2, <2>1
  <2>3. All(Key(c)) = For(Key(c)) \cup {n + 1}
    BY <1>2, <2>1
  <2>4. Last(All(Key(c))) = n + 1
    <3>1. For(Key(c)) \subseteq 1..n
      BY <1>2
    <3> HIDE DEF For, All, Key
    <3> QED
      BY <1>2, <2>3, <3>1, LastBeyond
  <2>5. ASSUME NEW k \in {Key(said[i]) : i \in own}, k # Key(c)
        PROVE  longer[Last(All(k))] = said[Last(For(k))]
    <3>1. All(k) = For(k)
      BY <1>2, <2>1, <2>5
    <3> QED
      BY <1>2, <1>5, <3>1
  <2> HIDE DEF For, All, Key
  <2>6. DOMAIN old = {Key(said[i]) : i \in own}
    BY <1>4
  <2>7. new = [k \in DOMAIN old \cup {Key(c)} |-> IF k = Key(c) THEN c.val[2] ELSE old[k]]
    BY <1>2, <1>4, <2>2, <2>4, <2>5, <2>6
  <2>8. new = Put(old, Key(c), c.val[2])
    BY <2>7 DEF Put
  <2> QED
    BY <1>1, <1>3, <1>7, <2>8 DEF Key
<1> QED
  BY <1>6, <1>7

\* The policy after one more call.
LEMMA PolicyAppend ==
  ASSUME NEW said, IsSeq(said), NEW c
  PROVE  PolicyOf(Append(said, c)) =
           IF c.set = "policy" THEN TryPolicy(PolicyOf(said), c.val) ELSE PolicyOf(said)
<1>1. PICK longer, n, own, all :
        /\ longer = Append(said, c) /\ own = CallsOf(said, "policy") /\ all = CallsOf(longer, "policy")
        /\ n \in Nat /\ Len(said) = n
  BY CallsAppend
<1>2. /\ n \in Nat /\ longer[n + 1] = c /\ own \subseteq 1..n
      /\ \A i \in own : longer[i] = said[i]
      /\ all = IF c.set = "policy" THEN own \cup {n + 1} ELSE own
  BY <1>1, CallsAppend
<1>3. PICK old, new : /\ old = {i \in own : said[i].val # BadPolicy}
                      /\ new = {i \in all : longer[i].val # BadPolicy}
  OBVIOUS
<1>4. /\ PolicyOf(said) = IF old = {} THEN Unset ELSE said[Last(old)].val
      /\ PolicyOf(longer) = IF new = {} THEN Unset ELSE longer[Last(new)].val
  BY <1>1, <1>3 DEF PolicyOf
<1>5. old \subseteq 1..n
  BY <1>2, <1>3
<1>6. old # {} => Last(old) \in own
  BY <1>2, <1>3, <1>5, IndicesHaveLast, LastIn
<1>7. CASE c.set = "policy" /\ c.val # BadPolicy
  <2>1. new = old \cup {n + 1}
    BY <1>2, <1>3, <1>7
  <2>2. Last(new) = n + 1
    BY <1>2, <1>5, <2>1, LastBeyond
  <2> QED
    BY <1>1, <1>2, <1>4, <1>7, <2>1, <2>2 DEF TryPolicy
<1>8. CASE ~(c.set = "policy" /\ c.val # BadPolicy)
  <2>1. new = old
    BY <1>2, <1>3, <1>8
  <2> QED
    BY <1>1, <1>2, <1>4, <1>6, <1>8, <2>1 DEF TryPolicy
<1> QED
  BY <1>7, <1>8
----------------------------------------------------------------------------
(* The builder: every option is what the calls say.                        *)

\* What some calls say of a setting.
Intent(said, s) ==
  IF s \in Lists THEN ListOf(said, s) ELSE IF s \in Tables THEN TableOf(said, s)
  ELSE IF s = "policy" THEN PolicyOf(said) ELSE LastOf(said, s, Unset)
OptionsInv == \A s \in Settings : options[s] = Intent(calls, s)

\* The setter of a setting that has one value, which a later call replaces.
Plain == Settings \ (Lists \cup Tables \cup {"policy"})

\* What one more call says.
LEMMA IntentAppend ==
  ASSUME NEW said, IsSeq(said), NEW c, NEW s
  PROVE  Intent(Append(said, c), s) =
           IF c.set # s THEN Intent(said, s)
           ELSE IF s \in Lists THEN Append(Intent(said, s), Spelled(s, c.val))
           ELSE IF s \in Tables THEN Put(Intent(said, s), Spelled(s, c.val[1]), c.val[2])
           ELSE IF s = "policy" THEN TryPolicy(Intent(said, s), c.val)
           ELSE c.val
<1>1. CASE s \in Lists
  BY <1>1, ListAppend DEF Intent
<1>2. CASE s \notin Lists /\ s \in Tables
  BY <1>2, TableAppend DEF Intent
<1>3. CASE s \notin Lists /\ s \notin Tables /\ s = "policy"
  BY <1>3, PolicyAppend DEF Intent
<1>4. CASE s \notin Lists /\ s \notin Tables /\ s # "policy"
  <2>1. Len(said) \in Nat /\ CallsOf(said, s) \subseteq 1..Len(said)
    BY CallsAppend
  <2>2. HasLast(CallsOf(said, s))
    BY <2>1, IndicesHaveLast
  <2>3. LastOf(Append(said, c), s, Unset) = IF c.set = s THEN c.val ELSE LastOf(said, s, Unset)
    BY <2>2, LastAppend
  <2> QED
    BY <1>4, <2>3 DEF Intent
<1> QED
  BY <1>1, <1>2, <1>3, <1>4

\* The setters do what they say.
LEMMA ApplyIntent ==
  ASSUME BuilderInv, OptionsInv, NEW c, c.set \in Settings, NEW s \in Settings
  PROVE  Apply(options, c)[s] = Intent(Append(calls, c), s)
<1>1. IsSeq(calls) /\ DOMAIN options = Settings /\ options[s] = Intent(calls, s)
  BY DEF BuilderInv, OptionsInv
<1>2. PICK v : v = CASE c.set \in Lists -> Push(options[c.set], c.set, c.val)
                     [] c.set \in Tables -> Insert(options[c.set], c.set, c.val[1], c.val[2])
                     [] c.set = "policy" -> TryPolicy(options[c.set], c.val)
                     [] OTHER -> c.val
  OBVIOUS
<1>3. Apply(options, c) = [options EXCEPT ![c.set] = v]
  BY <1>2 DEF Apply
<1>4. Apply(options, c)[s] = IF c.set = s THEN v ELSE Intent(calls, s)
  BY <1>1, <1>3
<1>5. CASE c.set # s
  BY <1>1, <1>4, <1>5, IntentAppend
<1>6. CASE c.set = s
  <2>1. Lists \cap Tables = {} /\ "policy" \notin Lists /\ "policy" \notin Tables
    BY DEF Lists, Tables
  <2>2. CASE s \in Lists
    <3>1. v = Append(Intent(calls, s), IF s \in {"remove_request_header", "remove_response_header"}
                                       THEN ToLower(c.val) ELSE c.val)
      BY <1>1, <1>2, <1>6, <2>1, <2>2 DEF Push
    <3>2. s \notin {"request_header", "response_header"}
      BY <2>2 DEF Lists
    <3>3. v = Append(Intent(calls, s), Spelled(s, c.val))
      BY <3>1, <3>2 DEF Spelled
    <3> QED
      BY <1>1, <1>4, <1>6, <2>2, <3>3, IntentAppend
  <2>3. CASE s \in Tables
    <3>1. v = Put(Intent(calls, s), IF s = "label" THEN c.val[1] ELSE ToLower(c.val[1]), c.val[2])
      BY <1>1, <1>2, <1>6, <2>1, <2>3 DEF Insert
    <3>2. s \in {"request_header", "response_header", "label"}
      BY <2>3 DEF Tables
    <3>3. v = Put(Intent(calls, s), Spelled(s, c.val[1]), c.val[2])
      BY <3>1, <3>2 DEF Spelled
    <3> QED
      BY <1>1, <1>4, <1>6, <2>1, <2>3, <3>3, IntentAppend
  <2>4. CASE s \notin Lists /\ s \notin Tables
    <3>1. v = IF s = "policy" THEN TryPolicy(Intent(calls, s), c.val) ELSE c.val
      BY <1>1, <1>2, <1>6, <2>1, <2>4
    <3> QED
      BY <1>1, <1>4, <1>6, <2>4, <3>1, IntentAppend
  <2> QED
    BY <2>2, <2>3, <2>4
<1> QED
  BY <1>5, <1>6

\* Nothing is said before the first call.
LEMMA NoIntent ==
  ASSUME NEW s \in Settings
  PROVE  Intent(<<>>, s) = DefaultOptions[s]
<1>1. CallsOf(<<>>, s) = {} /\ CallsOf(<<>>, "policy") = {} /\ Cardinality({}) = 0
  BY FS_EmptySet DEF CallsOf
<1>2. ListOf(<<>>, s) = <<>>
  <2>1. PICK f : f = ListOf(<<>>, s)
    OBVIOUS
  <2>2. f = [k \in 1..0 |-> Spelled(s, <<>>[Nth({}, k)].val)]
    BY <1>1, <2>1 DEF ListOf
  <2>3. f \in [1..0 -> {}]
    BY <2>2
  <2>4. f \in Seq({}) /\ Len(f) = 0
    BY <2>3
  <2> QED
    BY <2>1, <2>4
<1>3. TableOf(<<>>, s) = EmptyTable
  BY <1>1 DEF TableOf, EmptyTable
<1>4. PolicyOf(<<>>) = Unset /\ LastOf(<<>>, s, Unset) = Unset
  BY <1>1 DEF PolicyOf, LastOf
<1>5. Lists \cap Tables = {}
  BY DEF Lists, Tables
<1> QED
  BY <1>2, <1>3, <1>4, <1>5 DEF Intent, DefaultOptions

\* A plain setting with a default.
LEMMA PlainIsLast ==
  ASSUME BuilderInv, NEW s \in Plain, NEW d
  PROVE  OrElse(Intent(calls, s), d) = LastOf(calls, s, d)
<1>1. Intent(calls, s) = LastOf(calls, s, Unset)
  BY DEF Intent, Plain
<1>2. HasLast(CallsOf(calls, s))
  <2>1. Len(calls) \in Nat /\ CallsOf(calls, s) \subseteq 1..Len(calls)
    BY CallsAppend DEF BuilderInv
  <2> QED
    BY <2>1, IndicesHaveLast
<1>3. CASE CallsOf(calls, s) = {}
  BY <1>1, <1>3, LastOfIs DEF OrElse
<1>4. CASE CallsOf(calls, s) # {}
  <2>1. Last(CallsOf(calls, s)) \in DOMAIN calls
    BY <1>2, <1>4, LastIn DEF CallsOf
  <2>2. calls[Last(CallsOf(calls, s))].val # Unset
    BY <2>1 DEF BuilderInv, CallInv
  <2> QED
    BY <1>1, <1>4, <2>2, LastOfIs DEF OrElse
<1> QED
  BY <1>3, <1>4

\* The options a tunnel is started with: those of the builder, and where it
\* forwards the URL, with the header for its host.
Configured(o, url) ==
  /\ \A s \in Settings \ {"forwards_to", "request_header"} : o[s] = Intent(calls, s)
  /\ o["forwards_to"] = IF url # Unset THEN url ELSE Intent(calls, "forwards_to")
  /\ o["request_header"] = IntendedHeaders(calls, url)

\* listen uses the options as they are.
LEMMA ListenConfigured ==
  ASSUME OptionsInv
  PROVE  Configured(options, Unset)
<1>1. "forwards_to" \in Settings /\ "request_header" \in Settings
  BY DEF Settings, AllKinds, SettingsOf, HttpSettings, EndpointSettings
<1>2. IntendedHeaders(calls, Unset) = TableOf(calls, "request_header")
  BY DEF IntendedHeaders
<1>3. Intent(calls, "request_header") = TableOf(calls, "request_header")
  BY DEF Intent, Lists, Tables
<1> QED
  BY <1>1, <1>2, <1>3 DEF Configured, OptionsInv

\* listen_and_forward uses a clone with the URL.
LEMMA ForwardConfigured ==
  ASSUME BuilderInv, OptionsInv, NEW url \in Urls
  PROVE  Configured(ForForwardingTo(options, url), url)
<1>1. /\ "forwards_to" \in Settings /\ "request_header" \in Settings
      /\ "host_header_rewrite" \in Plain
  BY DEF Plain, Lists, Tables, Settings, AllKinds, SettingsOf, HttpSettings, EndpointSettings
<1>2. url # Unset /\ Unset # TRUE
  BY CallsAssumption
<1>3. DOMAIN options = Settings /\ \A s \in Settings : options[s] = Intent(calls, s)
  BY DEF BuilderInv, OptionsInv
<1>4. Intent(calls, "request_header") = TableOf(calls, "request_header")
  BY DEF Intent, Lists, Tables
<1>5. (options["host_header_rewrite"] = TRUE) = (LastOf(calls, "host_header_rewrite", FALSE) = TRUE)
  <2>1. OrElse(Intent(calls, "host_header_rewrite"), FALSE) = LastOf(calls, "host_header_rewrite", FALSE)
    BY <1>1, PlainIsLast
  <2>2. options["host_header_rewrite"] = Intent(calls, "host_header_rewrite")
    BY <1>1, <1>3 DEF Plain
  <2> QED
    BY <1>2, <2>1, <2>2 DEF OrElse
<1>6. PICK p : p = [options EXCEPT !["forwards_to"] = url]
  OBVIOUS
<1>7. DOMAIN p = Settings /\ \A s \in Settings : p[s] = IF s = "forwards_to" THEN url ELSE options[s]
  BY <1>3, <1>6
<1>8. PICK q : q = [p EXCEPT !["request_header"] = Put(@, "host", url.host)]
  OBVIOUS
<1>9. ForForwardingTo(options, url) =
        IF options["host_header_rewrite"] = TRUE /\ url.host # "" THEN q ELSE p
  <2>1. PICK c : c = [set |-> "request_header", val |-> <<"host", url.host>>]
    OBVIOUS
  <2>2. c.set = "request_header" /\ c.val[1] = "host" /\ c.val[2] = url.host
    BY <2>1
  <2>3. Apply(p, c) = [p EXCEPT !["request_header"] = Insert(@, "request_header", "host", url.host)]
    BY <2>2 DEF Apply, Lists, Tables
  <2>4. Apply(p, c) = q
    BY <1>8, <2>3 DEF Insert, ToLower
  <2> QED
    BY <1>6, <2>1, <2>4 DEF ForForwardingTo
<1>10. IntendedHeaders(calls, url) =
         IF options["host_header_rewrite"] = TRUE /\ url.host # ""
         THEN Put(TableOf(calls, "request_header"), "host", url.host)
         ELSE TableOf(calls, "request_header")
  BY <1>2, <1>5 DEF IntendedHeaders
<1>11. CASE options["host_header_rewrite"] = TRUE /\ url.host # ""
  <2>1. ForForwardingTo(options, url) = q
    BY <1>9, <1>11
  <2>2. /\ \A s \in Settings \ {"request_header"} : q[s] = p[s]
        /\ q["request_header"] = Put(TableOf(calls, "request_header"), "host", url.host)
    BY <1>1, <1>3, <1>4, <1>7, <1>8
  <2> QED
    BY <1>1, <1>2, <1>3, <1>7, <1>10, <1>11, <2>1, <2>2 DEF Configured
<1>12. CASE ~(options["host_header_rewrite"] = TRUE /\ url.host # "")
  <2>1. ForForwardingTo(options, url) = p
    BY <1>9, <1>12
  <2> QED
    BY <1>1, <1>2, <1>3, <1>4, <1>7, <1>10, <1>12, <2>1 DEF Configured
<1> QED
  BY <1>11, <1>12
----------------------------------------------------------------------------
(* A request says what the options say.                                    *)

\* An optional message says what was put in it.
LEMMA GivenPresent ==
  ASSUME NEW x, NEW empty
  PROVE  Given(Present(x, empty), empty) = x
BY DEF Given, Present

\* Two lists in one message.
LEMMA HalfPresent ==
  ASSUME NEW a, NEW b, NEW p, p = Present(<<a, b>>, <<<<>>, <<>>>>)
  PROVE  Half(p, 1) = a /\ Half(p, 2) = b
<1>1. Given(p, <<<<>>, <<>>>>) = <<a, b>>
  BY GivenPresent
<1> QED
  BY <1>1 DEF Half

\* The headers of a message.
LEMMA HeadersPresent ==
  ASSUME NEW added, NEW removed, NEW h, h = HeaderProto(added, removed)
  PROVE  Added(h) = AsPairs(added) /\ Removed(h) = removed
<1>1. Given(h, NoHeaders) = [add |-> {<<n, added[n]>> : n \in DOMAIN added}, remove |-> removed]
  BY GivenPresent DEF HeaderProto
<1> QED
  BY <1>1 DEF Added, Removed, AsPairs

\* The fields of the options of an endpoint, but the name the service gives.
CommonFields(p, o) ==
  /\ p.proxy_proto = OrElse(o["proxy_proto"], 0)
  /\ p.ip_restriction = IpRestriction(o) /\ p.traffic_policy = PolicyWrapper(o)
HttpFields(p, o) ==
  /\ p.domain = Name(o["domain"]) /\ p.compression = o["compression"]
  /\ p.oauth = o["oauth"] /\ p.oidc = o["oidc"]
  /\ p.websocket = o["websocket_tcp_conversion"] /\ p.webhook = o["webhook_verification"]
  /\ p.circuit_breaker = Present(OrElse(o["circuit_breaker"], 0), 0)
  /\ p.basic_auth = Present(o["basic_auth"], <<>>) /\ p.mutual_tls = Present(o["mutual_tlsca"], <<>>)
  /\ p.user_agent = UserAgentFilter(o)
  /\ p.request_headers = HeaderProto(o["request_header"], o["remove_request_header"])
  /\ p.response_headers = HeaderProto(o["response_header"], o["remove_response_header"])
TlsFields(p, o) ==
  /\ p.domain = Name(o["domain"]) /\ p.mutual_tls = Present(o["mutual_tlsca"], <<>>)
  /\ p.tls_termination = o["termination"]
TcpFields(p, o) == o["remote_addr"] # Unset => p.addr = Name(o["remote_addr"])
Fields(p, o) ==
  /\ CommonFields(p, o)
  /\ kind = "http" => HttpFields(p, o)
  /\ kind = "tls" => TlsFields(p, o)
  /\ kind = "tcp" => TcpFields(p, o)

\* Where the service is asked to keep the tunnel, in options answered.
Kept(p, addr) == IF p.variant = "Tcp" THEN p.addr = addr ELSE p.hostname = addr

\* The options sent, and those the service answered and the next bind repeats.
LEMMA OptsFields ==
  ASSUME kind \in {"http", "tcp", "tls"}, NEW o, NEW t, NEW addr, addr = Address(Opts(kind, o), t),
         NEW kept, kept = KeptOpts(Opts(kind, o), AnsweredOpts(Opts(kind, o), addr))
  PROVE  Fields(Opts(kind, o), o) /\ Fields(kept, o) /\ addr # <<>> /\ Kept(kept, addr)
<1>1. CASE kind = "http"
  <2>1. PICK p : p = HttpEndpoint(o)
    OBVIOUS
  <2>2. Opts(kind, o) = p
    BY <1>1, <2>1 DEF Opts
  <2>3. CommonFields(p, o) /\ HttpFields(p, o) /\ p.variant = "Http" /\ "hostname" \in DOMAIN p
    BY <2>1 DEF HttpEndpoint, CommonFields, HttpFields
  <2>4. kept = [p EXCEPT !.hostname = addr]
    BY <2>2, <2>3 DEF KeptOpts, AnsweredOpts
  <2>5. CommonFields(kept, o) /\ HttpFields(kept, o) /\ kept.variant = "Http" /\ kept.hostname = addr
    BY <2>3, <2>4 DEF CommonFields, HttpFields
  <2>6. addr # <<>>
    BY <2>2, <2>3 DEF Address
  <2> QED
    BY <1>1, <2>2, <2>3, <2>5, <2>6 DEF Fields, Kept
<1>2. CASE kind = "tls"
  <2>1. PICK p : p = TlsEndpoint(o)
    OBVIOUS
  <2>2. Opts(kind, o) = p
    BY <1>2, <2>1 DEF Opts
  <2>3. CommonFields(p, o) /\ TlsFields(p, o) /\ p.variant = "Tls" /\ "hostname" \in DOMAIN p
    BY <2>1 DEF TlsEndpoint, CommonFields, TlsFields
  <2>4. kept = [p EXCEPT !.hostname = addr]
    BY <2>2, <2>3 DEF KeptOpts, AnsweredOpts
  <2>5. CommonFields(kept, o) /\ TlsFields(kept, o) /\ kept.variant = "Tls" /\ kept.hostname = addr
    BY <2>3, <2>4 DEF CommonFields, TlsFields
  <2>6. addr # <<>>
    BY <2>2, <2>3 DEF Address
  <2> QED
    BY <1>2, <2>2, <2>3, <2>5, <2>6 DEF Fields, Kept
<1>3. CASE kind = "tcp"
  <2>1. PICK p : p = TcpEndpoint(o)
    OBVIOUS
  <2>2. Opts(kind, o) = p
    BY <1>3, <2>1 DEF Opts
  <2>3. /\ CommonFields(p, o) /\ p.addr = Name(o["remote_addr"]) /\ p.variant = "Tcp"
        /\ "addr" \in DOMAIN p
    BY <2>1 DEF TcpEndpoint, CommonFields
  <2>4. kept = [p EXCEPT !.addr = addr]
    BY <2>2, <2>3 DEF KeptOpts, AnsweredOpts
  <2>5. CommonFields(kept, o) /\ kept.variant = "Tcp" /\ kept.addr = addr
    BY <2>3, <2>4 DEF CommonFields
  <2>6. addr = IF p.addr # <<>> THEN p.addr ELSE <<"given", Connects, t>>
    BY <2>2, <2>3 DEF Address
  <2>7. addr # <<>>
    BY <2>6
  <2>8. o["remote_addr"] # Unset => addr = Name(o["remote_addr"])
    BY <2>3, <2>6 DEF Name
  <2> QED
    BY <1>3, <2>2, <2>3, <2>5, <2>7, <2>8 DEF Fields, Kept, TcpFields
<1> QED
  BY <1>1, <1>2, <1>3

\* A request with these fields, for an endpoint.
Requests(r, o) ==
  /\ r.forwards_to = ForwardsTo(o) /\ r.forwards_proto = ForwardsProto(kind, o)
  /\ r.proto = Proto(kind, o) /\ Fields(r.opts, o)
  /\ r.extra.metadata = OrElse(o["metadata"], "") /\ r.extra.bindings = OrElse(o["binding"], "")
  /\ r.extra.pooling = OrElse(o["pooling_enabled"], FALSE)

\* The settings used below, by the shape of their values.
LEMMA SettingsAre ==
  /\ {"allow_cidr", "deny_cidr", "mutual_tlsca", "basic_auth", "allow_user_agent",
      "deny_user_agent", "remove_request_header", "remove_response_header"}
       \subseteq (Settings \cap Lists) \ {"forwards_to", "request_header"}
  /\ {"response_header", "label"} \subseteq (Settings \cap Tables) \ {"forwards_to", "request_header"}
  /\ {"metadata", "binding", "pooling_enabled", "proxy_proto", "traffic_policy", "scheme", "domain",
      "compression", "oauth", "oidc", "websocket_tcp_conversion", "webhook_verification",
      "circuit_breaker", "termination", "remote_addr", "app_protocol"}
       \subseteq Plain \ {"forwards_to", "request_header"}
  /\ "forwards_to" \in Plain /\ Plain \subseteq Settings /\ "policy" \in Settings
  /\ Lists \cap Tables = {} /\ "policy" \notin Lists \cup Tables
BY DEF Plain, Lists, Tables, Settings, AllKinds, SettingsOf, HttpSettings, TcpSettings, TlsSettings,
       LabeledSettings, EndpointSettings

\* What the options hold, by the shape of the setting.
LEMMA ConfiguredHolds ==
  ASSUME BuilderInv, NEW o, NEW url, Configured(o, url)
  PROVE  /\ \A s \in (Settings \cap Lists) \ {"forwards_to", "request_header"} :
              o[s] = ListOf(calls, s)
         /\ \A s \in (Settings \cap Tables) \ {"forwards_to", "request_header"} :
              o[s] = TableOf(calls, s)
         /\ \A s \in Plain \ {"forwards_to", "request_header"} : o[s] = LastOf(calls, s, Unset)
         /\ o["policy"] = PolicyOf(calls)
<1>1. Lists \cap Tables = {} /\ Plain \subseteq Settings /\ "policy" \in Settings
  BY SettingsAre
<1> QED
  BY <1>1 DEF Configured, Intent, Plain, Lists, Tables

\* And with a default.
LEMMA ConfiguredOrElse ==
  ASSUME BuilderInv, NEW o, NEW url, Configured(o, url),
         NEW s \in Plain \ {"forwards_to", "request_header"}, NEW d
  PROVE  OrElse(o[s], d) = LastOf(calls, s, d)
<1>1. o[s] = Intent(calls, s)
  BY DEF Configured, Plain
<1> QED
  BY <1>1, PlainIsLast

\* Where to.
LEMMA SaysWhereTo ==
  ASSUME BuilderInv, NEW o, NEW url, Configured(o, url)
  PROVE  ForwardsTo(o) = IF url # Unset THEN url ELSE LastOf(calls, "forwards_to", DefaultForwardsTo)
<1>1. CASE url # Unset
  BY <1>1 DEF ForwardsTo, Configured, OrElse
<1>2. CASE url = Unset
  <2>1. o["forwards_to"] = Intent(calls, "forwards_to")
    BY <1>2 DEF Configured
  <2> QED
    BY <1>2, <2>1, PlainIsLast, SettingsAre DEF ForwardsTo
<1> QED
  BY <1>1, <1>2

LEMMA SaysCommonly ==
  ASSUME BuilderInv, NEW o, NEW url, Configured(o, url),
         NEW r, r.forwards_to = ForwardsTo(o), r.forwards_proto = ForwardsProto(kind, o)
  PROVE  SaysCommon(calls, url, r)
<1>1. kind \in {"http", "tcp", "tls", "labeled"}
  BY ConfigAssumption DEF BuilderInv, AllKinds
<1>2. OrElse(o["app_protocol"], "") = LastOf(calls, "app_protocol", "")
  BY ConfiguredOrElse, SettingsAre
<1>3. ForwardsProto(kind, o) = LastOf(calls, "app_protocol", "")
  BY <1>1, <1>2, NoAppProtocol DEF ForwardsProto
<1> QED
  BY <1>3, SaysWhereTo DEF SaysCommon

LEMMA SaysForEndpoint ==
  ASSUME BuilderInv, NEW o, NEW url, Configured(o, url), NEW r, Requests(r, o)
  PROVE  SaysEndpoint(calls, r)
<1>1. /\ r.extra.metadata = LastOf(calls, "metadata", "")
      /\ r.extra.bindings = LastOf(calls, "binding", "")
      /\ r.extra.pooling = LastOf(calls, "pooling_enabled", FALSE)
      /\ r.opts.proxy_proto = LastOf(calls, "proxy_proto", 0)
  <2>1. {"metadata", "binding", "pooling_enabled", "proxy_proto"}
          \subseteq Plain \ {"forwards_to", "request_header"}
    BY SettingsAre
  <2>2. /\ OrElse(o["metadata"], "") = LastOf(calls, "metadata", "")
        /\ OrElse(o["binding"], "") = LastOf(calls, "binding", "")
        /\ OrElse(o["pooling_enabled"], FALSE) = LastOf(calls, "pooling_enabled", FALSE)
        /\ OrElse(o["proxy_proto"], 0) = LastOf(calls, "proxy_proto", 0)
    BY <2>1, ConfiguredOrElse
  <2> QED
    BY <2>2 DEF Requests, Fields, CommonFields
<1>2. o["allow_cidr"] = ListOf(calls, "allow_cidr") /\ o["deny_cidr"] = ListOf(calls, "deny_cidr")
  BY ConfiguredHolds, SettingsAre
<1>3. /\ Half(r.opts.ip_restriction, 1) = ListOf(calls, "allow_cidr")
      /\ Half(r.opts.ip_restriction, 2) = ListOf(calls, "deny_cidr")
  <2>1. r.opts.ip_restriction = Present(<<o["allow_cidr"], o["deny_cidr"]>>, <<<<>>, <<>>>>)
    BY DEF Requests, Fields, CommonFields, IpRestriction
  <2> QED
    BY <1>2, <2>1, HalfPresent
<1>4. o["traffic_policy"] = LastOf(calls, "traffic_policy", Unset) /\ o["policy"] = PolicyOf(calls)
  BY ConfiguredHolds, SettingsAre
<1>5. r.opts.traffic_policy = IntendedPolicy(calls)
  BY <1>4 DEF Requests, Fields, CommonFields, PolicyWrapper, IntendedPolicy
<1> QED
  BY <1>1, <1>3, <1>5 DEF SaysEndpoint

LEMMA SaysForHttp ==
  ASSUME BuilderInv, kind = "http", NEW o, NEW url, Configured(o, url), NEW r, Requests(r, o)
  PROVE  SaysHttp(calls, url, r)
<1>1. HttpFields(r.opts, o) /\ r.proto = OrElse(o["scheme"], "https")
  BY DEF Requests, Fields, Proto
<1>2. r.proto = LastOf(calls, "scheme", "https")
  BY <1>1, ConfiguredOrElse, SettingsAre
<1>3. /\ \A s \in {"domain", "compression", "oauth", "oidc", "websocket_tcp_conversion",
                   "webhook_verification"} : o[s] = LastOf(calls, s, Unset)
  BY ConfiguredHolds, SettingsAre
<1>4. /\ r.opts.domain = Name(LastOf(calls, "domain", Unset))
      /\ r.opts.compression = LastOf(calls, "compression", Unset)
      /\ r.opts.oauth = LastOf(calls, "oauth", Unset) /\ r.opts.oidc = LastOf(calls, "oidc", Unset)
      /\ r.opts.websocket = LastOf(calls, "websocket_tcp_conversion", Unset)
      /\ r.opts.webhook = LastOf(calls, "webhook_verification", Unset)
  BY <1>1, <1>3 DEF HttpFields
<1>5. Given(r.opts.circuit_breaker, 0) = LastOf(calls, "circuit_breaker", 0)
  <2>1. OrElse(o["circuit_breaker"], 0) = LastOf(calls, "circuit_breaker", 0)
    BY ConfiguredOrElse, SettingsAre
  <2> QED
    BY <1>1, <2>1, GivenPresent DEF HttpFields
<1>6. \A s \in {"mutual_tlsca", "basic_auth", "allow_user_agent", "deny_user_agent",
                "remove_request_header", "remove_response_header"} : o[s] = ListOf(calls, s)
  BY ConfiguredHolds, SettingsAre
<1>7. /\ Given(r.opts.basic_auth, <<>>) = ListOf(calls, "basic_auth")
      /\ Given(r.opts.mutual_tls, <<>>) = ListOf(calls, "mutual_tlsca")
  BY <1>1, <1>6, GivenPresent DEF HttpFields
<1>8. /\ Half(r.opts.user_agent, 1) = ListOf(calls, "allow_user_agent")
      /\ Half(r.opts.user_agent, 2) = ListOf(calls, "deny_user_agent")
  BY <1>1, <1>6, HalfPresent DEF HttpFields, UserAgentFilter
<1>9. /\ o["request_header"] = IntendedHeaders(calls, url)
      /\ o["response_header"] = TableOf(calls, "response_header")
  BY ConfiguredHolds, SettingsAre DEF Configured
<1>10. /\ Added(r.opts.request_headers) = AsPairs(IntendedHeaders(calls, url))
       /\ Added(r.opts.response_headers) = AsPairs(TableOf(calls, "response_header"))
       /\ Removed(r.opts.request_headers) = ListOf(calls, "remove_request_header")
       /\ Removed(r.opts.response_headers) = ListOf(calls, "remove_response_header")
  BY <1>1, <1>6, <1>9, HeadersPresent DEF HttpFields
<1> QED
  BY <1>2, <1>4, <1>5, <1>7, <1>8, <1>10 DEF SaysHttp

LEMMA SaysForTls ==
  ASSUME BuilderInv, kind = "tls", NEW o, NEW url, Configured(o, url), NEW r, Requests(r, o)
  PROVE  SaysTls(calls, r)
<1>1. TlsFields(r.opts, o)
  BY DEF Requests, Fields
<1>2. /\ \A s \in {"domain", "termination"} : o[s] = LastOf(calls, s, Unset)
      /\ o["mutual_tlsca"] = ListOf(calls, "mutual_tlsca")
  BY ConfiguredHolds, SettingsAre
<1>3. Given(r.opts.mutual_tls, <<>>) = ListOf(calls, "mutual_tlsca")
  BY <1>1, <1>2, GivenPresent DEF TlsFields
<1> QED
  BY <1>1, <1>2, <1>3 DEF SaysTls, TlsFields

LEMMA SaysForTcp ==
  ASSUME BuilderInv, kind = "tcp", NEW o, NEW url, Configured(o, url), NEW r, Requests(r, o)
  PROVE  SaysTcp(calls, r)
<1>1. o["remote_addr"] = LastOf(calls, "remote_addr", Unset)
  BY ConfiguredHolds, SettingsAre
<1> QED
  BY <1>1 DEF SaysTcp, Requests, Fields, TcpFields

\* A request for an endpoint says what was said.
LEMMA EndpointSays ==
  ASSUME BuilderInv, kind \in {"http", "tcp", "tls"}, NEW o, NEW url, Configured(o, url),
         NEW r, Requests(r, o)
  PROVE  Says(calls, url, r)
<1>1. SaysCommon(calls, url, r)
  BY SaysCommonly DEF Requests
<1>2. SaysEndpoint(calls, r)
  BY SaysForEndpoint
<1>3. /\ kind = "http" => SaysHttp(calls, url, r)
      /\ kind = "tls" => SaysTls(calls, r)
      /\ kind = "tcp" => SaysTcp(calls, r)
  BY SaysForHttp, SaysForTls, SaysForTcp
<1> QED
  BY <1>1, <1>2, <1>3 DEF Says

\* So does one for a labeled tunnel.
LEMMA LabeledSays ==
  ASSUME BuilderInv, kind = "labeled", NEW o, NEW url, Configured(o, url), NEW r,
         r.forwards_to = ForwardsTo(o), r.forwards_proto = ForwardsProto(kind, o),
         r.metadata = OrElse(o["metadata"], ""), r.labels = o["label"]
  PROVE  Says(calls, url, r)
<1>1. SaysCommon(calls, url, r)
  BY SaysCommonly
<1>2. r.metadata = LastOf(calls, "metadata", "")
  <2>1. "metadata" \in Plain \ {"forwards_to", "request_header"}
    BY SettingsAre
  <2>2. OrElse(o["metadata"], "") = LastOf(calls, "metadata", "")
    BY <2>1, ConfiguredOrElse
  <2> QED
    BY <2>2
<1>3. r.labels = TableOf(calls, "label")
  <2>1. "label" \in (Settings \cap Tables) \ {"forwards_to", "request_header"}
    BY SettingsAre
  <2>2. o["label"] = TableOf(calls, "label")
    BY <2>1, ConfiguredHolds
  <2> QED
    BY <2>2
<1> QED
  BY <1>1, <1>2, <1>3 DEF Says, SaysLabeled
----------------------------------------------------------------------------
(* Tunnels and connections of the session.                                 *)

\* What the next reconnect sends for a tunnel.
RequestOf(b, key) ==
  IF b.proto # ""
  THEN BindReq(key, b.proto, b.opts, b.extra, b.forwards_to, b.forwards_proto)
  ELSE LabelReq(b.labels, b.extra.metadata, b.forwards_to, b.forwards_proto)

\* What was sent for a tunnel, and what will be, says what was said before it was
\* started; an endpoint stays where it is, under its id and with its token.
SaidInv(tun, t) ==
  /\ \A i \in DOMAIN tun.sent : Says(tun.said, tun.url, tun.sent[i])
  /\ \A key : Says(tun.said, tun.url, RequestOf(tun.bound, key))
  /\ tun.addr = tun.info.url
  /\ kind # "labeled" =>
       /\ tun.key \in {<<>>, tun.info.id} /\ tun.info.url # <<>> /\ Kept(tun.bound.opts, tun.info.url)
       /\ tun.bound.extra.token = <<"token", t>>
       /\ \A i \in 2..Len(tun.sent) :
            tun.sent[i].id = tun.info.id /\ tun.sent[i].extra.token = <<"token", t>>
SaidsInv == \A t \in DOMAIN tuns : SaidInv(tuns[t], t)

\* The session in use is the last that was: none authenticated since was used.
AuthInv ==
  /\ IsSeq(auths) /\ auth \in 1..Len(auths) /\ auths[auth].used
  /\ \A j \in (auth + 1)..Len(auths) : ~auths[j].used
  /\ IdentityKept

ConfigInv == OptionsInv /\ SaidsInv /\ AuthInv

\* A sequence of one has one index.
LEMMA OneIndex ==
  ASSUME NEW e, NEW s, s = <<e>>
  PROVE  /\ Len(s) = 1 /\ DOMAIN s = {1} /\ s[1] = e
         /\ \A i \in 2..Len(s) : FALSE
<1>1. Len(<<e>>) = 1 /\ DOMAIN <<e>> = {1} /\ <<e>>[1] = e
  OBVIOUS
<1>2. \A n \in Int : n = 1 => \A i \in 2..n : FALSE
  OBVIOUS
<1>3. \A i \in 2..Len(s) : FALSE
  BY <1>1, <1>2
<1> QED
  BY <1>1, <1>3

\* An endpoint that is started.
LEMMA EndpointSaid ==
  ASSUME BuilderInv, kind \in {"http", "tcp", "tls"}, NEW o, NEW url, Configured(o, url),
         Proto(kind, o) # "", NEW t, NEW tun, tun = StartedEndpoint(o, t, url)
  PROVE  SaidInv(tun, t)
<1>1. PICK req, opts, addr, kept :
        /\ opts = Opts(kind, o) /\ addr = Address(opts, t)
        /\ req = BindReq(<<>>, Proto(kind, o), opts, Extra(o), ForwardsTo(o), ForwardsProto(kind, o))
        /\ kept = KeptOpts(opts, AnsweredOpts(opts, addr))
  OBVIOUS
<1>2. Fields(opts, o) /\ Fields(kept, o) /\ addr # <<>> /\ Kept(kept, addr)
  BY <1>1, OptsFields
<1>3. PICK extra : extra = [Extra(o) EXCEPT !.token = <<"token", t>>]
  OBVIOUS
<1>4. /\ req.proto = Proto(kind, o) /\ req.opts = opts /\ req.extra = Extra(o)
      /\ req.forwards_to = ForwardsTo(o) /\ req.forwards_proto = ForwardsProto(kind, o)
  BY <1>1 DEF BindReq
<1>5. /\ tun.said = calls /\ tun.url = url /\ tun.sent = <<req>> /\ tun.addr = addr
      /\ tun.key = FreshId(t) /\ tun.info.id = FreshId(t) /\ tun.info.url = addr
      /\ tun.bound.proto = Proto(kind, o) /\ tun.bound.opts = kept /\ tun.bound.extra = extra
      /\ tun.bound.forwards_to = ForwardsTo(o)
      /\ tun.bound.forwards_proto = ForwardsProto(kind, o)
  BY <1>1, <1>3, <1>4 DEF StartedEndpoint
<1>6. /\ Extra(o).metadata = OrElse(o["metadata"], "") /\ Extra(o).bindings = OrElse(o["binding"], "")
      /\ Extra(o).pooling = OrElse(o["pooling_enabled"], FALSE)
      /\ extra.metadata = OrElse(o["metadata"], "") /\ extra.bindings = OrElse(o["binding"], "")
      /\ extra.pooling = OrElse(o["pooling_enabled"], FALSE) /\ extra.token = <<"token", t>>
  BY <1>3 DEF Extra
<1>7. Says(calls, url, req)
  <2>1. Requests(req, o)
    BY <1>2, <1>4, <1>6 DEF Requests
  <2> QED
    BY <2>1, EndpointSays
<1>8. ASSUME NEW key PROVE Says(calls, url, RequestOf(tun.bound, key))
  <2>1. PICK r : r = RequestOf(tun.bound, key)
    OBVIOUS
  <2>2. r = BindReq(key, Proto(kind, o), kept, extra, ForwardsTo(o), ForwardsProto(kind, o))
    BY <1>5, <2>1 DEF RequestOf
  <2>3. Requests(r, o)
    BY <1>2, <1>6, <2>2 DEF Requests, BindReq
  <2> QED
    BY <2>1, <2>3, EndpointSays
<1>9. Len(tun.sent) = 1 /\ DOMAIN tun.sent = {1} /\ tun.sent[1] = req
  BY <1>5, OneIndex
<1>10. /\ tun.addr = tun.info.url /\ tun.key \in {<<>>, tun.info.id} /\ tun.info.url # <<>>
       /\ Kept(tun.bound.opts, tun.info.url) /\ tun.bound.extra.token = <<"token", t>>
  BY <1>2, <1>5, <1>6
<1>11. tun.said = calls /\ tun.url = url
  BY <1>5
<1>12. \A i \in 2..Len(tun.sent) : FALSE
  BY <1>5, OneIndex
<1> QED
  BY <1>7, <1>8, <1>9, <1>10, <1>11, <1>12 DEF SaidInv

\* A labeled tunnel that is started.
LEMMA LabeledSaid ==
  ASSUME BuilderInv, kind = "labeled", NEW o, NEW url, Configured(o, url),
         NEW t, NEW tun, tun = StartedLabeled(o, t, url)
  PROVE  SaidInv(tun, t)
<1>1. PICK req : req = LabelReq(o["label"], Extra(o).metadata, ForwardsTo(o), ForwardsProto(kind, o))
  OBVIOUS
<1>2. /\ req.forwards_to = ForwardsTo(o) /\ req.forwards_proto = ForwardsProto(kind, o)
      /\ req.metadata = OrElse(o["metadata"], "") /\ req.labels = o["label"]
  BY <1>1 DEF LabelReq, Extra
<1>3. Says(calls, url, req)
  BY <1>2, LabeledSays
<1>4. /\ tun.said = calls /\ tun.url = url /\ tun.sent = <<req>> /\ tun.addr = <<>>
      /\ tun.info.url = <<>>
      /\ tun.bound.proto = "" /\ tun.bound.extra = Extra(o) /\ tun.bound.labels = o["label"]
      /\ tun.bound.forwards_to = ForwardsTo(o)
      /\ tun.bound.forwards_proto = ForwardsProto(kind, o)
  BY <1>1 DEF StartedLabeled, LabelReq
<1>5. \A key : RequestOf(tun.bound, key) = req
  BY <1>1, <1>4 DEF RequestOf
<1>6. DOMAIN tun.sent = {1} /\ tun.sent[1] = req
  BY <1>4, OneIndex
<1>7. tun.said = calls /\ tun.url = url /\ tun.addr = tun.info.url
  BY <1>4
<1> QED
  BY <1>3, <1>5, <1>6, <1>7 DEF SaidInv

\* A tunnel that is bound again.
LEMMA ReboundSaid ==
  ASSUME BuilderInv, NEW tun, NEW t, TunInv(tun), SaidInv(tun, t), tun.key # <<>>, NEW newId
  PROVE  SaidInv(Rebound(tun, t, newId), t)
<1>1. PICK new, b, req : new = Rebound(tun, t, newId) /\ b = tun.bound /\ req = RequestOf(b, tun.key)
  OBVIOUS
<1>2. kind \in {"http", "tcp", "tls", "labeled"}
  BY ConfigAssumption DEF BuilderInv, AllKinds
<1>3. b.proto = "" <=> kind = "labeled"
  BY <1>1, <1>2 DEF TunInv, BoundInv, ProtoInv
<1>4. /\ new.bound = b /\ new.url = tun.url /\ new.said = tun.said /\ new.info = tun.info
      /\ new.sent = Append(tun.sent, req) /\ (kind # "labeled" => new.key = tun.key)
      /\ new.addr = IF kind = "labeled" THEN tun.addr ELSE Address(b.opts, t)
  <2>1. {"key", "sent", "addr"} \subseteq DOMAIN tun
    BY DEF TunInv
  <2>2. CASE kind # "labeled"
    <3>1. new = [tun EXCEPT !.sent = Append(@, req), !.addr = Address(b.opts, t)]
      BY <1>1, <1>3, <2>2 DEF Rebound, RequestOf
    <3> QED
      BY <1>1, <2>1, <2>2, <3>1
  <2>3. CASE kind = "labeled"
    <3>1. new = [tun EXCEPT !.sent = Append(@, req), !.key = IF newId THEN FreshId(t) ELSE tun.key]
      BY <1>1, <1>3, <2>3 DEF Rebound, RequestOf
    <3> QED
      BY <1>1, <2>1, <2>3, <3>1
  <2> QED
    BY <2>2, <2>3
<1>5. /\ Len(tun.sent) \in Nat /\ DOMAIN tun.sent = 1..Len(tun.sent)
      /\ Len(new.sent) = Len(tun.sent) + 1 /\ DOMAIN new.sent = 1..(Len(tun.sent) + 1)
      /\ new.sent[Len(tun.sent) + 1] = req
      /\ \A i \in DOMAIN tun.sent : new.sent[i] = tun.sent[i]
  BY <1>4, AppendAt, SeqAt DEF TunInv
<1>6. \A i \in DOMAIN new.sent : Says(tun.said, tun.url, new.sent[i])
  BY <1>1, <1>5 DEF SaidInv
<1>7. new.addr = tun.info.url
  <2>1. CASE kind = "labeled"
    BY <1>4, <2>1 DEF SaidInv
  <2>2. CASE kind # "labeled"
    <3>1. tun.info.url # <<>> /\ Kept(b.opts, tun.info.url)
      BY <1>1, <2>2 DEF SaidInv
    <3>2. Address(b.opts, t) = tun.info.url
      BY <3>1 DEF Address, Kept
    <3> QED
      BY <1>4, <2>2, <3>2
  <2> QED
    BY <2>1, <2>2
<1>8. ASSUME kind # "labeled"
      PROVE  /\ new.key \in {<<>>, tun.info.id} /\ tun.info.url # <<>> /\ Kept(b.opts, tun.info.url)
             /\ b.extra.token = <<"token", t>>
             /\ \A i \in 2..Len(new.sent) :
                  new.sent[i].id = tun.info.id /\ new.sent[i].extra.token = <<"token", t>>
  <2>1. /\ tun.key = tun.info.id /\ tun.info.url # <<>> /\ Kept(b.opts, tun.info.url)
        /\ b.extra.token = <<"token", t>>
        /\ \A i \in 2..Len(tun.sent) :
             tun.sent[i].id = tun.info.id /\ tun.sent[i].extra.token = <<"token", t>>
    BY <1>1, <1>8 DEF SaidInv
  <2>2. req.id = tun.info.id /\ req.extra.token = <<"token", t>>
    BY <1>1, <1>3, <1>8, <2>1 DEF RequestOf, BindReq
  <2>3. \A i \in 2..Len(new.sent) : i \in 2..Len(tun.sent) \/ i = Len(tun.sent) + 1
    BY <1>5
  <2>4. \A i \in 2..Len(tun.sent) : i \in DOMAIN tun.sent
    BY <1>5
  <2> QED
    BY <1>4, <1>5, <1>8, <2>1, <2>2, <2>3, <2>4
<1>9. \A key : Says(tun.said, tun.url, RequestOf(b, key))
  BY <1>1 DEF SaidInv
<1> QED
  BY <1>1, <1>4, <1>6, <1>7, <1>8, <1>9 DEF SaidInv

\* A tunnel whose key is given up, or stays.
LEMMA KeyedSaid ==
  ASSUME NEW tun, NEW t, TunInv(tun), SaidInv(tun, t), NEW k \in {<<>>, tun.key}
  PROVE  SaidInv([tun EXCEPT !.key = k], t)
<1>1. PICK new : new = [tun EXCEPT !.key = k]
  OBVIOUS
<1>2. /\ new.sent = tun.sent /\ new.said = tun.said /\ new.url = tun.url /\ new.bound = tun.bound
      /\ new.addr = tun.addr /\ new.info = tun.info /\ new.key = k
  BY <1>1 DEF TunInv
<1>3. SaidInv(new, t)
  BY <1>2 DEF SaidInv
<1> QED
  BY <1>1, <1>3

\* Nothing here looks at what a step changes but the tunnels.
LEMMA SaidSame ==
  ASSUME UNCHANGED kind, NEW tun, NEW t, SaidInv(tun, t)
  PROVE  SaidInv(tun, t)'
BY DEF SaidInv, Says, SaysCommon, SaysEndpoint, SaysHttp, SaysTls, SaysTcp, SaysLabeled
----------------------------------------------------------------------------
(* The steps.                                                              *)

\* The tunnels after a step.
LEMMA SaidsAfter ==
  ASSUME UNCHANGED kind, \A t \in DOMAIN tuns' : SaidInv(tuns'[t], t)
  PROVE  SaidsInv'
<1>1. ASSUME NEW t \in DOMAIN tuns' PROVE SaidInv(tuns[t], t)'
  <2>1. PICK x : x = tuns'[t]
    OBVIOUS
  <2>2. SaidInv(x, t)
    BY <2>1
  <2>3. SaidInv(x, t)'
    BY <2>2, SaidSame
  <2> QED
    BY <2>1, <2>3
<1> QED
  BY <1>1 DEF SaidsInv

\* A builder nobody calls, tunnels nobody touches, a session nobody connects.
LEMMA OptionsSame == ASSUME OptionsInv, UNCHANGED <<options, calls>> PROVE OptionsInv'
BY DEF OptionsInv
LEMMA SaidsSame == ASSUME SaidsInv, UNCHANGED <<kind, tuns>> PROVE SaidsInv'
BY SaidsAfter DEF SaidsInv
LEMMA AuthSame == ASSUME AuthInv, UNCHANGED <<auths, auth>> PROVE AuthInv'
BY DEF AuthInv, IdentityKept, IsSeq, RangeOf
LEMMA ConfigSame == ASSUME ConfigInv, UNCHANGED configVars PROVE ConfigInv'
BY OptionsSame, SaidsSame, AuthSame DEF ConfigInv, configVars

\* A setter call.
LEMMA SetConfig ==
  ASSUME ForwardInv, ConfigInv, NEW c \in Plans[plan].calls, Set(c)
  PROVE  ConfigInv'
<1>1. /\ UNCHANGED <<kind, tuns, auths, auth>> /\ options' = Apply(options, c)
      /\ calls' = Append(calls, c)
  BY DEF Set
<1>2. c.set \in Settings /\ BuilderInv /\ OptionsInv
  BY ConfigAssumption DEF ForwardInv, BuilderInv, ConfigInv
<1>3. \A s \in Settings : options'[s] = Intent(calls', s)
  BY <1>1, <1>2, ApplyIntent
<1>4. OptionsInv'
  BY <1>3 DEF OptionsInv
<1> QED
  BY <1>1, <1>4, SaidsSame, AuthSame DEF ConfigInv

\* A tunnel that is started.
LEMMA StartConfig ==
  ASSUME ForwardInv, ConfigInv, NEW o, NEW url, Configured(o, url),
         o["scheme"] = options["scheme"], StartTunnel(o, url),
         UNCHANGED <<plan, kind, options, calls, auths, auth>>
  PROVE  ConfigInv'
<1>1. PICK n : n = Len(tuns) + 1
  OBVIOUS
<1>2. PICK tun : tun = IF Proto(kind, o) # "" THEN StartedEndpoint(o, n, url)
                       ELSE StartedLabeled(o, n, url)
  OBVIOUS
<1>3. BuilderInv
  BY DEF ForwardInv
<1>4. /\ kind \in {"http", "tcp", "tls", "labeled"}
      /\ kind # "labeled" => Proto(kind, o) # ""
      /\ kind = "labeled" => Proto(kind, o) = ""
  BY <1>3, ProtoIs
<1>5. SaidInv(tun, n)
  <2>1. CASE kind = "labeled"
    <3>1. tun = StartedLabeled(o, n, url)
      BY <1>2, <1>4, <2>1
    <3> QED
      BY <1>3, <2>1, <3>1, LabeledSaid
  <2>2. CASE kind # "labeled"
    <3>1. tun = StartedEndpoint(o, n, url) /\ kind \in {"http", "tcp", "tls"}
      BY <1>2, <1>4, <2>2
    <3> QED
      BY <1>3, <1>4, <2>2, <3>1, EndpointSaid
  <2> QED
    BY <2>1, <2>2
<1>6. tuns' = Append(tuns, tun)
  BY <1>1, <1>2 DEF StartTunnel
<1>7. /\ DOMAIN tuns' = 1..n /\ DOMAIN tuns = 1..Len(tuns) /\ Len(tuns) \in Nat
      /\ tuns'[n] = tun /\ \A t \in DOMAIN tuns : tuns'[t] = tuns[t]
  BY <1>1, <1>6, SeqAt, AppendAt DEF ForwardInv, TunsInv
<1>8. ASSUME NEW t \in DOMAIN tuns' PROVE SaidInv(tuns'[t], t)
  <2>1. t \in DOMAIN tuns \/ t = n
    BY <1>1, <1>7
  <2> QED
    BY <1>5, <1>7, <2>1 DEF ConfigInv, SaidsInv
<1> QED
  BY <1>8, SaidsAfter, OptionsSame, AuthSame DEF ConfigInv

\* An Auth request that is answered: the session that came of it is the one in use,
\* or was never used.
LEMMA AuthStep ==
  ASSUME AuthInv, NEW used \in BOOLEAN, auths' = Append(auths, [sent |-> auth, used |-> used]),
         auth' = IF used THEN Len(auths) + 1 ELSE auth
  PROVE  AuthInv'
<1>1. PICK a, n : a = [sent |-> auth, used |-> used] /\ n = Len(auths)
  OBVIOUS
<1>2. /\ IsSeq(auths') /\ Len(auths') = n + 1 /\ n \in Nat /\ DOMAIN auths = 1..n
      /\ \A i \in 1..n : auths'[i] = auths[i]
      /\ auths'[n + 1] = a
  BY <1>1, SeqAt, AppendAt DEF AuthInv
<1>3. /\ auth \in 1..n /\ auths[auth].used /\ \A j \in (auth + 1)..n : ~auths[j].used
      /\ \A i \in 2..n :
           /\ auths[i].sent \in 1..(i - 1) /\ auths[auths[i].sent].used
           /\ \A j \in (auths[i].sent + 1)..(i - 1) : ~auths[j].used
  BY <1>1 DEF AuthInv, IdentityKept
<1>4. a.sent = auth /\ a.used = used
  BY <1>1
<1>5. ASSUME NEW i \in 2..Len(auths')
      PROVE  /\ auths'[i].sent \in 1..(i - 1) /\ auths'[auths'[i].sent].used
             /\ \A j \in (auths'[i].sent + 1)..(i - 1) : ~auths'[j].used
  <2>1. CASE i = n + 1
    <3>1. auths'[i].sent = auth
      BY <1>2, <1>4, <2>1
    <3>2. i - 1 = n /\ auth \in 1..n
      BY <1>2, <1>3, <2>1
    <3>3. auths'[auth].used
      BY <1>2, <1>3
    <3>4. \A j \in (auth + 1)..n : j \in 1..n /\ ~auths'[j].used
      BY <1>2, <1>3
    <3> QED
      BY <3>1, <3>2, <3>3, <3>4
  <2>2. CASE i \in 2..n
    <3>1. auths'[i] = auths[i]
      BY <1>2, <2>2
    <3>2. PICK k : k = auths[i].sent
      OBVIOUS
    <3>3. /\ k \in 1..(i - 1) /\ auths[k].used /\ i \in 2..n
          /\ \A j \in (k + 1)..(i - 1) : ~auths[j].used
      BY <1>3, <2>2, <3>2
    <3>4. auths'[k].used /\ \A j \in (k + 1)..(i - 1) : j \in 1..n
      BY <1>2, <3>3
    <3>5. \A j \in (k + 1)..(i - 1) : ~auths'[j].used
      BY <1>2, <3>3, <3>4
    <3> QED
      BY <3>1, <3>2, <3>3, <3>4, <3>5
  <2> QED
    BY <1>2, <2>1, <2>2
<1>6. IdentityKept'
  BY <1>5 DEF IdentityKept
<1>7. /\ auth' \in 1..Len(auths') /\ auths'[auth'].used
      /\ \A j \in (auth' + 1)..Len(auths') : ~auths'[j].used
  <2>1. CASE used
    <3>1. auth' = n + 1
      BY <1>1, <2>1
    <3> QED
      BY <1>2, <1>4, <2>1, <3>1
  <2>2. CASE ~used
    <3>1. auth' = auth /\ auths'[auth].used
      BY <1>2, <1>3, <2>2
    <3>2. \A j \in (auth + 1)..(n + 1) : (j \in (auth + 1)..n /\ j \in 1..n) \/ j = n + 1
      BY <1>2, <1>3
    <3>3. \A j \in (auth + 1)..(n + 1) : ~auths'[j].used
      BY <1>2, <1>3, <1>4, <2>2, <3>2
    <3> QED
      BY <1>2, <1>3, <3>1, <3>3
  <2> QED
    BY <2>1, <2>2
<1> QED
  BY <1>2, <1>6, <1>7 DEF AuthInv

\* A reconnect that fails after it was authenticated.
LEMMA FailsConfig == ASSUME ConfigInv, ReconnectFails PROVE ConfigInv'
<1>1. /\ UNCHANGED <<kind, options, calls, tuns>> /\ auth' = auth
      /\ auths' = Append(auths, [sent |-> auth, used |-> FALSE])
  BY DEF ReconnectFails, Authenticate
<1>2. AuthInv'
  BY <1>1, AuthStep DEF ConfigInv
<1> QED
  BY <1>1, <1>2, OptionsSame, SaidsSame DEF ConfigInv

\* A reconnect, which binds again the tunnels of the map.
LEMMA ReconnectConfig ==
  ASSUME ForwardInv, ConfigInv, NEW newIds \in BOOLEAN, Reconnect(newIds)
  PROVE  ConfigInv'
<1>1. /\ UNCHANGED <<kind, options, calls>> /\ auth' = Len(auths) + 1
      /\ auths' = Append(auths, [sent |-> auth, used |-> TRUE])
      /\ tuns' = [t \in DOMAIN tuns |-> IF tuns[t].key = <<>> THEN tuns[t]
                                       ELSE Rebound(tuns[t], t, newIds)]
  BY DEF Reconnect, Authenticate, Connects
<1>2. AuthInv'
  BY <1>1, AuthStep DEF ConfigInv
<1>3. ASSUME NEW t \in DOMAIN tuns' PROVE SaidInv(tuns'[t], t)
  <2>1. PICK x : x = tuns[t]
    OBVIOUS
  <2>2. TunInv(x) /\ SaidInv(x, t) /\ BuilderInv
    BY <1>1, <2>1 DEF ForwardInv, TunsInv, ConfigInv, SaidsInv
  <2>3. tuns'[t] = IF x.key = <<>> THEN x ELSE Rebound(x, t, newIds)
    BY <1>1, <2>1
  <2>4. CASE x.key = <<>>
    BY <2>2, <2>3, <2>4
  <2>5. CASE x.key # <<>>
    <3>1. SaidInv(Rebound(x, t, newIds), t)
      BY <2>2, <2>5, ReboundSaid
    <3> QED
      BY <2>3, <2>5, <3>1
  <2> QED
    BY <2>4, <2>5
<1> QED
  BY <1>1, <1>2, <1>3, OptionsSame, SaidsAfter DEF ConfigInv

\* A tunnel that leaves the map, or stays in it.
LEMMA KeyConfig ==
  ASSUME ForwardInv, ConfigInv, NEW t \in DOMAIN tuns, NEW k \in {<<>>, tuns[t].key},
         tuns' = [tuns EXCEPT ![t].key = k],
         UNCHANGED <<plan, kind, options, calls, auths, auth>>
  PROVE  ConfigInv'
<1>1. PICK x : x = tuns[t]
  OBVIOUS
<1>2. PICK e : e = [x EXCEPT !.key = k]
  OBVIOUS
<1>3. TunInv(x) /\ SaidInv(x, t) /\ k \in {<<>>, x.key}
  BY <1>1 DEF ForwardInv, TunsInv, ConfigInv, SaidsInv
<1>4. SaidInv(e, t)
  BY <1>2, <1>3, KeyedSaid
<1>5. tuns' = [tuns EXCEPT ![t] = e]
  BY <1>1, <1>2
<1>6. ASSUME NEW u \in DOMAIN tuns' PROVE SaidInv(tuns'[u], u)
  <2>1. u \in DOMAIN tuns /\ tuns'[u] = IF u = t THEN e ELSE tuns[u]
    BY <1>5
  <2> QED
    BY <1>4, <2>1 DEF ConfigInv, SaidsInv
<1> QED
  BY <1>6, OptionsSame, SaidsAfter, AuthSame DEF ConfigInv

\* The builder and the session.
LEMMA ConfigureConfig == ASSUME ForwardInv, ConfigInv, Configure PROVE ConfigInv'
<1>1. BuilderInv /\ OptionsInv
  BY DEF ForwardInv, ConfigInv
<1>2. ASSUME NEW c \in Plans[plan].calls, Set(c) PROVE ConfigInv'
  BY <1>2, SetConfig
<1>3. CASE Listen
  <2>1. PICK o, url : o = options /\ url = Unset
    OBVIOUS
  <2>2. Configured(o, url) /\ o["scheme"] = options["scheme"]
    BY <1>1, <2>1, ListenConfigured
  <2>3. StartTunnel(o, url) /\ UNCHANGED <<plan, kind, options, calls, auths, auth>>
    BY <1>3, <2>1 DEF Listen
  <2> QED
    BY <2>2, <2>3, StartConfig
<1>4. ASSUME NEW url \in Urls, ListenAndForward(url) PROVE ConfigInv'
  <2>1. PICK o : o = ForForwardingTo(options, url)
    OBVIOUS
  <2>2. Configured(o, url) /\ o["scheme"] = options["scheme"]
    BY <1>1, <2>1, ForwardConfigured, ForwardingKeeps DEF PathSettings
  <2>3. StartTunnel(o, url) /\ UNCHANGED <<plan, kind, options, calls, auths, auth>>
    BY <1>4, <2>1 DEF ListenAndForward
  <2> QED
    BY <2>2, <2>3, StartConfig
<1>5. CASE ReconnectFails
  BY <1>5, FailsConfig
<1>6. ASSUME NEW newIds \in BOOLEAN, Reconnect(newIds) PROVE ConfigInv'
  BY <1>6, ReconnectConfig
<1> QED
  BY <1>2, <1>3, <1>4, <1>5, <1>6 DEF Configure

\* Nothing said, nothing started, one session.
LEMMA InitConfig == Init => ConfigInv
<1> SUFFICES ASSUME Init PROVE ConfigInv
  OBVIOUS
<1>1. /\ options = DefaultOptions /\ calls = <<>> /\ tuns = <<>>
      /\ auths = <<[sent |-> 0, used |-> TRUE]>> /\ auth = 1
  BY DEF Init, ConfigInit
<1>2. OptionsInv
  BY <1>1, NoIntent DEF OptionsInv
<1>3. SaidsInv
  <2>1. DOMAIN tuns = {}
    BY <1>1
  <2> QED
    BY <2>1 DEF SaidsInv
<1>4. AuthInv
  <2>1. PICK a : a = [sent |-> 0, used |-> TRUE]
    OBVIOUS
  <2>2. auths = <<a>> /\ a.used
    BY <1>1, <2>1
  <2>3. /\ Len(auths) = 1 /\ auths[1] = a /\ IsSeq(auths)
        /\ \A i \in 2..Len(auths) : FALSE
    BY <2>2, OneIndex, OneSeq
  <2>4. auth \in 1..Len(auths) /\ auths[auth].used
    BY <1>1, <2>2, <2>3
  <2>5. \A j \in (auth + 1)..Len(auths) : ~auths[j].used
    <3>1. auth + 1 = 2
      BY <1>1
    <3> QED
      BY <2>3, <3>1
  <2> QED
    BY <2>3, <2>4, <2>5 DEF AuthInv, IdentityKept
<1> QED
  BY <1>2, <1>3, <1>4 DEF ConfigInv

\* Every step keeps what was said.
LEMMA NextConfig == ForwardInv /\ ConfigInv /\ [Next]_vars => ConfigInv'
<1> SUFFICES ASSUME ForwardInv, ConfigInv, [Next]_vars PROVE ConfigInv'
  OBVIOUS
<1>1. CASE Configure
  BY <1>1, ConfigureConfig
<1>2. ASSUME NEW t \in DOMAIN tuns,
             \/ \E h \in Headers(t) : Arrive(t, h)
             \/ StopTunnel(t) \/ Loop(t)
             \/ Close(t) \/ DropForwarder(t) \/ CloseTunnel(t) \/ CloseTunnelFails(t)
      PROVE  ConfigInv'
  <2>1. CASE \/ \E h \in Headers(t) : Arrive(t, h)
             \/ Loop(t) \/ Close(t) \/ DropForwarder(t) \/ CloseTunnelFails(t)
    <3>1. UNCHANGED configVars
      BY <2>1 DEF Arrive, Loop, Take, TakeError, TakeNone, Close, DropForwarder, CloseTunnelFails
    <3> QED
      BY <3>1, ConfigSame
  <2>2. CASE StopTunnel(t)
    <3>1. PICK k \in {<<>>, tuns[t].key} : tuns' = [tuns EXCEPT ![t].key = k]
      BY <2>2 DEF StopTunnel
    <3> QED
      BY <2>2, <3>1, KeyConfig DEF StopTunnel
  <2>3. CASE CloseTunnel(t)
    <3>1. PICK k \in {<<>>, tuns[t].key} : tuns' = [tuns EXCEPT ![t].key = k]
      BY <2>3 DEF CloseTunnel
    <3> QED
      BY <2>3, <3>1, KeyConfig DEF CloseTunnel
  <2> QED
    BY <1>2, <2>1, <2>2, <2>3
<1>3. ASSUME NEW c \in DOMAIN conns, Join(c) \/ EndCopy(c) PROVE ConfigInv'
  <2>1. UNCHANGED configVars
    BY <1>3 DEF Join, EndCopy, ReadHeader, ReadHeaderFails, Dial, Handshake, ConnectFails,
                ServeGatewayError
  <2> QED
    BY <2>1, ConfigSame
<1>4. CASE UNCHANGED vars
  BY <1>4, ConfigSame DEF vars
<1> QED
  BY <1>1, <1>2, <1>3, <1>4 DEF Next

\* What was sent for a tunnel is part of what was said.
LEMMA InvConfig == ConfigInv => BoundAsSaid
<1> SUFFICES ASSUME ConfigInv PROVE BoundAsSaid
  OBVIOUS
<1>1. \A t \in DOMAIN tuns : SaidInv(tuns[t], t)
  BY DEF ConfigInv, SaidsInv
<1>2. AsConfigured
  BY <1>1 DEF AsConfigured, SaidInv
<1>3. AddressKept
  BY <1>1 DEF AddressKept, SaidInv
<1>4. IdentityKept
  BY DEF ConfigInv, AuthInv
<1> QED
  BY <1>2, <1>3, <1>4 DEF BoundAsSaid

\* For every sequence of setter calls, tunnels, reconnects, failed reconnects and
\* closes: each request for a tunnel says what the calls made before it was started
\* say, the tunnel is bound again under its id, its address and its token, and
\* every Auth carries the identity of the session in use before it.
THEOREM BindsAsSaid == Spec => []BoundAsSaid
<1>1. Init => ConfigInv
  BY InitConfig
<1>2. ForwardInv /\ ConfigInv /\ [Next]_vars => ConfigInv'
  BY NextConfig
<1>3. ConfigInv => BoundAsSaid
  BY InvConfig
<1> QED
  BY <1>1, <1>2, <1>3, Invariant, PTL DEF Spec
============================================================================
