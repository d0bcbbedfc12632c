---------------------------- MODULE TunnelConfig ----------------------------
(***************************************************************************)
(* From a builder to the bind request and back: the setters of the four    *)
(* tunnel builders, listen and listen_and_forward, the wire form of the    *)
(* options, the BoundTunnel kept for the next connection, and what         *)
(* try_reconnect sends from it.                                            *)
(*                                                                         *)
(* One builder is shared by several tunnels and goes on changing after     *)
(* they started.  The steps of start_tunnel and of a reconnect interleave  *)
(* in NgrokSession; here each is one step, and its data is kept.           *)
(***************************************************************************)
EXTENDS Naturals, Sequences, FiniteSets

CONSTANTS
  Kinds,       \* builders to look at, of AllKinds
  Urls,        \* URLs the application may forward to
  Plans,       \* bounds of one behaviour, in a sequence: the setter calls to choose
               \* from and how many, tunnels, connections of the session,
               \* connections of tunnels, and whether tunnels are closed
  Unset        \* None

VARIABLES
  plan,     \* which of the Plans
  kind,     \* the builder, and so the type of its tunnels
  options,  \* its options: a value for every setting
  calls,    \* setter calls made on it, in order
  tuns,     \* tunnels started from it, in order
  auths,    \* Auth requests answered: the identity sent, whether the session
            \* that came of it was used
  auth      \* identity (id and cookie) in the SessionBuilder of the session in use

configVars == <<plan, kind, options, calls, tuns, auths, auth>>
----------------------------------------------------------------------------
AllKinds == {"http", "tcp", "tls", "labeled"}

\* CommonOpts, for the endpoints.
EndpointSettings ==
  {"allow_cidr", "deny_cidr", "proxy_proto", "metadata", "binding", "forwards_to",
   "verify_upstream_tls", "policy", "traffic_policy", "pooling_enabled"}
HttpSettings == EndpointSettings \cup
  {"app_protocol", "scheme", "domain", "mutual_tlsca", "compression", "websocket_tcp_conversion",
   "circuit_breaker", "host_header_rewrite", "request_header", "response_header",
   "remove_request_header", "remove_response_header", "basic_auth", "oauth", "oidc",
   "webhook_verification", "allow_user_agent", "deny_user_agent"}
TcpSettings == EndpointSettings \cup {"remote_addr"}
TlsSettings == EndpointSettings \cup {"domain", "mutual_tlsca", "termination"}
LabeledSettings == {"metadata", "label", "forwards_to", "app_protocol", "verify_upstream_tls"}

SettingsOf(k) == CASE k = "http" -> HttpSettings [] k = "tcp" -> TcpSettings
                   [] k = "tls" -> TlsSettings [] k = "labeled" -> LabeledSettings
Settings == UNION {SettingsOf(k) : k \in AllKinds}

\* Vec fields, HashMap fields, and the fields a later call replaces.
Lists == {"allow_cidr", "deny_cidr", "mutual_tlsca", "basic_auth", "allow_user_agent",
          "deny_user_agent", "remove_request_header", "remove_response_header"}
Tables == {"request_header", "response_header", "label"}
HeaderNames == {"host", "Host", "x-a"}
Bindings == {"public", "internal", "kubernetes"}
BadPolicy == "not json"

ASSUME ConfigAssumption ==
  /\ Kinds \subseteq AllKinds
  /\ \A p \in DOMAIN Plans :
       /\ \A c \in Plans[p].calls : c.set \in Settings
       /\ Plans[p].maxCalls \in Nat /\ Plans[p].tunnels \in Nat
       /\ Plans[p].connects \in Nat \ {0} /\ Plans[p].conns \in Nat
       /\ Plans[p].closes \in BOOLEAN
  /\ \A u \in Urls : DOMAIN u = {"scheme", "host", "port"}

\* The setters take values, not options, and scheme() one of the enum Scheme; a
\* URL and a bool are values too.
ASSUME CallsAssumption ==
  /\ \A p \in DOMAIN Plans : \A c \in Plans[p].calls :
       c.val # Unset /\ (c.set = "scheme" => c.val \in {"http", "https"})
  /\ \A u \in Urls : u # Unset
  /\ Unset # TRUE
----------------------------------------------------------------------------
(* The builder.                                                            *)

EmptyTable == [n \in {} |-> n]

\* HttpOptions, TcpOptions, TlsOptions, LabeledOptions: Default
DefaultOptions ==
  [s \in Settings |-> IF s \in Lists THEN <<>> ELSE IF s \in Tables THEN EmptyTable ELSE Unset]

ToLower(name) == IF name = "Host" THEN "host" ELSE name

\* HashMap::insert
Put(table, name, value) ==
  [n \in DOMAIN table \cup {name} |-> IF n = name THEN value ELSE table[n]]

\* Headers::add, and the labels of a labeled tunnel, which keep their case.
Insert(table, s, name, value) ==
  Put(table, IF s = "label" THEN name ELSE ToLower(name), value)

\* allow_cidr, mutual_tlsca, basic_auth, Headers::remove and so on.
Push(list, s, value) ==
  Append(list, IF s \in {"remove_request_header", "remove_response_header"}
               THEN ToLower(value) ELSE value)

\* policy(): try_into()? returns before the assignment.
TryPolicy(old, policy) == IF policy = BadPolicy THEN old ELSE policy

\* One setter call on options o.
Apply(o, c) ==
  [o EXCEPT ![c.set] =
     CASE c.set \in Lists -> Push(@, c.set, c.val)
       [] c.set \in Tables -> Insert(@, c.set, c.val[1], c.val[2])
       [] c.set = "policy" -> TryPolicy(@, c.val)
       [] OTHER -> c.val]

\* binding() panics on a second call and on an invalid value.
Callable(o, c) == c.set = "binding" => o["binding"] = Unset /\ c.val \in Bindings

\* for_forwarding_to, of CommonOpts and of HttpTunnelBuilder
ForForwardingTo(o, url) ==
  LET p == [o EXCEPT !["forwards_to"] = url]
  IN IF o["host_header_rewrite"] = TRUE /\ url.host # ""
     THEN Apply(p, [set |-> "request_header", val |-> <<"host", url.host>>])
     ELSE p
----------------------------------------------------------------------------
(* The wire form.                                                          *)

OrElse(value, default) == IF value = Unset THEN default ELSE value

\* Only some of the options are sent, as Option of a message: none or one.
Present(x, empty) == IF x = empty THEN <<>> ELSE <<x>>

IpRestriction(o) == Present(<<o["allow_cidr"], o["deny_cidr"]>>, <<<<>>, <<>>>>)

UserAgentFilter(o) == Present(<<o["allow_user_agent"], o["deny_user_agent"]>>, <<<<>>, <<>>>>)

\* The entries of the HashMap go in any order: a set.
NoHeaders == [add |-> {}, remove |-> <<>>]
HeaderProto(added, removed) ==
  Present([add |-> {<<n, added[n]>> : n \in DOMAIN added}, remove |-> removed], NoHeaders)

\* A name the application asks for, or none.
Name(value) == IF value = Unset THEN <<>> ELSE <<"asked", value>>

\* traffic_policy before policy; a Policy is sent as the text of its JSON.
PolicyWrapper(o) ==
  IF o["traffic_policy"] # Unset THEN <<"text", o["traffic_policy"]>>
  ELSE IF o["policy"] # Unset THEN <<"json", o["policy"]>> ELSE Unset

HttpEndpoint(o) ==
  [variant |-> "Http", proxy_proto |-> OrElse(o["proxy_proto"], 0),
   domain |-> Name(o["domain"]), hostname |-> <<>>,
   compression |-> o["compression"], websocket |-> o["websocket_tcp_conversion"],
   circuit_breaker |-> Present(OrElse(o["circuit_breaker"], 0), 0), ip_restriction |-> IpRestriction(o),
   basic_auth |-> Present(o["basic_auth"], <<>>), oauth |-> o["oauth"], oidc |-> o["oidc"],
   webhook |-> o["webhook_verification"], mutual_tls |-> Present(o["mutual_tlsca"], <<>>),
   request_headers |-> HeaderProto(o["request_header"], o["remove_request_header"]),
   response_headers |-> HeaderProto(o["response_header"], o["remove_response_header"]),
   user_agent |-> UserAgentFilter(o), traffic_policy |-> PolicyWrapper(o)]

TcpEndpoint(o) ==
  [variant |-> "Tcp", addr |-> Name(o["remote_addr"]),
   proxy_proto |-> OrElse(o["proxy_proto"], 0), ip_restriction |-> IpRestriction(o),
   traffic_policy |-> PolicyWrapper(o)]

TlsEndpoint(o) ==
  [variant |-> "Tls", domain |-> Name(o["domain"]), hostname |-> <<>>,
   proxy_proto |-> OrElse(o["proxy_proto"], 0), ip_restriction |-> IpRestriction(o),
   mutual_tls |-> Present(o["mutual_tlsca"], <<>>), tls_termination |-> o["termination"],
   traffic_policy |-> PolicyWrapper(o)]

\* TunnelConfig::opts, ::proto, ::forwards_to, ::forwards_proto, ::extra
Opts(k, o) == CASE k = "http" -> HttpEndpoint(o) [] k = "tcp" -> TcpEndpoint(o)
                [] k = "tls" -> TlsEndpoint(o)
Proto(k, o) == CASE k = "http" -> OrElse(o["scheme"], "https") [] k = "labeled" -> ""
                 [] OTHER -> k
DefaultForwardsTo == [scheme |-> "app", host |-> "process", port |-> 0]
ForwardsTo(o) == OrElse(o["forwards_to"], DefaultForwardsTo)
ForwardsProto(k, o) == IF k \in {"tcp", "tls"} THEN "" ELSE OrElse(o["app_protocol"], "")
Extra(o) == [token |-> <<>>, metadata |-> OrElse(o["metadata"], ""),
             bindings |-> OrElse(o["binding"], ""),
             pooling |-> OrElse(o["pooling_enabled"], FALSE)]
VerifyUpstreamTls(o) == OrElse(o["verify_upstream_tls"], TRUE)

\* Bind and StartTunnelWithLabel
BindReq(id, proto, opts, extra, to, fproto) ==
  [id |-> id, proto |-> proto, opts |-> opts, extra |-> extra, forwards_to |-> to,
   forwards_proto |-> fproto]
LabelReq(labels, metadata, to, fproto) ==
  [labels |-> labels, metadata |-> metadata, forwards_to |-> to, forwards_proto |-> fproto]
----------------------------------------------------------------------------
(* Tunnels.                                                                *)

Connects == Len(auths)

\* The service, as far as the answers are used: the address asked for, or one
\* of its own, and options that repeat the request.
Address(opts, t) ==
  LET asked == IF opts.variant = "Tcp" THEN opts.addr
               ELSE IF opts.hostname # <<>> THEN opts.hostname ELSE opts.domain
  IN IF asked # <<>> THEN asked ELSE <<"given", Connects, t>>
AnsweredOpts(opts, addr) ==
  IF opts.variant = "Tcp" THEN [opts EXCEPT !.addr = addr] ELSE [opts EXCEPT !.hostname = addr]
FreshId(t) == <<Connects, t>>

\* Mutant of KeptOpts: the options of the request are kept, not those answered.
KeepAsked(asked, answered) == asked

\* start_tunnel: opts: resp.bind_opts.into()
KeptOpts(asked, answered) == answered

\* start_tunnel, of an endpoint and of a labeled tunnel: what it sends, what
\* the application may ask of the tunnel, and the BoundTunnel (said and url are
\* what the application did to get it).
StartedEndpoint(o, t, url) ==
  LET req == BindReq(<<>>, Proto(kind, o), Opts(kind, o), Extra(o), ForwardsTo(o),
                     ForwardsProto(kind, o))
      addr == Address(req.opts, t)
  IN [said |-> calls, url |-> url, sent |-> <<req>>, addr |-> addr, key |-> FreshId(t),
      info |-> [id |-> FreshId(t), url |-> addr, labels |-> EmptyTable,
                forwards_to |-> ForwardsTo(o), metadata |-> req.extra.metadata],
      bound |-> [proto |-> req.proto, opts |-> KeptOpts(req.opts, AnsweredOpts(req.opts, addr)),
                 extra |-> [req.extra EXCEPT !.token = <<"token", t>>], labels |-> EmptyTable,
                 forwards_to |-> ForwardsTo(o), forwards_proto |-> req.forwards_proto,
                 verify |-> VerifyUpstreamTls(o)]]
StartedLabeled(o, t, url) ==
  LET req == LabelReq(o["label"], Extra(o).metadata, ForwardsTo(o), ForwardsProto(kind, o))
  IN [said |-> calls, url |-> url, sent |-> <<req>>, addr |-> <<>>, key |-> FreshId(t),
      info |-> [id |-> FreshId(t), url |-> <<>>, labels |-> o["label"],
                forwards_to |-> ForwardsTo(o), metadata |-> req.metadata],
      bound |-> [proto |-> "", opts |-> <<>>, extra |-> Extra(o), labels |-> o["label"],
                 forwards_to |-> ForwardsTo(o), forwards_proto |-> req.forwards_proto,
                 verify |-> VerifyUpstreamTls(o)]]
StartTunnel(o, url) ==
  LET t == Len(tuns) + 1
  IN tuns' = Append(tuns, IF Proto(kind, o) # "" THEN StartedEndpoint(o, t, url)
                          ELSE StartedLabeled(o, t, url))

\* What try_reconnect sends for a tunnel in the map, and the key it gets.
Rebound(tun, t, newId) ==
  LET b == tun.bound IN
  IF b.proto # ""
  THEN [tun EXCEPT !.sent = Append(@, BindReq(tun.key, b.proto, b.opts, b.extra, b.forwards_to,
                                              b.forwards_proto)),
                   !.addr = Address(b.opts, t)]
  ELSE [tun EXCEPT !.sent = Append(@, LabelReq(b.labels, b.extra.metadata, b.forwards_to,
                                               b.forwards_proto)),
                   !.key = IF newId THEN FreshId(t) ELSE tun.key]
----------------------------------------------------------------------------
ConfigInit ==
  /\ plan \in DOMAIN Plans
  /\ kind \in Kinds
  /\ options = DefaultOptions /\ calls = <<>>
  /\ tuns = <<>>
  /\ auths = <<[sent |-> 0, used |-> TRUE]>>
  /\ auth = 1

Set(c) ==
  /\ Len(calls) < Plans[plan].maxCalls /\ c.set \in SettingsOf(kind) /\ Callable(options, c)
  /\ options' = Apply(options, c)
  /\ calls' = Append(calls, c)
  /\ UNCHANGED <<plan, kind, tuns, auths, auth>>

Listen ==
  /\ Len(tuns) < Plans[plan].tunnels
  /\ StartTunnel(options, Unset)
  /\ UNCHANGED <<plan, kind, options, calls, auths, auth>>

\* Mutant of ListenAndForward: the builder is changed, not a clone of it.
ListenAndForwardInPlace(url) ==
  /\ Len(tuns) < Plans[plan].tunnels
  /\ options' = ForForwardingTo(options, url)
  /\ StartTunnel(options', url)
  /\ UNCHANGED <<plan, kind, calls, auths, auth>>

ListenAndForward(url) ==
  /\ Len(tuns) < Plans[plan].tunnels
  /\ StartTunnel(ForForwardingTo(options, url), url)  \* cfg: a clone of self
  /\ UNCHANGED <<plan, kind, options, calls, auths, auth>>

Authenticate(used) ==
  /\ Connects < Plans[plan].connects
  /\ auths' = Append(auths, [sent |-> auth, used |-> used])

\* connect_inner authenticated, and a tunnel could not be rebound: the new
\* SessionInner is dropped with the identity it was given.
ReconnectFails ==
  /\ Authenticate(FALSE)
  /\ UNCHANGED <<plan, kind, options, calls, tuns, auth>>

\* Mutant of Reconnect: the new session keeps the builder it was made from.
ReconnectOldBuilder(newIds) ==
  /\ Authenticate(TRUE)
  /\ tuns' = [t \in DOMAIN tuns |-> IF tuns[t].key = <<>> THEN tuns[t]
                                   ELSE Rebound(tuns[t], t, newIds)]
  /\ UNCHANGED <<plan, kind, options, calls, auth>>

Reconnect(newIds) ==
  /\ Authenticate(TRUE)
  /\ auth' = Connects + 1
  /\ tuns' = [t \in DOMAIN tuns |-> IF tuns[t].key = <<>> THEN tuns[t]
                                   ELSE Rebound(tuns[t], t, newIds)]
  /\ UNCHANGED <<plan, kind, options, calls>>
----------------------------------------------------------------------------
(* What was said, and what the service reads.                              *)

\* The calls of a setter, the k-th and the last of some calls.
CallsOf(said, s) == {i \in DOMAIN said : said[i].set = s}
Nth(own, k) == CHOOSE i \in own : Cardinality({j \in own : j <= i}) = k
Last(own) == CHOOSE i \in own : \A j \in own : j <= i

\* The names of headers are spelled in lower case, and all else as it was given.
Spelled(s, name) ==
  IF s \in {"request_header", "response_header", "remove_request_header", "remove_response_header"}
  THEN ToLower(name) ELSE name

LastOf(said, s, default) ==
  IF CallsOf(said, s) = {} THEN default ELSE said[Last(CallsOf(said, s))].val
ListOf(said, s) ==
  [k \in 1..Cardinality(CallsOf(said, s)) |-> Spelled(s, said[Nth(CallsOf(said, s), k)].val)]
TableOf(said, s) ==
  LET Key(i) == Spelled(s, said[i].val[1])
      For(n) == {i \in CallsOf(said, s) : Key(i) = n}
  IN [n \in {Key(i) : i \in CallsOf(said, s)} |-> said[Last(For(n))].val[2]]
PolicyOf(said) ==
  LET parsed == {i \in CallsOf(said, "policy") : said[i].val # BadPolicy}
  IN IF parsed = {} THEN Unset ELSE said[Last(parsed)].val

IntendedPolicy(said) ==
  LET text == LastOf(said, "traffic_policy", Unset) IN
  IF text # Unset THEN <<"text", text>>
  ELSE IF PolicyOf(said) # Unset THEN <<"json", PolicyOf(said)>> ELSE Unset
IntendedHeaders(said, url) ==
  LET rewrites == /\ url # Unset /\ url.host # ""
                  /\ LastOf(said, "host_header_rewrite", FALSE) = TRUE
      asked == TableOf(said, "request_header")
  IN IF rewrites THEN Put(asked, "host", url.host) ELSE asked

\* What an optional message says, either of two lists in one, and headers.
Given(x, empty) == IF x = <<>> THEN empty ELSE x[1]
Half(pair, i) == Given(pair, <<<<>>, <<>>>>)[i]
Added(h) == Given(h, NoHeaders).add
Removed(h) == Given(h, NoHeaders).remove
AsPairs(table) == {<<n, table[n]>> : n \in DOMAIN table}

SaysCommon(said, url, r) ==
  /\ r.forwards_to = IF url # Unset THEN url
                     ELSE LastOf(said, "forwards_to", DefaultForwardsTo)
  /\ r.forwards_proto = LastOf(said, "app_protocol", "")
SaysEndpoint(said, r) ==
  /\ r.extra.metadata = LastOf(said, "metadata", "")
  /\ r.extra.bindings = LastOf(said, "binding", "")
  /\ r.extra.pooling = LastOf(said, "pooling_enabled", FALSE)
  /\ r.opts.proxy_proto = LastOf(said, "proxy_proto", 0)
  /\ Half(r.opts.ip_restriction, 1) = ListOf(said, "allow_cidr")
  /\ Half(r.opts.ip_restriction, 2) = ListOf(said, "deny_cidr")
  /\ r.opts.traffic_policy = IntendedPolicy(said)
SaysHttp(said, url, r) ==
  /\ r.proto = LastOf(said, "scheme", "https")
  /\ r.opts.domain = Name(LastOf(said, "domain", Unset))
  /\ \A s \in {"compression", "oauth", "oidc"} : r.opts[s] = LastOf(said, s, Unset)
  /\ r.opts.websocket = LastOf(said, "websocket_tcp_conversion", Unset)
  /\ r.opts.webhook = LastOf(said, "webhook_verification", Unset)
  /\ Given(r.opts.circuit_breaker, 0) = LastOf(said, "circuit_breaker", 0)
  /\ Given(r.opts.basic_auth, <<>>) = ListOf(said, "basic_auth")
  /\ Given(r.opts.mutual_tls, <<>>) = ListOf(said, "mutual_tlsca")
  /\ Half(r.opts.user_agent, 1) = ListOf(said, "allow_user_agent")
  /\ Half(r.opts.user_agent, 2) = ListOf(said, "deny_user_agent")
  /\ Added(r.opts.request_headers) = AsPairs(IntendedHeaders(said, url))
  /\ Added(r.opts.response_headers) = AsPairs(TableOf(said, "response_header"))
  /\ Removed(r.opts.request_headers) = ListOf(said, "remove_request_header")
  /\ Removed(r.opts.response_headers) = ListOf(said, "remove_response_header")
SaysTls(said, r) ==
  /\ r.opts.domain = Name(LastOf(said, "domain", Unset))
  /\ Given(r.opts.mutual_tls, <<>>) = ListOf(said, "mutual_tlsca")
  /\ r.opts.tls_termination = LastOf(said, "termination", Unset)
SaysTcp(said, r) ==
  LET asked == LastOf(said, "remote_addr", Unset)
  IN asked # Unset => r.opts.addr = Name(asked)
SaysLabeled(said, r) ==
  /\ r.metadata = LastOf(said, "metadata", "")
  /\ r.labels = TableOf(said, "label")

Says(said, url, r) ==
  /\ SaysCommon(said, url, r)
  /\ kind # "labeled" => SaysEndpoint(said, r)
  /\ CASE kind = "http" -> SaysHttp(said, url, r) [] kind = "tcp" -> SaysTcp(said, r)
       [] kind = "tls" -> SaysTls(said, r) [] kind = "labeled" -> SaysLabeled(said, r)

\* Whatever is called on the builder afterwards, whatever other tunnels are
\* started from it, however it is used to forward, and after any number of
\* reconnects, the request for a tunnel says exactly what the setter calls made
\* before it was started say: the last value of a setting, every entry of a
\* list, the last value for a name in a table, traffic_policy before the last
\* policy that parsed, and the host of the URL forwarded to when that is asked.
AsConfigured ==
  \A t \in DOMAIN tuns : \A i \in DOMAIN tuns[t].sent :
    Says(tuns[t].said, tuns[t].url, tuns[t].sent[i])

\* The url() of a tunnel, and id() of an endpoint, stay true: after a reconnect
\* the service has the tunnel where it first put it, under the id and with the
\* token it first gave.
AddressKept ==
  \A t \in DOMAIN tuns :
    LET tun == tuns[t] IN
    /\ tun.addr = tun.info.url
    /\ kind # "labeled" => \A i \in 2..Len(tun.sent) :
         tun.sent[i].id = tun.info.id /\ tun.sent[i].extra.token = <<"token", t>>

\* Every Auth carries the id and the cookie of the session in use before it, not
\* those of an attempt that failed after it had been authenticated.
IdentityKept ==
  \A i \in 2..Len(auths) :
    /\ auths[i].sent \in 1..(i - 1) /\ auths[auths[i].sent].used
    /\ \A j \in (auths[i].sent + 1)..(i - 1) : ~auths[j].used

\* On every connection of the session the service is asked for what the
\* application had set when it started the tunnel, by the agent it knows.
BoundAsSaid == AsConfigured /\ AddressKept /\ IdentityKept
=============================================================================
