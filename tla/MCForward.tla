------------------------------ MODULE MCForward ------------------------------
EXTENDS Forward

Call(s, values) == [set : {s}, val : values]

\* One or two arguments for every setter; two where the order of calls shows.
MCCalls ==
  UNION {Call(s, {"a"}) : s \in {"allow_cidr", "deny_cidr", "mutual_tlsca", "basic_auth", "domain",
    "remote_addr", "oauth", "oidc", "webhook_verification", "allow_user_agent",
    "remove_response_header", "traffic_policy", "termination"}}
  \cup UNION {Call(s, {TRUE}) : s \in {"compression", "websocket_tcp_conversion",
    "host_header_rewrite", "pooling_enabled"}}
  \cup Call("metadata", {"a", "b"}) \cup Call("allow_cidr", {"b"})
  \cup Call("remove_request_header", {"Host"}) \cup Call("deny_user_agent", {"Host"})
  \cup Call("verify_upstream_tls", {FALSE}) \cup Call("proxy_proto", {1, 2})
  \cup Call("circuit_breaker", {0, 1}) \cup Call("scheme", {"http"})
  \cup Call("binding", {"internal", "public", "moon"}) \cup Call("app_protocol", {"http2"})
  \cup Call("policy", {"p", BadPolicy})
  \cup Call("forwards_to", {[scheme |-> "text", host |-> "", port |-> 0]})
  \cup Call("request_header", {<<"host", "a">>, <<"Host", "b">>})
  \cup Call("response_header", {<<"x-a", "a">>})
  \cup Call("label", {<<"Host", "a">>, <<"host", "b">>})

MCUrls ==
  {[scheme |-> "tcp", host |-> "h", port |-> 0], [scheme |-> "unix", host |-> "", port |-> 0],
   [scheme |-> "https", host |-> "h", port |-> 0]}

\* The setters that decide how a connection is forwarded.
PathCalls == {c \in MCCalls : c.set \in {"termination", "verify_upstream_tls",
                                          "app_protocol", "scheme"}}
             \cup Call("proxy_proto", {1})

Plan(from, n, tunnels, connects, arrivals, closes) ==
  [calls |-> from, maxCalls |-> n, tunnels |-> tunnels, connects |-> connects,
   conns |-> arrivals, closes |-> closes]

\* A tunnel that is configured; two from one builder that changes; one bound
\* again and again; one configured, bound again and connected to; two that end.
MCPlans == <<Plan(MCCalls, 2, 1, 1, 0, FALSE), Plan(MCCalls, 1, 2, 1, 0, FALSE),
             Plan(MCCalls, 1, 1, 3, 0, FALSE), Plan(PathCalls, 2, 1, 2, 1, FALSE),
             Plan({}, 0, 1, 2, 1, TRUE), Plan({}, 0, 1, 1, 2, TRUE)>>
==============================================================================
