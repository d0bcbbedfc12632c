---------------------------- MODULE MCProxyProto ----------------------------
EXTENDS ProxyProto

Input(m, k, h, l, c, f) ==
  [mode |-> m, kind |-> k, hdr |-> h, len |-> l, cr |-> c, fails |-> f]

\* Headers shorter than, as long as and longer than the buffer, with '\r' as
\* their last byte but one; inputs that end inside the header, at its end or
\* after it; input without a header; '\r' in what follows, where the buffer is full too.
MCInputs ==
  {Input("incoming", "proxy", h, l, {h - 1} \cup c, f) :
     h \in {3, 4, 5, 6}, l \in {0, 2, 3, 5, 7}, c \in {{}, {4}}, f \in BOOLEAN}
  \cup {Input("incoming", k, 1, l, c, FALSE) :
     k \in {"plain", "bad"}, l \in {1, 4, 7}, c \in {{}, {3, 4}, {MaxLen}}}
  \cup {Input(m, "plain", 1, 3, {}, FALSE) : m \in {"outgoing", "disabled"}}
=============================================================================
