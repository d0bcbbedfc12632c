---------------------------- MODULE MCFrameCodec ----------------------------
EXTENDS FrameCodec

Message(n) == [i \in 1..n |-> i]

\* Every kind of frame, with flags, ids, lengths and words at their limits.
MCOwn ==
  {DataFrame(id, f, d) :
     id \in {1, STREAMID_MAX}, f \in {0, SYN, SYN + FIN}, d \in {<<>>, <<5>>}}
  \cup {DataFrame(1, FIN, Message(LENGTH_MAX + 1))}
  \cup {WndIncFrame(1, 0, n) : n \in {0, 1, WNDINC_MAX}}
  \cup {RstFrame(STREAMID_MAX, e) : e \in {0, ErrMax, WordMax}}
  \cup {GoAwayFrame(STREAMID_MAX, 1, Message(n)) : n \in {0, 2 * WordLen - 1, 2 * WordLen, HdrLen + 1}}

\* Bytes no encoder of ours writes: an unknown type, an RST and a WNDINC of the
\* wrong length, a GOAWAY that counts its words, an id with the reserved bit, an
\* unknown flag, an error without a name.
Header(l, t, f, id) == Word(l * Byte + t * Nibble + f) \o Word(id)
MCForeign ==
  {Header(1, 5, 1, 3) \o <<9>>,
   Header(1, Rst, 0, 3) \o <<9>>,
   Header(1, WndInc, 0, 3) \o <<9>>,
   Header(2 * WordLen + 1, GoAway, 0, 0) \o Word(7) \o Word(1) \o <<9>>,
   Header(0, Data, 4 + FIN, STREAMID_MAX + 1),
   Header(WordLen, Rst, 0, STREAMID_MAX + 2) \o Word(ErrMax + 1)}
=============================================================================
