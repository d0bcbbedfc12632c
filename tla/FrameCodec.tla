----------------------------- MODULE FrameCodec -----------------------------
(***************************************************************************)
(* codec.rs and frame.rs: an end encodes frames into bytes, the bytes ar-  *)
(* rive in pieces, and the other end decodes them.  The bytes may also be  *)
(* those of a peer with a codec of its own (Foreign).                      *)
(*                                                                         *)
(* The layout is the code's with the widths as parameters: a byte is two   *)
(* nibbles, a word WordLen bytes, a header two words.  The program has 16  *)
(* and 4.                                                                  *)
(***************************************************************************)
EXTENDS Integers, Sequences

CONSTANTS
  Nibble,     \* values of a half byte
  WordLen,    \* bytes of a word
  ErrMax,     \* largest error code that has a name
  Own,        \* frames the encoder may be given
  Foreign,    \* byte strings another codec may send
  MaxFrames   \* bound: frames sent

Byte == Nibble * Nibble
Bytes == 0..(Byte - 1)
\* Values of n bytes.
Pow[n \in Nat] == IF n = 0 THEN 1 ELSE Pow[n - 1] * Byte
WordMax == Pow[WordLen] - 1
STREAMID_MAX == WordMax \div 2
WNDINC_MAX == WordMax \div 2
LENGTH_MAX == Pow[WordLen - 1] - 1
HdrLen == 2 * WordLen

\* HeaderType, and the words its body starts with.
Rst == 0
Data == 1
WndInc == 2
GoAway == 3
WordsOf(t) == CASE t = Data -> 0 [] t = GoAway -> 2 [] OTHER -> 1

FIN == 1
SYN == 2

ASSUME CodecAssumption ==
  /\ Nibble \in Nat /\ Nibble >= 4 /\ WordLen \in Nat /\ WordLen >= 2
  /\ ErrMax \in 0..(WordMax - 1) /\ MaxFrames \in Nat
  /\ Foreign \subseteq Seq(Bytes)

VARIABLES
  peer,     \* whose codec encodes: "own" or "foreign"
  sent,     \* frames encoded
  refused,  \* a frame the encoder refused: the writer ends
  wire,     \* bytes under way
  arrived,  \* all bytes that have arrived
  buf,      \* bytes in the decoder's buffer
  header,   \* FrameCodec::input_header, a sequence of at most one
  got,      \* frames decoded
  cuts      \* where each of them ended

vars == <<peer, sent, refused, wire, arrived, buf, header, got, cuts>>
----------------------------------------------------------------------------
(* Words, constrained numbers and errors.                                  *)

Word(n) == [i \in 1..WordLen |-> (n \div Pow[WordLen - i]) % Byte]
Value(bs) ==
  LET v[k \in 0..Len(bs)] == IF k = 0 THEN 0 ELSE v[k - 1] * Byte + bs[k]
  IN v[Len(bs)]

Clamp(v, max) == IF v > max THEN max ELSE v
\* Every maximum is a power of two less one.
Mask(v, max) == v % (max + 1)

\* Error from a code, and its code; a code without a name is ErrorUnknown.
ErrorOf(code) == IF code <= ErrMax THEN code ELSE WordMax
----------------------------------------------------------------------------
(* Frames.  length is what the header says, words and data are the body.   *)

Frame(t, f, id, l, ws, d) ==
  [typ |-> t, flags |-> f, id |-> id, length |-> l, words |-> ws, data |-> d, valid |-> TRUE]

\* Frame::from(Body::Data): the data is cut to what the header can say.
DataFrame(id, f, d) ==
  LET l == Clamp(Len(d), LENGTH_MAX) IN Frame(Data, f, id, l, <<>>, SubSeq(d, 1, l))
WndIncFrame(id, f, n) == Frame(WndInc, f, id, WordLen, <<n>>, <<>>)
RstFrame(id, e) == Frame(Rst, 0, id, WordLen, <<e>>, <<>>)
\* Frame::goaway: the length is that of the message alone.
GoAwayFrame(last, e, m) ==
  LET l == Clamp(Len(m), LENGTH_MAX) IN Frame(GoAway, 0, 0, l, <<last, e>>, SubSeq(m, 1, l))

\* What the session gives the encoder: a frame of one of the constructors, made
\* of an id of a stream, flags, an error and a window increment of their types.
Errors == 0..ErrMax \cup {WordMax}
OwnFrame(f) ==
  /\ f.typ \in {Rst, Data, WndInc} => f.id \in 1..STREAMID_MAX /\ f.flags \in 0..(SYN + FIN)
  /\ f.typ \in {Data, GoAway} => f.data \in Seq(Bytes)
  /\ CASE f.typ = Data -> f = DataFrame(f.id, f.flags, f.data)
       [] f.typ = WndInc -> f.words[1] \in 0..WNDINC_MAX /\ f = WndIncFrame(f.id, f.flags, f.words[1])
       [] f.typ = Rst -> f.words[1] \in Errors /\ f = RstFrame(f.id, f.words[1])
       [] f.typ = GoAway -> /\ f.words[1] \in 0..STREAMID_MAX /\ f.words[2] \in Errors
                            /\ f = GoAwayFrame(f.words[1], f.words[2], f.data)
       [] OTHER -> FALSE

ASSUME OwnAssumption == \A f \in Own : OwnFrame(f)

\* Mutant of Valid: a window increment of any length.
ValidAny(h) ==
  CASE h.typ = Rst -> h.id # 0 /\ h.length = WordLen
    [] h.typ \in {Data, WndInc} -> h.id # 0
    [] h.typ = GoAway -> h.id = 0 /\ h.length >= 2 * WordLen
    [] OTHER -> FALSE

\* Mutant of Valid: an empty frame of data is refused.
ValidFull(h) ==
  CASE h.typ \in {Rst, WndInc} -> h.id # 0 /\ h.length = WordLen
    [] h.typ = Data -> h.id # 0 /\ h.length > 0
    [] h.typ = GoAway -> h.id = 0 /\ h.length >= 2 * WordLen
    [] OTHER -> FALSE

\* validate_header.
Valid(h) ==
  CASE h.typ \in {Rst, WndInc} -> h.id # 0 /\ h.length = WordLen
    [] h.typ = Data -> h.id # 0
    [] h.typ = GoAway -> h.id = 0 /\ h.length >= 2 * WordLen
    [] OTHER -> FALSE

\* Mutant of EncodeHeader: type and flags change places.
EncodeHeaderSwapped(f) == Word(f.length * Byte + f.flags * Nibble + f.typ) \o Word(f.id)

EncodeHeader(f) == Word(f.length * Byte + f.typ * Nibble + f.flags) \o Word(f.id)
EncodeBody(f) ==
  CASE f.typ \in {Rst, WndInc} -> Word(f.words[1])
    [] f.typ = GoAway -> Word(f.words[1]) \o Word(f.words[2]) \o f.data
    [] OTHER -> f.data

\* Mutant of DecodeHeader: the reserved bit stays in the id.
DecodeHeaderRaw(bs) ==
  LET first == Value(SubSeq(bs, 1, WordLen))
      low == first % Byte IN
  [length |-> first \div Byte, typ |-> low \div Nibble, flags |-> (low % Nibble) % 4,
   id |-> Value(SubSeq(bs, WordLen + 1, HdrLen))]

\* decode_header.  Unknown flags and the reserved bit of the id are dropped.
DecodeHeader(bs) ==
  LET first == Value(SubSeq(bs, 1, WordLen))
      low == first % Byte IN
  [length |-> first \div Byte, typ |-> low \div Nibble, flags |-> (low % Nibble) % 4,
   id |-> Mask(Value(SubSeq(bs, WordLen + 1, HdrLen)), STREAMID_MAX)]

\* The i-th word of a body, as decode_frame reads it; BodiesSuffice says that it
\* is there.
BodyWord(h, bs, i) ==
  LET w == Value(SubSeq(bs, (i - 1) * WordLen + 1, Clamp(i * WordLen, Len(bs)))) IN
  CASE h.typ = WndInc -> Mask(w, WNDINC_MAX)
    [] h.typ = GoAway /\ i = 1 -> Mask(w, STREAMID_MAX)
    [] OTHER -> ErrorOf(w)

\* decode_frame: a frame that is not valid is handed on with its bytes.
DecodeFrame(h, bs) ==
  LET n == IF Valid(h) THEN WordsOf(h.typ) ELSE 0 IN
  [typ |-> h.typ, flags |-> h.flags, id |-> h.id, length |-> h.length, valid |-> Valid(h),
   words |-> [i \in 1..n |-> BodyWord(h, bs, i)],
   data |-> SubSeq(bs, n * WordLen + 1, Len(bs))]
----------------------------------------------------------------------------
Init ==
  /\ peer \in {"own", "foreign"}
  /\ sent = <<>> /\ refused = <<>>
  /\ wire = <<>> /\ arrived = <<>> /\ buf = <<>>
  /\ header = <<>>
  /\ got = <<>> /\ cuts = <<0>>

\* Encoder::encode.
Encode(f) ==
  /\ peer = "own" /\ refused = <<>> /\ Len(sent) < MaxFrames
  /\ IF Valid(f)
     THEN /\ sent' = Append(sent, f)
          /\ wire' = wire \o EncodeHeader(f) \o EncodeBody(f)
          /\ UNCHANGED refused
     ELSE /\ refused' = <<f>>
          /\ UNCHANGED <<sent, wire>>
  /\ UNCHANGED <<peer, arrived, buf, header, got, cuts>>

\* Bytes of another codec.
Send(bs) ==
  /\ peer = "foreign" /\ Len(sent) < MaxFrames
  /\ sent' = Append(sent, bs)
  /\ wire' = wire \o bs
  /\ UNCHANGED <<peer, refused, arrived, buf, header, got, cuts>>

\* The transport delivers n bytes.
Arrive(n) ==
  /\ wire # <<>> /\ n <= Len(wire)
  /\ arrived' = arrived \o SubSeq(wire, 1, n)
  /\ buf' = buf \o SubSeq(wire, 1, n)
  /\ wire' = SubSeq(wire, n + 1, Len(wire))
  /\ UNCHANGED <<peer, sent, refused, header, got, cuts>>

\* Mutant of TakeHeader: the header is read again when more has arrived.
TakeHeaderAgain ==
  /\ header = <<>> /\ Len(buf) >= HdrLen
  /\ LET h == DecodeHeader(SubSeq(buf, 1, HdrLen)) IN
       header' = IF Len(buf) >= HdrLen + h.length THEN <<h>> ELSE <<>>
  /\ buf' = SubSeq(buf, HdrLen + 1, Len(buf))

\* Decoder::decode, the header: taken off the buffer once, and kept.
TakeHeader ==
  /\ header = <<>> /\ Len(buf) >= HdrLen
  /\ header' = <<DecodeHeader(SubSeq(buf, 1, HdrLen))>>
  /\ buf' = SubSeq(buf, HdrLen + 1, Len(buf))

DecodeHead ==
  /\ TakeHeader
  /\ UNCHANGED <<peer, sent, refused, wire, arrived, got, cuts>>

\* Mutant of Complete: one byte more than the frame has.
CompleteAndMore == header # <<>> /\ Len(buf) > Head(header).length

Complete == header # <<>> /\ Len(buf) >= Head(header).length

\* Decoder::decode, the body.
DecodeBody ==
  /\ Complete
  /\ LET h == Head(header) IN
       /\ got' = Append(got, DecodeFrame(h, SubSeq(buf, 1, h.length)))
       /\ buf' = SubSeq(buf, h.length + 1, Len(buf))
       /\ cuts' = Append(cuts, cuts[Len(cuts)] + HdrLen + h.length)
  /\ header' = <<>>
  /\ UNCHANGED <<peer, sent, refused, wire, arrived>>

DecodeStep == DecodeHead \/ DecodeBody

Next ==
  \/ \E f \in Own : Encode(f)
  \/ \E bs \in Foreign : Send(bs)
  \/ \E n \in 1..Len(wire) : Arrive(n)
  \/ DecodeStep

\* FramedRead calls decode again until it asks for more bytes, and the
\* transport delivers what was written.
Spec == Init /\ [][Next]_vars /\ WF_vars(DecodeStep) /\ WF_vars(\E n \in 1..Len(wire) : Arrive(n))
----------------------------------------------------------------------------
\* Types: at most one header waits for its body (input_header), one frame ends
\* the writer, and ids and lengths of decoded frames keep their widths.
TypeOK ==
  /\ peer \in {"own", "foreign"}
  /\ Len(sent) <= MaxFrames /\ Len(refused) <= 1
  /\ wire \in Seq(Bytes) /\ arrived \in Seq(Bytes) /\ buf \in Seq(Bytes)
  /\ Len(header) <= 1 /\ Len(cuts) = Len(got) + 1
  /\ \A i \in 1..Len(got) : got[i].id <= STREAMID_MAX /\ got[i].length <= LENGTH_MAX

\* Frames before the first GOAWAY.
BeforeGoAway == {i \in 1..Len(got) : \A j \in 1..(i - 1) : sent[j].typ # GoAway}

\* What GOAWAY loses: the last words of its message, which its length does not
\* count (frame.rs:106); they are read as the next header.
Shortened(f) ==
  IF f.typ = GoAway THEN [f EXCEPT !.data = SubSeq(@, 1, Len(@) - 2 * WordLen)] ELSE f

\* Frames come out as they went in, in order, up to the first GOAWAY: type,
\* flags, id, and body, at the limits of the widths too (encode against decode).
RoundTrip ==
  peer = "own" => \A i \in BeforeGoAway : i <= Len(sent) /\ got[i] = Shortened(sent[i])

\* However the bytes are cut into pieces, the decoder cuts them into frames at
\* the same places and into the same frames as if all were there at once.
CutFree ==
  \A i \in 1..Len(got) :
    LET at == cuts[i] + HdrLen
        h == DecodeHeader(SubSeq(arrived, cuts[i] + 1, at)) IN
    /\ cuts[i + 1] = at + h.length
    /\ got[i] = DecodeFrame(h, SubSeq(arrived, at + 1, cuts[i + 1]))

\* The encoder refuses nothing the session gives it but a GOAWAY with a message
\* shorter than two words: no other frame ends the writer.
RefusesShortGoAway ==
  refused # <<>> => refused[1].typ = GoAway /\ Len(refused[1].data) < 2 * WordLen

\* The decoder hands on only frames whose body is long enough for the words it
\* reads from it: get_u32 would panic.
BodiesSuffice ==
  \A i \in 1..Len(got) :
    got[i].valid => got[i].length >= WordsOf(got[i].typ) * WordLen

\* What the session sends, its peer gets: nothing is refused or changed on the
\* way but a GOAWAY.
Preserves == RoundTrip /\ RefusesShortGoAway

\* The decoder makes the same of all input, of another codec's too, whatever the
\* cuts, and never reads past the end of a body.
DecodesAlike == TypeOK /\ CutFree /\ BodiesSuffice

GoAwaySent == peer = "own" /\ \E i \in 1..Len(sent) : sent[i].typ = GoAway

\* The last frame that has arrived whole is decoded without waiting for more.
DecodesAll ==
  peer = "own" ~> (Len(got) = Len(sent) \/ GoAwaySent)
=============================================================================
