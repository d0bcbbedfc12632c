-------------------------- MODULE ProxyProtoProofs --------------------------
(***************************************************************************)
(* Proofs about ProxyProto, for every input, every buffer size and every   *)
(* way the inner stream cuts what it delivers or takes.                    *)
(***************************************************************************)
EXTENDS ProxyProto, TLAPS

\* What the read half's buffer is in each read state.
ReadInv ==
  /\ rs.from >= 1 /\ rs.from <= rs.to + 1
  /\ rs.st = "Reading" => ~rs.hdr /\ Size(rs) <= MaxLen
  /\ rs.st = "None" => ~rs.hdr /\ Size(rs) = 0
  /\ rs.hdr => input.kind = "proxy" /\ input.hdr <= MaxLen

\* While the header is looked for, the bytes read so far do not hold it, unless
\* they are too few or end in '\r' and were not parsed.
LookedAt ==
  rs.st = "Reading" /\ input.kind = "proxy" /\ input.hdr <= rs.to =>
    rs.to < MinLen \/ rs.to \in input.cr

\* A header that can be found was found once the search is over.
FoundInv == rs.st \in {"Header", "Error"} /\ Findable => rs.hdr

\* How far the header and the application's bytes went out, by the last write.
WriteInv ==
  /\ wcall + wrote <= MaxData
  /\ wire = <<>> => wrote = 0 /\ ws = (IF input.mode = "outgoing" THEN OutLen ELSE 0)
  /\ wire # <<>> /\ wire[Len(wire)].what = "header" =>
       wire[Len(wire)].to = OutLen - ws /\ wrote = 0
  /\ wire # <<>> /\ wire[Len(wire)].what = "data" =>
       wire[Len(wire)].to = wrote /\ ws = 0

\* The inductive invariant.
ProxyInv ==
  TypeOK /\ ReadInv /\ BytesInOrder /\ LookedAt /\ FoundInv /\ WriteInv /\ WireInOrder

readVars == <<taken, rs, out>>
writeVars == <<ws, wcall, wrote, wire>>
----------------------------------------------------------------------------
(* The two halves share only the input.                                    *)

\* What an input is.
LEMMA InputTypes ==
  ASSUME TypeOK
  PROVE  /\ input.mode \in {"incoming", "outgoing", "disabled"}
         /\ input.kind \in {"proxy", "plain", "bad"}
         /\ input.hdr \in Nat /\ input.hdr >= 1
         /\ input.len \in Nat
         /\ input.fails \in BOOLEAN
  BY InputAssumption DEF TypeOK, InputSpace

\* A step of the write half leaves the read half as it is.
LEMMA ReadHalfKept ==
  ASSUME ProxyInv, UNCHANGED <<input, readVars>>
  PROVE  ReadInv' /\ BytesInOrder' /\ LookedAt' /\ FoundInv'
  BY DEF ProxyInv, readVars, ReadInv, BytesInOrder, LookedAt, FoundInv, Findable,
         Kept, Size, Due, First

\* A step of the read half leaves the write half as it is.
LEMMA WriteHalfKept ==
  ASSUME ProxyInv, UNCHANGED <<input, writeVars>>
  PROVE  WriteInv' /\ WireInOrder'
  BY DEF ProxyInv, writeVars, WriteInv, WireInOrder

\* A new stream of any of the three constructors satisfies the invariant.
LEMMA InitInv == Init => ProxyInv
  <1> SUFFICES ASSUME Init PROVE ProxyInv
    OBVIOUS
  <1>1. TypeOK
    BY InputAssumption DEF Init, TypeOK, NewReadState, ReadStates, InputSpace
  <1>2. ReadInv /\ LookedAt /\ FoundInv
    BY <1>1, InputTypes, InputAssumption
    DEF Init, NewReadState, ReadInv, LookedAt, FoundInv, Findable, Size
  <1>3. BytesInOrder
    BY DEF Init, NewReadState, BytesInOrder, Kept, Size, Due, First
  <1>4. WriteInv /\ WireInOrder
    BY InputAssumption DEF Init, WriteInv, WireInOrder
  <1> QED
    BY <1>1, <1>2, <1>3, <1>4 DEF ProxyInv
----------------------------------------------------------------------------
(* The read half.                                                          *)

\* poll_read_header_once: what parsing the bytes 1..n can make of a state that
\* is still reading.  The state it leaves is a read state: the parser is never
\* given the bytes it panics on.
LEMMA ParsedCases ==
  ASSUME TypeOK,
         NEW s \in ReadStates,
         s.st = "Reading", ~s.hdr, s.from = 1, Size(s) <= MaxLen
  PROVE  \/ /\ Parsed(s) = s
            /\ s.to < MinLen \/ s.to \in input.cr
         \/ /\ Parsed(s) = [s EXCEPT !.st = "Header", !.hdr = TRUE, !.from = 1 + input.hdr]
            /\ input.kind = "proxy" /\ input.hdr <= s.to
         \/ /\ Parsed(s) = [s EXCEPT !.st = "Header"]
            /\ input.kind # "proxy"
         \/ /\ Parsed(s) = [s EXCEPT !.st = "Error", !.err = TRUE]
            /\ s.to = MaxLen
            /\ input.kind = "proxy" => input.hdr > s.to
         \/ /\ Parsed(s) = [s EXCEPT !.err = TRUE]
            /\ input.kind = "proxy" => input.hdr > s.to
  <1> DEFINE n == Size(s)
  <1>0. n = s.to /\ n \in Nat /\ MinLen \in Nat /\ MaxLen \in Nat /\ SigLen <= MinLen /\ SigLen \in Nat
    BY InputAssumption DEF Size, ReadStates
  <1>1. CASE n < MinLen \/ n \in input.cr
    BY <1>0, <1>1 DEF Parsed
  <1>2. CASE ~(n < MinLen \/ n \in input.cr)
    <2>1. n >= SigLen /\ Parse(n) # "panic"
      BY <1>0, <1>2 DEF Parse
    <2>2. CASE Parse(n) = "ok"
      BY <1>0, <1>2, <2>1, <2>2 DEF Parsed, Parse, ReadStates
    <2>3. CASE Parse(n) = "NotProxyHeader"
      BY <1>0, <1>2, <2>1, <2>3 DEF Parsed, Parse, ReadStates
    <2>4. CASE Parse(n) = "error"
      <3>1. input.kind = "proxy" => input.hdr > s.to
        BY <1>0, <1>2, <2>1, <2>4, InputTypes DEF Parse
      <3> QED
        BY <1>0, <1>2, <2>1, <2>4, <3>1 DEF Parsed, ReadStates
    <2> QED
      BY <2>1, <2>2, <2>3, <2>4 DEF Parse
  <1> QED
    BY <1>1, <1>2

\* A state that the header search leaves as parsed keeps the read invariant.
LEMMA ParsedInv ==
  ASSUME ProxyInv, rs.st = "Reading",
         NEW s \in ReadStates,
         s = [rs EXCEPT !.to = s.to],
         Size(s) <= MaxLen,
         s.to = taken', taken' \in 0..input.len, rs' = Parsed(s),
         UNCHANGED <<input, out>>
  PROVE  rs' \in ReadStates /\ ReadInv' /\ BytesInOrder' /\ LookedAt' /\ FoundInv'
  <1> USE DEF ProxyInv
  <1>1. rs.from = 1 /\ out = <<>> /\ ~rs.hdr /\ rs \in ReadStates
    BY DEF BytesInOrder, ReadInv, TypeOK
  <1>2. /\ s.st = "Reading" /\ ~s.hdr /\ s.from = 1 /\ s.to \in Nat
        /\ s.err \in BOOLEAN /\ s.to <= MaxLen
    BY <1>1 DEF ReadStates, Size
  <1>3. MinLen \in Nat /\ MaxLen \in Nat
    BY InputAssumption
  <1>4. CASE Parsed(s) = s /\ (s.to < MinLen \/ s.to \in input.cr)
    BY <1>1, <1>2, <1>3, <1>4
    DEF ReadInv, BytesInOrder, LookedAt, FoundInv, Size, Kept
  <1>5. CASE /\ Parsed(s) = [s EXCEPT !.st = "Header", !.hdr = TRUE, !.from = 1 + input.hdr]
             /\ input.kind = "proxy" /\ input.hdr <= s.to
    <2>0. 1 + input.hdr \in Nat
      BY InputTypes
    <2>1. rs' \in ReadStates
      BY <1>5, <1>2, <2>0 DEF ReadStates
    <2>2. /\ rs'.st = "Header" /\ rs'.hdr /\ rs'.from = 1 + input.hdr /\ rs'.to = s.to
      BY <1>5, <1>2 DEF ReadStates
    <2> QED
      BY <2>1, <2>2, <1>1, <1>2, <1>3, <1>5, InputTypes
      DEF ReadInv, BytesInOrder, LookedAt, FoundInv, Size, Kept, Due, First
  <1>6. CASE Parsed(s) = [s EXCEPT !.st = "Header"] /\ input.kind # "proxy"
    <2>1. rs' \in ReadStates
      BY <1>6, <1>2 DEF ReadStates
    <2>2. rs'.st = "Header" /\ ~rs'.hdr /\ rs'.from = 1 /\ rs'.to = s.to
      BY <1>6, <1>2 DEF ReadStates
    <2> QED
      BY <2>1, <2>2, <1>1, <1>2, <1>3, <1>6, InputTypes
      DEF ReadInv, BytesInOrder, LookedAt, FoundInv, Findable, Size, Kept, Due, First
  <1>7. CASE /\ Parsed(s) = [s EXCEPT !.st = "Error", !.err = TRUE]
             /\ s.to = MaxLen
             /\ input.kind = "proxy" => input.hdr > s.to
    <2>1. rs' \in ReadStates
      BY <1>7, <1>2 DEF ReadStates
    <2>2. rs'.st = "Error" /\ ~rs'.hdr /\ rs'.from = 1 /\ rs'.to = s.to
      BY <1>7, <1>2 DEF ReadStates
    <2> QED
      BY <2>1, <2>2, <1>1, <1>2, <1>3, <1>7, InputTypes
      DEF ReadInv, BytesInOrder, LookedAt, FoundInv, Findable, Size, Kept, Due, First
  <1>8. CASE /\ Parsed(s) = [s EXCEPT !.err = TRUE]
             /\ input.kind = "proxy" => input.hdr > s.to
    <2>1. rs' \in ReadStates
      BY <1>8, <1>2 DEF ReadStates
    <2>2. rs'.st = "Reading" /\ ~rs'.hdr /\ rs'.from = 1 /\ rs'.to = s.to
      BY <1>8, <1>2 DEF ReadStates
    <2> QED
      BY <2>1, <2>2, <1>1, <1>2, <1>3, <1>8, InputTypes
      DEF ReadInv, BytesInOrder, LookedAt, FoundInv, Size, Kept
  <1> QED
    BY <1>1, <1>2, <1>4, <1>5, <1>6, <1>7, <1>8, ParsedCases

\* One round of the loop, with bytes read or with a full buffer.
LEMMA ReadMoreInv ==
  ASSUME ProxyInv, (\E n \in Positions(MaxLen) : ReadMore(n)) \/ ParseFull
  PROVE  ProxyInv'
  <1>1. CASE \E n \in Positions(MaxLen) : ReadMore(n)
    <2> PICK n \in Positions(MaxLen) : ReadMore(n)
      BY <1>1
    <2> DEFINE s == [rs EXCEPT !.to = rs.to + n]
    <2>1. n \in Nat /\ rs.st = "Reading" /\ rs \in ReadStates /\ MaxLen \in Nat
      BY InputAssumption DEF ReadMore, Polling, Positions, ProxyInv, TypeOK
    <2>2. rs.to = taken /\ taken \in Nat /\ input.len \in Nat
      BY <2>1, InputTypes DEF ProxyInv, BytesInOrder, TypeOK
    <2>3. taken' = taken + n /\ taken' \in 0..input.len
      BY <2>1, <2>2 DEF ReadMore
    <2>4. /\ s \in ReadStates /\ s.to = rs.to + n
          /\ s = [rs EXCEPT !.to = s.to]
          /\ Size(s) <= MaxLen
      BY <2>1, <2>2 DEF ReadStates, ReadMore, Size
    <2>5. rs' = Parsed(s)
      BY DEF ReadMore
    <2>6. rs' \in ReadStates /\ ReadInv' /\ BytesInOrder' /\ LookedAt' /\ FoundInv'
      <3> HIDE DEF s
      <3> QED
        BY <2>1, <2>2, <2>3, <2>4, <2>5, ParsedInv DEF ReadMore
    <2>7. TypeOK'
      BY <2>3, <2>6 DEF ReadMore, ProxyInv, TypeOK
    <2>8. WriteInv' /\ WireInOrder'
      BY WriteHalfKept DEF ReadMore, writeVars
    <2> QED
      BY <2>6, <2>7, <2>8 DEF ProxyInv
  <1>2. CASE ParseFull
    <2>1. rs.st = "Reading" /\ rs \in ReadStates
      BY <1>2 DEF ParseFull, Polling, ProxyInv, TypeOK
    <2>2. rs.to = taken /\ Size(rs) <= MaxLen /\ taken \in 0..input.len
      BY <2>1 DEF ProxyInv, BytesInOrder, TypeOK, ReadInv
    <2>3. rs = [rs EXCEPT !.to = rs.to]
      BY <2>1 DEF ReadStates
    <2>4. rs' \in ReadStates /\ ReadInv' /\ BytesInOrder' /\ LookedAt' /\ FoundInv'
      BY <1>2, <2>1, <2>2, <2>3, ParsedInv DEF ParseFull
    <2>5. TypeOK'
      BY <1>2, <2>4 DEF ParseFull, ProxyInv, TypeOK
    <2>6. WriteInv' /\ WireInOrder'
      BY <1>2, WriteHalfKept DEF ParseFull, writeVars
    <2> QED
      BY <2>4, <2>5, <2>6 DEF ProxyInv
  <1> QED
    BY <1>1, <1>2

\* The search ends with the input, or with a failure of the inner stream: every
\* byte read is kept, and a header that can be found would have been found.
LEMMA EndedInv ==
  ASSUME ProxyInv, ReadEof \/ \E n \in 0..MaxLen : ReadFails(n)
  PROVE  ProxyInv'
  <1> PICK n \in 0..MaxLen :
        /\ Polling /\ HasRoom
        /\ taken' = taken + n
        /\ rs' = Ended([rs EXCEPT !.to = rs.to + n])
        /\ (n = 0 /\ taken = input.len) \/ input.fails
        /\ taken + n <= input.len
        /\ answer' \in {"none", "io", "error", "some", "no"}
        /\ call' \in {"none", "header", "read"}
        /\ UNCHANGED <<input, out, writeVars>>
    <2>1. CASE ReadEof
      <3>1. 0 \in 0..MaxLen /\ taken + 0 = taken /\ rs.to + 0 = rs.to
            /\ taken \in Nat /\ input.len \in Nat
        BY InputAssumption, InputTypes DEF ProxyInv, TypeOK, ReadStates
      <3>2. [rs EXCEPT !.to = rs.to] = rs
        BY DEF ProxyInv, TypeOK, ReadStates
      <3> QED
        BY <2>1, <3>1, <3>2 DEF ReadEof, writeVars, ProxyInv, TypeOK
    <2>2. CASE \E n \in 0..MaxLen : ReadFails(n)
      BY <2>2 DEF ReadFails, writeVars, ProxyInv, TypeOK
    <2> QED
      BY <2>1, <2>2
  <1>1. /\ rs \in ReadStates /\ rs.st = "Reading" /\ ~rs.hdr /\ rs.from = 1
        /\ rs.to = taken /\ taken \in Nat /\ out = <<>> /\ n \in Nat
        /\ MinLen \in Nat /\ input.len \in Nat
    BY InputTypes, InputAssumption DEF Polling, ProxyInv, TypeOK, ReadInv, BytesInOrder
  <1>2. rs' \in ReadStates
    <2> DEFINE s == [rs EXCEPT !.to = rs.to + n]
    <2>1. s \in ReadStates
      BY <1>1 DEF ReadStates
    <2>2. (IF s.err THEN "Error" ELSE "Header") \in {"Reading", "Error", "Header", "None"}
      OBVIOUS
    <2>3. [s EXCEPT !.st = IF s.err THEN "Error" ELSE "Header"] \in ReadStates
      <3> HIDE DEF s
      <3> QED
        BY <2>1, <2>2 DEF ReadStates
    <2> QED
      BY <2>3 DEF Ended
  <1>3. /\ rs'.st \in {"Header", "Error"} /\ ~rs'.hdr /\ rs'.from = 1 /\ rs'.to = taken'
    BY <1>1 DEF Ended, ReadStates
  <1>4. ReadInv' /\ BytesInOrder' /\ LookedAt'
    BY <1>1, <1>2, <1>3 DEF ReadInv, BytesInOrder, LookedAt, Size, Kept, Due, First
  <1>5. FoundInv'
    <2>1. ~Findable
      BY <1>1, InputTypes DEF ProxyInv, LookedAt, Findable
    <2> QED
      BY <2>1 DEF FoundInv, Findable
  <1>6. TypeOK'
    BY <1>1, <1>2 DEF ProxyInv, TypeOK, writeVars
  <1> QED
    BY <1>4, <1>5, <1>6, WriteHalfKept DEF ProxyInv

\* A delivery of the n bytes that are due comes right behind the ones before.
LEMMA DeliverInOrder ==
  ASSUME TypeOK, BytesInOrder, First' = First, First \in Nat,
         NEW n \in Nat \ {0}, NEW first \in Nat, first = Due,
         Deliver(n, first)
  PROVE  /\ out' \in Seq(Interval) /\ out' # <<>>
         /\ Due' = first + n
         /\ out'[1].from = First'
         /\ \A i \in 1..(Len(out') - 1) : out'[i + 1].from = out'[i].to + 1
  <1> DEFINE d == [from |-> first, to |-> first + n - 1]
  <1>1. d \in Interval /\ d.from = first /\ d.to = first + n - 1
    BY DEF Interval
  <1>2. out' = Append(out, d) /\ out \in Seq(Interval)
    BY DEF Deliver, TypeOK
  <1> HIDE DEF d
  <1>3. /\ out' \in Seq(Interval) /\ Len(out') = Len(out) + 1 /\ Len(out) \in Nat
        /\ out'[Len(out) + 1] = d
        /\ \A i \in 1..Len(out) : out'[i] = out[i]
    BY <1>1, <1>2
  <1>4. out' # <<>> /\ out'[Len(out')] = d
    BY <1>3
  <1>5. Due' = first + n
    BY <1>1, <1>4 DEF Due
  <1>6. out'[1].from = First'
    <2>1. CASE out = <<>>
      BY <2>1, <1>1, <1>3 DEF Due
    <2>2. CASE out # <<>>
      <3>1. Len(out) >= 1
        BY <1>2, <2>2
      <3> QED
        BY <2>2, <3>1, <1>3 DEF BytesInOrder
    <2> QED
      BY <2>1, <2>2
  <1>7. ASSUME NEW i \in 1..(Len(out') - 1)
        PROVE  out'[i + 1].from = out'[i].to + 1
    <2>1. CASE i < Len(out)
      BY <1>3, <2>1 DEF BytesInOrder
    <2>2. CASE i = Len(out)
      <3>1. out # <<>>
        BY <1>3, <2>2
      <3> QED
        BY <1>1, <1>3, <2>2, <3>1 DEF Due
    <2> QED
      BY <1>3, <2>1, <2>2
  <1> QED
    BY <1>3, <1>4, <1>5, <1>6, <1>7

\* poll_read hands over what was kept, as much of it as there is room for.
LEMMA ReadKeptInv ==
  ASSUME ProxyInv, NEW room \in Rooms, ReadKept(room)
  PROVE  ProxyInv'
  <1> DEFINE n == IF room < Size(rs) THEN room ELSE Size(rs)
  <1>1. rs \in ReadStates /\ rs.from \in Nat /\ rs.to \in Nat /\ rs.hdr \in BOOLEAN
        /\ rs.from >= 1 /\ rs.st \in {"Error", "Header"} /\ Size(rs) \in Nat \ {0}
    BY DEF ReadKept, Kept, ProxyInv, TypeOK, ReadStates, ReadInv, Size
  <1>2. n \in Nat \ {0} /\ n <= rs.to - rs.from + 1
    BY <1>1, InputAssumption DEF Size
  <1>3. Deliver(n, rs.from) /\ rs' = [rs EXCEPT !.from = rs.from + n] /\ call' = "none"
        /\ UNCHANGED <<input, taken, answer, writeVars>>
    BY DEF ReadKept, writeVars
  <1> HIDE DEF n
  <1>4. rs' \in ReadStates /\ rs'.from = rs.from + n /\ rs'.to = rs.to /\ rs'.hdr = rs.hdr
        /\ rs'.st = rs.st
    BY <1>1, <1>2, <1>3 DEF ReadStates
  <1>5. rs.from = Due /\ rs.to = taken
    BY DEF ReadKept, ProxyInv, BytesInOrder
  <1>6. First' = First /\ First \in Nat
    BY <1>3, <1>4, InputTypes DEF First, ProxyInv
  <1>7. /\ out' \in Seq(Interval) /\ out' # <<>> /\ Due' = rs.from + n
        /\ out'[1].from = First'
        /\ \A i \in 1..(Len(out') - 1) : out'[i + 1].from = out'[i].to + 1
    BY <1>1, <1>2, <1>3, <1>5, <1>6, DeliverInOrder DEF ProxyInv
  <1>8. BytesInOrder'
    BY <1>1, <1>2, <1>3, <1>4, <1>5, <1>7 DEF BytesInOrder, Kept, Size
  <1>9. ReadInv' /\ LookedAt' /\ FoundInv'
    BY <1>1, <1>2, <1>3, <1>4
    DEF ProxyInv, ReadInv, LookedAt, FoundInv, Findable, Size
  <1>10. TypeOK'
    BY <1>3, <1>4, <1>7 DEF ProxyInv, TypeOK, writeVars
  <1> QED
    BY <1>3, <1>8, <1>9, <1>10, WriteHalfKept DEF ProxyInv

\* poll_read passes on what the inner stream delivers once nothing is kept.
LEMMA ReadInnerInv ==
  ASSUME ProxyInv, NEW room \in Rooms, NEW n \in Positions(room), ReadInner(room, n)
  PROVE  ProxyInv'
  <1>1. rs.st # "Reading" /\ ~Kept /\ Due = taken + 1 /\ taken \in Nat /\ n \in Nat \ {0}
        /\ input.len \in Nat
    BY InputAssumption, InputTypes
    DEF ReadInner, Direct, Positions, ProxyInv, BytesInOrder, TypeOK
  <1>2. Deliver(n, taken + 1) /\ taken' = taken + n /\ taken + n <= input.len /\ call' = "none"
        /\ UNCHANGED <<input, rs, answer, writeVars>>
    BY DEF ReadInner, writeVars
  <1>3. First' = First /\ First \in Nat
    BY <1>2, InputTypes DEF First, ProxyInv
  <1>4. /\ out' \in Seq(Interval) /\ out' # <<>> /\ Due' = taken + 1 + n
        /\ out'[1].from = First'
        /\ \A i \in 1..(Len(out') - 1) : out'[i + 1].from = out'[i].to + 1
    BY <1>1, <1>2, <1>3, DeliverInOrder DEF ProxyInv
  <1>5. BytesInOrder'
    <2>1. ~Kept'
      BY <1>1, <1>2 DEF Kept, Size
    <2> QED
      BY <1>1, <1>2, <1>4, <2>1 DEF BytesInOrder
  <1>6. ReadInv' /\ LookedAt' /\ FoundInv'
    BY <1>2 DEF ProxyInv, ReadInv, LookedAt, FoundInv, Findable, Size
  <1>7. TypeOK'
    BY <1>1, <1>2, <1>4 DEF ProxyInv, TypeOK, writeVars
  <1> QED
    BY <1>2, <1>5, <1>6, <1>7, WriteHalfKept DEF ProxyInv

\* The calls that only start, stop or answer.
LEMMA CallInv ==
  ASSUME ProxyInv,
         (\E c \in {"header", "read"} : Poll(c)) \/ Cancel \/ HeaderDone \/ ReadInnerEnds
  PROVE  ProxyInv'
  <1>1. UNCHANGED <<input, readVars, writeVars>>
    BY DEF Poll, Cancel, HeaderDone, ReadInnerEnds, readVars, writeVars
  <1>2. /\ call' \in {"none", "header", "read"}
        /\ answer' \in {"none", "io", "error", "some", "no"}
    BY DEF Poll, Cancel, HeaderDone, ReadInnerEnds, ProxyInv, TypeOK
  <1>3. TypeOK'
    BY <1>1, <1>2 DEF ProxyInv, TypeOK, readVars, writeVars
  <1> QED
    BY <1>1, <1>3, ReadHalfKept, WriteHalfKept DEF ProxyInv
----------------------------------------------------------------------------
(* The write half.                                                         *)

\* The wire after one more write w.
LEMMA WireAppended ==
  ASSUME ProxyInv, NEW w \in Writes, wire' = Append(wire, w), UNCHANGED input,
         wire = <<>> => w.from = 1 /\ (w.what = "data" => input.mode # "outgoing"),
         wire # <<>> /\ w.what = wire[Len(wire)].what => w.from = wire[Len(wire)].to + 1,
         wire # <<>> /\ w.what # wire[Len(wire)].what =>
           wire[Len(wire)].what = "header" /\ wire[Len(wire)].to = OutLen /\ w.from = 1
  PROVE  /\ wire' \in Seq(Writes) /\ wire' # <<>> /\ wire'[Len(wire')] = w
         /\ WireInOrder'
  <1>1. wire \in Seq(Writes)
    BY DEF ProxyInv, TypeOK
  <1>2. /\ wire' \in Seq(Writes) /\ Len(wire') = Len(wire) + 1 /\ Len(wire) \in Nat
        /\ wire'[Len(wire) + 1] = w
        /\ \A i \in 1..Len(wire) : wire'[i] = wire[i]
        /\ wire # <<>> => Len(wire) >= 1
        /\ wire = <<>> => Len(wire) = 0
    BY <1>1
  <1>3. wire' # <<>>
    BY <1>2
  <1>4. wire'[1].what = "data" => input'.mode # "outgoing"
    BY <1>2 DEF ProxyInv, WireInOrder
  <1>5. ASSUME NEW i \in 1..Len(wire')
        PROVE  /\ i = 1 => wire'[i].from = 1
               /\ i > 1 /\ wire'[i].what = wire'[i - 1].what => wire'[i].from = wire'[i - 1].to + 1
               /\ i > 1 /\ wire'[i].what # wire'[i - 1].what =>
                    wire'[i - 1].what = "header" /\ wire'[i - 1].to = OutLen /\ wire'[i].from = 1
    <2>1. CASE i <= Len(wire)
      <3>1. i \in 1..Len(wire) /\ (i > 1 => i - 1 \in 1..Len(wire))
        BY <1>2, <2>1
      <3>2. wire'[i] = wire[i] /\ (i > 1 => wire'[i - 1] = wire[i - 1])
        BY <1>2, <3>1
      <3> QED
        BY <3>1, <3>2 DEF ProxyInv, WireInOrder
    <2>2. CASE i = Len(wire) + 1
      <3>1. wire'[i] = w /\ (i > 1 => wire # <<>> /\ wire'[i - 1] = wire[Len(wire)])
            /\ (i = 1 => wire = <<>>)
        BY <1>2, <2>2
      <3> QED
        BY <3>1
    <2> QED
      BY <1>2, <2>1, <2>2
  <1>6. WireInOrder'
    BY <1>4, <1>5 DEF WireInOrder
  <1> QED
    BY <1>2, <1>3, <1>6

\* poll_write_header_once, a short write included.
LEMMA WriteHeaderInv ==
  ASSUME ProxyInv, NEW n \in Positions(OutLen), WriteHeader(n)
  PROVE  ProxyInv'
  <1> DEFINE w == [what |-> "header", from |-> OutLen - ws + 1, to |-> OutLen - ws + n]
  <1>1. n \in Nat \ {0} /\ ws \in 0..OutLen /\ OutLen \in Nat /\ n <= ws /\ wrote \in Nat /\ wcall \in Nat
        /\ MaxData \in Nat
    BY InputAssumption DEF WriteHeader, Positions, ProxyInv, TypeOK
  <1>2. w \in Writes /\ w.what = "header" /\ w.from = OutLen - ws + 1 /\ w.to = OutLen - ws + n
    BY <1>1 DEF Writes
  <1>3. wire' = Append(wire, w) /\ ws' = ws - n /\ UNCHANGED <<input, readVars, wcall, wrote>>
        /\ UNCHANGED <<call, answer>>
    BY DEF WriteHeader, readVars
  <1> HIDE DEF w
  <1>4. wire # <<>> => wire[Len(wire)].what = "header" /\ wire[Len(wire)].to = OutLen - ws /\ wrote = 0
    <2> SUFFICES ASSUME wire # <<>> PROVE wire[Len(wire)].what = "header"
      BY DEF ProxyInv, WriteInv
    <2>1. wire[Len(wire)] \in Writes
      BY DEF ProxyInv, TypeOK
    <2>2. wire[Len(wire)].what \in {"header", "data"}
      BY <2>1 DEF Writes
    <2> QED
      BY <2>2, <1>1 DEF ProxyInv, WriteInv
  <1>5. wire = <<>> => ws = OutLen /\ wrote = 0
    BY <1>1 DEF ProxyInv, WriteInv
  <1>6. /\ wire' \in Seq(Writes) /\ wire' # <<>> /\ wire'[Len(wire')] = w
        /\ WireInOrder'
    BY <1>1, <1>2, <1>3, <1>4, <1>5, WireAppended
  <1>7. WriteInv'
    BY <1>1, <1>2, <1>3, <1>4, <1>5, <1>6 DEF ProxyInv, WriteInv
  <1>8. TypeOK'
    BY <1>1, <1>3, <1>6 DEF ProxyInv, TypeOK, readVars
  <1> QED
    BY <1>3, <1>6, <1>7, <1>8, ReadHalfKept DEF ProxyInv

\* The write of the application's bytes once the header is out.
LEMMA WriteDataInv ==
  ASSUME ProxyInv, NEW n \in Positions(MaxData), WriteData(n)
  PROVE  ProxyInv'
  <1> DEFINE w == [what |-> "data", from |-> wrote + 1, to |-> wrote + n]
  <1>1. n \in Nat \ {0} /\ ws = 0 /\ OutLen \in Nat \ {0} /\ n <= wcall /\ wrote \in Nat
        /\ wcall \in Nat /\ MaxData \in Nat /\ wcall + wrote <= MaxData
    BY InputAssumption DEF WriteData, Positions, ProxyInv, TypeOK, WriteInv
  <1>2. w \in Writes /\ w.what = "data" /\ w.from = wrote + 1 /\ w.to = wrote + n
    BY <1>1 DEF Writes
  <1>3. wire' = Append(wire, w) /\ wrote' = wrote + n /\ wcall' = 0
        /\ UNCHANGED <<input, readVars, ws, call, answer>>
    BY DEF WriteData, readVars
  <1> HIDE DEF w
  <1>4. wire = <<>> => wrote = 0 /\ input.mode # "outgoing"
    BY <1>1 DEF ProxyInv, WriteInv
  <1>5. wire # <<>> => wire[Len(wire)].what \in {"header", "data"}
    <2> SUFFICES ASSUME wire # <<>> PROVE wire[Len(wire)] \in Writes
      BY DEF Writes
    <2> QED
      BY DEF ProxyInv, TypeOK
  <1>6. /\ wire' \in Seq(Writes) /\ wire' # <<>> /\ wire'[Len(wire')] = w
        /\ WireInOrder'
    <2>1. wire # <<>> /\ w.what = wire[Len(wire)].what => w.from = wire[Len(wire)].to + 1
      BY <1>1, <1>2 DEF ProxyInv, WriteInv
    <2>2. wire # <<>> /\ w.what # wire[Len(wire)].what =>
            wire[Len(wire)].what = "header" /\ wire[Len(wire)].to = OutLen /\ w.from = 1
      BY <1>1, <1>2, <1>5 DEF ProxyInv, WriteInv
    <2> QED
      BY <1>1, <1>2, <1>3, <1>4, <2>1, <2>2, WireAppended
  <1>7. WriteInv'
    BY <1>1, <1>2, <1>3, <1>6 DEF ProxyInv, WriteInv
  <1>8. TypeOK'
    BY <1>1, <1>3, <1>6 DEF ProxyInv, TypeOK, readVars
  <1> QED
    BY <1>3, <1>6, <1>7, <1>8, ReadHalfKept DEF ProxyInv

\* A write is started, or given up with what is left of the header kept.
LEMMA WriteCallInv ==
  ASSUME ProxyInv, (\E n \in Positions(MaxData) : PollWrite(n)) \/ WriteFails
  PROVE  ProxyInv'
  <1>1. UNCHANGED <<input, readVars, call, answer, ws, wrote, wire>>
    BY DEF PollWrite, WriteFails, readVars
  <1>2. wcall' \in 0..MaxData /\ wcall' + wrote <= MaxData /\ MaxData \in Nat /\ wrote \in Nat
    BY InputAssumption DEF PollWrite, WriteFails, Positions, ProxyInv, TypeOK
  <1>3. TypeOK'
    BY <1>1, <1>2 DEF ProxyInv, TypeOK, readVars
  <1>4. WriteInv' /\ WireInOrder'
    BY <1>1, <1>2 DEF ProxyInv, WriteInv, WireInOrder
  <1> QED
    BY <1>1, <1>3, <1>4, ReadHalfKept DEF ProxyInv
----------------------------------------------------------------------------
\* Every step keeps the invariant.
LEMMA StepInv == ProxyInv /\ [Next]_vars => ProxyInv'
  <1> SUFFICES ASSUME ProxyInv, [Next]_vars PROVE ProxyInv'
    OBVIOUS
  <1>1. CASE ReadStep
    BY <1>1, ReadMoreInv, EndedInv, CallInv, ReadKeptInv, ReadInnerInv DEF ReadStep
  <1>2. CASE \E n \in Positions(MaxData) : PollWrite(n) \/ WriteData(n)
    BY <1>2, WriteCallInv, WriteDataInv
  <1>3. CASE \E n \in Positions(OutLen) : WriteHeader(n)
    BY <1>3, WriteHeaderInv
  <1>4. CASE \/ \E c \in {"header", "read"} : Poll(c)
             \/ Cancel \/ WriteFails
             \/ \E n \in 0..MaxLen : ReadFails(n)
    BY <1>4, CallInv, EndedInv, WriteCallInv
  <1>5. CASE UNCHANGED vars
    <2>1. UNCHANGED <<input, readVars, writeVars, call, answer>>
      BY <1>5 DEF vars, readVars, writeVars
    <2>2. TypeOK'
      BY <2>1 DEF ProxyInv, TypeOK, readVars, writeVars
    <2> QED
      BY <2>1, <2>2, ReadHalfKept, WriteHalfKept DEF ProxyInv
  <1> QED
    BY <1>1, <1>2, <1>3, <1>4, <1>5 DEF Next

\* Neither half of a proxy_proto::Stream loses, repeats or reorders a byte, for
\* every input, every size of the reads and writes below and above it, short
\* and failed writes, and calls that are given up (poll_read_header_once,
\* poll_read, poll_write_header_once, poll_write).
THEOREM KeepsBytes == Spec => []BytesKept
  <1>1. ProxyInv => BytesKept
    BY DEF ProxyInv, BytesKept
  <1> QED
    BY <1>1, InitInv, StepInv, PTL DEF Spec

\* A PROXY header is found wherever the input is cut, nothing else is taken for
\* one and the parser never panics (the MIN_HEADER_LEN and '\r' tests and
\* last_err of poll_read_header_once).
THEOREM FindsHeader == Spec => []CutIndependent
  <1>1. ProxyInv => CutIndependent
    BY DEF ProxyInv, CutIndependent, ReadInv, FoundInv, TypeOK, ReadStates
  <1> QED
    BY <1>1, InitInv, StepInv, PTL DEF Spec
=============================================================================
