--------------------------- MODULE IncomingProofs ---------------------------
(***************************************************************************)
(* Proofs about Incoming, for any number of streams, every mix of their    *)
(* types, every set of handlers and every window.                          *)
(***************************************************************************)
EXTENDS Incoming, TLAPS

InStream == loop.pc \in {"type", "body"}

\* Stream s is behind the loop: opened, and neither queued nor being read.
Behind(s) ==
  /\ s <= opened
  /\ \A i \in 1..Len(queue) : s < queue[i]
  /\ InStream => s < loop.s

\* The streams queued, the one the loop is in and those it is through with are
\* in the order in which they were opened.
OrderInv ==
  /\ \A i, j \in 1..Len(queue) : i < j => queue[i] < queue[j]
  /\ InStream => loop.s >= 1 /\ \A i \in 1..Len(queue) : loop.s < queue[i]
  /\ \A k \in 1..Len(got) : Behind(got[k])
  /\ \A s \in Streams : task[s] # "none" => Behind(s)

Answers == Seq(Types \cup {"id", "zero"})

\* What a task has written, by what it is.
TaskInv ==
  /\ answer \in [Streams -> Answers]
  /\ \A s \in Streams :
       /\ task[s] \in {"none", "read", "run", "write"} => answer[s] = <<>>
       /\ task[s] \in {"read", "run", "write"} => typ[s] \in Commands
       /\ task[s] = "echo" => typ[s] = "Heartbeat"
       /\ task[s] # "none" => typ[s] # None

\* The inductive invariant.
LoopInv == TypeOK /\ OrderInv /\ TaskInv /\ InOrder /\ DownHasCause
----------------------------------------------------------------------------
\* The session starts with no stream and no task.
LEMMA InitInv == Init => LoopInv
  <1> SUFFICES ASSUME Init PROVE LoopInv
    OBVIOUS
  <1>1. TypeOK
    BY IncomingAssumption DEF Init, TypeOK, Streams, Tasks
  <1>2. OrderInv /\ InOrder /\ DownHasCause
    BY DEF Init, OrderInv, InOrder, DownHasCause, InStream
  <1>3. TaskInv
    BY DEF Init, TaskInv, Answers
  <1> QED
    BY <1>1, <1>2, <1>3 DEF LoopInv

\* The values of the constants that the proofs use.
LEMMA Constants ==
  /\ MaxStreams \in Nat /\ Window \in Nat /\ None \notin Types
  /\ \A s \in Streams : s \in Nat /\ s >= 1 /\ s <= MaxStreams
  /\ "Heartbeat" \notin Commands
  BY IncomingAssumption DEF Streams, AllTypes, Commands, None
----------------------------------------------------------------------------
(* The service.                                                            *)

\* A new stream is queued behind all others.
LEMMA OpenInv == ASSUME LoopInv, OpenStream PROVE LoopInv'
  <1> USE DEF LoopInv
  <1>1. /\ opened \in Nat /\ opened' = opened + 1 /\ opened' \in 0..MaxStreams
        /\ queue \in Seq(1..opened) /\ loop \in [pc : {"accept", "type", "body", "down"}, s : 0..opened]
        /\ got \in Seq(Streams)
    BY IncomingAssumption DEF OpenStream, TypeOK
  <1>2. /\ UNCHANGED <<budget, typ, body, ended, conn, loop, session, got, bad, task, answer, held, rpc, reply>>
        /\ queue' = Append(queue, opened + 1)
    BY <1>1 DEF OpenStream, ServiceSame, taskVars, rpcVars
  <1>3. queue \in Seq(1..opened') /\ opened + 1 \in 1..opened'
    BY <1>1
  <1>4. /\ queue' \in Seq(1..opened') /\ Len(queue') = Len(queue) + 1 /\ Len(queue) \in Nat
        /\ \A i \in 1..Len(queue) : queue'[i] = queue[i] /\ queue[i] \in 1..opened
        /\ queue'[Len(queue) + 1] = opened + 1
    BY <1>1, <1>2, <1>3
  <1>5. TypeOK'
    BY <1>1, <1>2, <1>4 DEF TypeOK
  <1>6. ASSUME NEW s \in Int, Behind(s) PROVE Behind(s)'
    BY <1>1, <1>2, <1>4, <1>6 DEF Behind, InStream
  <1>7. OrderInv'
    <2>1. \A i, j \in 1..Len(queue') : i < j => queue'[i] < queue'[j]
      <3> SUFFICES ASSUME NEW i \in 1..Len(queue'), NEW j \in 1..Len(queue'), i < j
                   PROVE  queue'[i] < queue'[j]
        OBVIOUS
      <3>1. i \in 1..Len(queue) /\ queue'[i] = queue[i] /\ queue[i] \in 1..opened
        BY <1>4
      <3>2. CASE j \in 1..Len(queue)
        BY <1>4, <3>1, <3>2 DEF OrderInv
      <3>3. CASE j = Len(queue) + 1
        BY <1>1, <1>4, <3>1, <3>3
      <3> QED
        BY <1>4, <3>2, <3>3
    <2>2. InStream' => loop'.s >= 1 /\ \A i \in 1..Len(queue') : loop'.s < queue'[i]
      BY <1>1, <1>2, <1>4 DEF OrderInv, InStream
    <2>3. \A k \in 1..Len(got') : Behind(got[k])'
      <3>1. \A k \in 1..Len(got) : got[k] \in Int /\ Behind(got[k])
        BY <1>1, Constants DEF OrderInv
      <3>2. UNCHANGED got
        BY <1>2
      <3> QED
        BY <3>1, <3>2, <1>6
    <2>4. \A s \in Streams : task'[s] # "none" => Behind(s)'
      BY <1>2, <1>6, Constants DEF OrderInv
    <2> QED
      BY <1>2, <2>1, <2>2, <2>3, <2>4 DEF OrderInv
  <1>8. TaskInv' /\ InOrder' /\ DownHasCause'
    BY <1>2 DEF TaskInv, InOrder, DownHasCause
  <1> QED
    BY <1>5, <1>7, <1>8

\* The order of the streams is untouched when the variables it speaks of are.
LEMMA OrderKept ==
  ASSUME OrderInv, InOrder, UNCHANGED <<opened, queue, loop, got, task>>
  PROVE  OrderInv' /\ InOrder'
  BY DEF OrderInv, InOrder, Behind, InStream

\* What the service writes, and when it ends a stream, change no order; the type
\* of a stream that has a task is known already.
LEMMA ServiceInv ==
  ASSUME LoopInv,
         \/ \E s \in Streams, t \in Types : WriteType(s, t)
         \/ \E s \in Streams, b \in {"good", "bad"} : WriteBody(s, b)
         \/ \E s \in Streams : EndStream(s)
         \/ LoseConnection
  PROVE  LoopInv'
  <1> USE DEF LoopInv
  <1>1. UNCHANGED <<budget, opened, queue, loop, session, got, bad, task, answer, held, rpc, reply>>
    BY DEF WriteType, WriteBody, EndStream, LoseConnection, ServiceSame, taskVars, rpcVars
  <1>2. OrderInv' /\ InOrder'
    BY <1>1, OrderKept
  <1>3. CASE \E s \in Streams, t \in Types : WriteType(s, t)
    <2> PICK s \in Streams, t \in Types : WriteType(s, t)
      BY <1>3
    <2>1. typ' = [typ EXCEPT ![s] = t] /\ typ[s] = None /\ ~ended[s] /\ UNCHANGED <<body, ended, conn>>
      BY DEF WriteType
    <2>2. task[s] = "none" /\ answer[s] = <<>>
      BY <2>1 DEF TaskInv
    <2>3. typ' \in [Streams -> Types \cup {None}]
          /\ \A x \in Streams : x # s => typ'[x] = typ[x]
      BY <2>1 DEF TypeOK
    <2>4. TypeOK'
      <3>1. \A x \in Streams : Len(answer'[x]) <= (IF typ'[x] = "Heartbeat" THEN Window ELSE 1)
        <4>1. Len(answer[s]) = 0
          BY <2>2
        <4>2. ASSUME NEW x \in Streams, x # s
              PROVE  Len(answer'[x]) <= (IF typ'[x] = "Heartbeat" THEN Window ELSE 1)
          BY <1>1, <2>3, <4>2 DEF TypeOK
        <4>3. Len(answer'[s]) <= (IF typ'[s] = "Heartbeat" THEN Window ELSE 1)
          BY <1>1, <4>1, Constants
        <4> QED
          BY <4>2, <4>3
      <3> QED
        BY <1>1, <2>1, <2>3, <3>1 DEF TypeOK
    <2>5. TaskInv'
      BY <1>1, <2>1, <2>2, <2>3 DEF TaskInv
    <2>6. DownHasCause'
      BY <1>1, <2>1, <2>3 DEF DownHasCause, TypeOK
    <2> QED
      BY <1>2, <2>4, <2>5, <2>6
  <1>4. CASE \E s \in Streams, b \in {"good", "bad"} : WriteBody(s, b)
    BY <1>1, <1>2, <1>4 DEF WriteBody, TypeOK, TaskInv, DownHasCause
  <1>5. CASE LoseConnection \/ \E s \in Streams : EndStream(s)
    <2>1. /\ UNCHANGED <<typ, body>> /\ ended' \in [Streams -> BOOLEAN]
          /\ conn' \in {"up", "lost"} /\ (conn = "lost" => conn' = "lost")
          /\ \A s \in Streams : ended[s] => ended'[s]
      BY <1>5 DEF LoseConnection, EndStream, TypeOK
    <2>2. TypeOK' /\ TaskInv'
      BY <1>1, <2>1 DEF TypeOK, TaskInv
    <2>3. DownHasCause'
      <3>1. loop.s # 0 => loop.s \in Streams
        BY Constants DEF TypeOK, Streams
      <3> QED
        BY <1>1, <2>1, <3>1 DEF DownHasCause
    <2> QED
      BY <1>2, <2>2, <2>3
  <1> QED
    BY <1>3, <1>4, <1>5
----------------------------------------------------------------------------
(* The accept loop.                                                        *)

\* What the loop's variables are.
LEMMA LoopTypes ==
  ASSUME LoopInv
  PROVE  /\ opened \in Nat /\ opened <= MaxStreams
         /\ loop.pc \in {"accept", "type", "body", "down"}
         /\ loop.s \in 0..opened
         /\ InStream => loop.s \in Streams
         /\ \A s \in Streams : s \in Nat
         /\ queue \in Seq(1..opened) /\ got \in Seq(Streams)
  BY Constants DEF LoopInv, TypeOK, OrderInv, InStream, Streams

\* The loop takes the stream that was opened first, which is behind none.
LEMMA AcceptInv == ASSUME LoopInv, Accept PROVE LoopInv'
  <1> USE DEF LoopInv
  <1>1. /\ queue # <<>> /\ loop.pc = "accept" /\ loop' = [pc |-> "type", s |-> Head(queue)]
        /\ queue' = Tail(queue)
        /\ UNCHANGED <<budget, opened, typ, body, ended, conn, session, got, bad, task, answer, held, rpc, reply>>
    BY DEF Accept, At, service, taskVars, rpcVars
  <1>2. /\ queue \in Seq(1..opened) /\ Len(queue) \in Nat /\ Len(queue) >= 1
        /\ queue' \in Seq(1..opened) /\ Len(queue') = Len(queue) - 1
        /\ \A i \in 1..Len(queue') : i + 1 \in 1..Len(queue) /\ queue'[i] = queue[i + 1]
        /\ Head(queue) = queue[1] /\ queue[1] \in 1..opened
    BY <1>1, LoopTypes
  <1>3. loop'.pc = "type" /\ loop'.s = queue[1] /\ InStream' /\ ~InStream
    BY <1>1, <1>2 DEF InStream
  <1>4. TypeOK'
    BY <1>1, <1>2 DEF TypeOK
  <1>5. ASSUME NEW s, Behind(s) PROVE Behind(s)'
    BY <1>1, <1>2, <1>3, <1>5 DEF Behind
  <1>6. OrderInv'
    <2>1. \A i, j \in 1..Len(queue') : i < j => queue'[i] < queue'[j]
      <3> SUFFICES ASSUME NEW i \in 1..Len(queue'), NEW j \in 1..Len(queue'), i < j
                   PROVE  queue'[i] < queue'[j]
        OBVIOUS
      <3>1. i + 1 < j + 1 /\ i + 1 \in 1..Len(queue) /\ j + 1 \in 1..Len(queue)
        BY <1>2
      <3> QED
        BY <1>2, <3>1 DEF OrderInv
    <2>2. loop'.s >= 1 /\ \A i \in 1..Len(queue') : loop'.s < queue'[i]
      <3>1. loop'.s >= 1
        BY <1>2, <1>3, LoopTypes
      <3>2. ASSUME NEW i \in 1..Len(queue') PROVE loop'.s < queue'[i]
        <4>1. 1 \in 1..Len(queue) /\ i + 1 \in 1..Len(queue) /\ 1 < i + 1
          BY <1>2
        <4> QED
          BY <1>2, <1>3, <4>1 DEF OrderInv
      <3> QED
        BY <3>1, <3>2
    <2>3. \A k \in 1..Len(got') : Behind(got[k])'
      <3>1. \A k \in 1..Len(got) : Behind(got[k])
        BY DEF OrderInv
      <3> QED
        BY <1>1, <3>1, <1>5
    <2>4. \A s \in Streams : task'[s] # "none" => Behind(s)'
      BY <1>1, <1>5 DEF OrderInv
    <2> QED
      BY <1>1, <2>1, <2>2, <2>3, <2>4 DEF OrderInv
  <1>7. TaskInv' /\ InOrder' /\ DownHasCause'
    BY <1>1, <1>3 DEF TaskInv, InOrder, DownHasCause
  <1> QED
    BY <1>4, <1>6, <1>7

\* The loop leaves the stream it was in, or the session is down: everything it
\* was through with stays behind it.
LEMMA LeaveOrder ==
  ASSUME LoopInv, UNCHANGED <<opened, queue, got, task>>, ~InStream'
  PROVE  OrderInv' /\ InOrder'
  <1> USE DEF LoopInv
  <1>1. \A s : Behind(s) => Behind(s)'
    BY DEF Behind
  <1> QED
    BY <1>1 DEF OrderInv, InOrder

\* The stream that the loop is in will be behind it.
LEMMA LeftBehind ==
  ASSUME LoopInv, InStream, UNCHANGED <<opened, queue>>, ~InStream', NEW s, s = loop.s
  PROVE  Behind(s)'
  <1>1. loop.s <= opened /\ \A i \in 1..Len(queue) : loop.s < queue[i]
    BY LoopTypes DEF LoopInv, OrderInv
  <1> QED
    BY <1>1 DEF Behind

\* A stream that ends before its type, or the end of the connection.
LEMMA DownInv == ASSUME LoopInv, AcceptFails \/ NoType PROVE LoopInv'
  <1> USE DEF LoopInv
  <1>1. /\ loop' \in {[pc |-> "down", s |-> 0], [pc |-> "down", s |-> loop.s]}
        /\ UNCHANGED <<budget, opened, typ, body, ended, queue, conn, session, got, bad, task, answer, held, rpc, reply>>
    BY DEF AcceptFails, NoType, At, service, taskVars, rpcVars
  <1>2. ~InStream' /\ loop' \in [pc : {"accept", "type", "body", "down"}, s : 0..opened]
    BY <1>1, LoopTypes DEF InStream
  <1>3. TypeOK'
    BY <1>1, <1>2 DEF TypeOK
  <1>4. OrderInv' /\ InOrder' /\ TaskInv'
    BY <1>1, <1>2, LeaveOrder DEF TaskInv
  <1>5. DownHasCause'
    <2>1. CASE AcceptFails
      BY <1>1, <2>1 DEF AcceptFails, DownHasCause
    <2>2. CASE NoType
      <3>1. loop.s # 0
        BY <2>2, LoopTypes, Constants DEF NoType, InStream
      <3> QED
        BY <1>1, <2>2, <3>1 DEF NoType, DownHasCause, At
    <2> QED
      BY <2>1, <2>2
  <1> QED
    BY <1>3, <1>4, <1>5

\* A stream of a known type gets a task, or is read on; the others are dropped.
LEMMA ReadTypeInv == ASSUME LoopInv, ReadType PROVE LoopInv'
  <1> USE DEF LoopInv
  <1> PICK s \in Streams : s = loop.s
    BY LoopTypes DEF ReadType, InStream
  <1>1. /\ loop.pc = "type" /\ InStream /\ typ[s] # None /\ typ[s] \in Types
        /\ UNCHANGED <<budget, opened, typ, body, ended, queue, conn, session, got, answer, held, rpc, reply>>
    BY LoopTypes DEF ReadType, InStream, service, rpcVars, TypeOK
  <1>2. task[s] = "none"
    <2>1. ~Behind(s)
      BY <1>1, LoopTypes DEF Behind
    <2> QED
      BY <1>1, <2>1 DEF OrderInv
  <1>3. answer[s] = <<>>
    BY <1>1, <1>2 DEF TaskInv
  <1>4. \/ \E t \in {"echo", "read"} :
             /\ task' = [task EXCEPT ![s] = t] /\ loop' = [pc |-> "accept", s |-> 0] /\ bad' = bad
             /\ IF t = "echo" THEN typ[s] = "Heartbeat" ELSE typ[s] \in Commands
        \/ task' = task /\ loop' = [pc |-> "body", s |-> s] /\ bad' = bad
        \/ task' = task /\ loop' = [pc |-> "accept", s |-> 0] /\ bad' = bad \cup {s}
    BY <1>1, Constants DEF ReadType, Dispatch, Spawn, Back, At
  <1>5. ASSUME NEW t \in {"echo", "read"},
               task' = [task EXCEPT ![s] = t], loop' = [pc |-> "accept", s |-> 0], bad' = bad,
               IF t = "echo" THEN typ[s] = "Heartbeat" ELSE typ[s] \in Commands
        PROVE  LoopInv'
    <2>1. task' \in [Streams -> Tasks] /\ task'[s] = t /\ \A x \in Streams : x # s => task'[x] = task[x]
      BY <1>1, <1>5 DEF TypeOK, Tasks
    <2>2. ~InStream' /\ loop'.pc = "accept" /\ loop' \in [pc : {"accept", "type", "body", "down"}, s : 0..opened]
      BY <1>5, LoopTypes DEF InStream
    <2>3. TypeOK'
      BY <1>1, <1>5, <2>1, <2>2 DEF TypeOK
    <2>4. TaskInv'
      BY <1>1, <1>3, <1>5, <2>1 DEF TaskInv
    <2>5. OrderInv'
      <3>1. \A x : Behind(x) => Behind(x)'
        BY <1>1, <2>2 DEF Behind
      <3>2. Behind(s)'
        BY <1>1, <2>2, LeftBehind
      <3> QED
        BY <1>1, <2>1, <2>2, <3>1, <3>2 DEF OrderInv
    <2>6. InOrder' /\ DownHasCause'
      BY <1>1, <2>2 DEF InOrder, DownHasCause
    <2> QED
      BY <2>3, <2>4, <2>5, <2>6
  <1>6. CASE task' = task /\ loop' = [pc |-> "body", s |-> s] /\ bad' = bad
    <2>1. InStream' /\ loop'.s = loop.s /\ loop'.pc = "body"
          /\ loop' \in [pc : {"accept", "type", "body", "down"}, s : 0..opened]
      BY <1>6, LoopTypes DEF InStream
    <2>2. TypeOK' /\ TaskInv'
      BY <1>1, <1>6, <2>1 DEF TypeOK, TaskInv
    <2>3. OrderInv'
      BY <1>1, <1>6, <2>1 DEF OrderInv, Behind
    <2>4. InOrder' /\ DownHasCause'
      BY <1>1, <2>1 DEF InOrder, DownHasCause
    <2> QED
      BY <2>2, <2>3, <2>4
  <1>7. CASE task' = task /\ loop' = [pc |-> "accept", s |-> 0] /\ bad' = bad \cup {s}
    <2>1. ~InStream' /\ loop'.pc = "accept"
          /\ loop' \in [pc : {"accept", "type", "body", "down"}, s : 0..opened]
      BY <1>7, LoopTypes DEF InStream
    <2>2. TypeOK' /\ TaskInv'
      BY <1>1, <1>7, <2>1 DEF TypeOK, TaskInv
    <2>3. OrderInv' /\ InOrder' /\ DownHasCause'
      BY <1>1, <1>7, <2>1, LeaveOrder DEF DownHasCause
    <2> QED
      BY <2>2, <2>3
  <1> QED
    BY <1>4, <1>5, <1>6, <1>7

\* A request is acted upon, behind all that were acted upon before it.
LEMMA ReadBodyInv == ASSUME LoopInv, ReadBody PROVE LoopInv'
  <1> USE DEF LoopInv
  <1>1. /\ InStream /\ loop.s \in Streams
        /\ got' = Append(got, loop.s) /\ loop' = [pc |-> "accept", s |-> 0]
        /\ UNCHANGED <<budget, opened, typ, body, ended, queue, conn, session, bad, task, answer, held, rpc, reply>>
    BY LoopTypes DEF ReadBody, InStream, Back, At, service, taskVars, rpcVars
  <1>2. ~InStream' /\ loop'.pc = "accept"
        /\ loop' \in [pc : {"accept", "type", "body", "down"}, s : 0..opened]
    BY <1>1, LoopTypes DEF InStream
  <1>3. /\ got' \in Seq(Streams) /\ Len(got') = Len(got) + 1 /\ Len(got) \in Nat
        /\ \A k \in 1..Len(got) : got'[k] = got[k]
        /\ got'[Len(got) + 1] = loop.s
    BY <1>1, LoopTypes
  <1>4. TypeOK' /\ TaskInv' /\ DownHasCause'
    BY <1>1, <1>2, <1>3 DEF TypeOK, TaskInv, DownHasCause
  <1>5. \A x : Behind(x) => Behind(x)'
    BY <1>1, <1>2 DEF Behind
  <1>7. OrderInv'
    <2>1. ASSUME NEW k \in 1..Len(got') PROVE Behind(got[k])'
      <3>1. CASE k \in 1..Len(got)
        <4>1. Behind(got[k])
          BY <3>1 DEF OrderInv
        <4>2. got'[k] = got[k]
          BY <3>1, <1>3
        <4> QED
          BY <4>1, <4>2, <1>1, <1>2 DEF Behind
      <3>2. CASE k = Len(got) + 1
        <4>1. got'[k] = loop.s
          BY <3>2, <1>3
        <4>2. loop.s <= opened /\ \A i \in 1..Len(queue) : loop.s < queue[i]
          BY <1>1, LoopTypes DEF OrderInv
        <4> QED
          BY <4>1, <4>2, <1>1, <1>2 DEF Behind
      <3> QED
        BY <1>3, <3>1, <3>2
    <2> QED
      BY <1>1, <1>2, <1>5, <2>1 DEF OrderInv
  <1>8. InOrder'
    <2> SUFFICES ASSUME NEW i \in 1..Len(got'), NEW j \in 1..Len(got'), i < j
                 PROVE  got'[i] < got'[j]
      BY DEF InOrder
    <2>1. i \in 1..Len(got) /\ got'[i] = got[i]
      BY <1>3
    <2>2. CASE j \in 1..Len(got)
      BY <1>3, <2>1, <2>2 DEF InOrder
    <2>3. CASE j = Len(got) + 1
      BY <1>1, <1>3, <2>1, <2>3 DEF OrderInv, Behind
    <2> QED
      BY <1>3, <2>2, <2>3
  <1> QED
    BY <1>4, <1>7, <1>8

\* A bad request is dropped.
LEMMA BadBodyInv == ASSUME LoopInv, BadBody PROVE LoopInv'
  <1> USE DEF LoopInv
  <1>1. /\ InStream /\ loop.s \in Streams
        /\ bad' = bad \cup {loop.s} /\ loop' = [pc |-> "accept", s |-> 0]
        /\ UNCHANGED <<budget, opened, typ, body, ended, queue, conn, session, got, task, answer, held, rpc, reply>>
    BY LoopTypes DEF BadBody, InStream, Back, At, service, taskVars, rpcVars
  <1>2. ~InStream' /\ loop'.pc = "accept"
        /\ loop' \in [pc : {"accept", "type", "body", "down"}, s : 0..opened]
    BY <1>1, LoopTypes DEF InStream
  <1>3. TypeOK' /\ TaskInv'
    BY <1>1, <1>2 DEF TypeOK, TaskInv
  <1> QED
    BY <1>1, <1>2, <1>3, LeaveOrder DEF DownHasCause
----------------------------------------------------------------------------
(* The tasks.                                                              *)

loopVars == <<budget, opened, typ, body, ended, conn, queue, loop, session, got, bad, held, rpc, reply>>

\* A task that has one step more, or is over, and has written a: neither the loop
\* nor another task is concerned.
LEMMA TaskMoves ==
  ASSUME LoopInv, UNCHANGED loopVars,
         NEW s \in Streams, NEW t \in Tasks, NEW a \in Answers,
         task[s] # "none", t # "none",
         task' = [task EXCEPT ![s] = t], answer' = [answer EXCEPT ![s] = a],
         Len(a) <= (IF typ[s] = "Heartbeat" THEN Window ELSE 1),
         t \in {"read", "run", "write"} => a = <<>> /\ typ[s] \in Commands,
         t = "echo" => typ[s] = "Heartbeat"
  PROVE  LoopInv'
  <1> USE DEF LoopInv
  <1>0. UNCHANGED <<budget, opened, typ, body, ended, conn, queue, loop, session, got, bad, held, rpc, reply>>
    BY DEF loopVars
  <1>1. /\ task' \in [Streams -> Tasks] /\ answer' \in [Streams -> Answers]
        /\ task'[s] = t /\ answer'[s] = a
        /\ \A x \in Streams : x # s => task'[x] = task[x] /\ answer'[x] = answer[x]
    BY DEF TypeOK, TaskInv
  <1>2. TypeOK'
    <2>1. ASSUME NEW x \in Streams
          PROVE  Len(answer'[x]) <= (IF typ[x] = "Heartbeat" THEN Window ELSE 1)
      BY <1>1 DEF TypeOK
    <2> QED
      BY <1>0, <1>1, <2>1 DEF TypeOK
  <1>3. OrderInv'
    <2>1. \A x : Behind(x) <=> Behind(x)'
      BY <1>0 DEF Behind, InStream
    <2>2. \A x \in Streams : task'[x] # "none" => Behind(x)'
      BY <1>1, <2>1 DEF OrderInv
    <2>3. \A k \in 1..Len(got) : Behind(got[k])'
      BY <1>0 DEF OrderInv, Behind, InStream
    <2> QED
      BY <1>0, <2>2, <2>3 DEF OrderInv, InStream
  <1>4. TaskInv'
    BY <1>0, <1>1 DEF TaskInv
  <1>5. InOrder' /\ DownHasCause'
    BY <1>0 DEF InOrder, DownHasCause
  <1> QED
    BY <1>2, <1>3, <1>4, <1>5

\* handle_req and start_responder, step by step.
LEMMA TaskStepInv ==
  ASSUME LoopInv, NEW s \in Streams, TaskStep(s)
  PROVE  LoopInv'
  <1>1. /\ answer \in [Streams -> Answers] /\ answer[s] \in Answers
        /\ answer = [answer EXCEPT ![s] = answer[s]]
        /\ Len(answer[s]) <= (IF typ[s] = "Heartbeat" THEN Window ELSE 1)
        /\ task \in [Streams -> Tasks] /\ typ[s] \in Types \cup {None}
        /\ task[s] \in {"read", "run", "write"} => answer[s] = <<>> /\ typ[s] \in Commands
        /\ task[s] = "echo" => typ[s] = "Heartbeat"
    BY DEF LoopInv, TaskInv, TypeOK
  <1>2. CASE ReadReq(s)
    <2> PICK t \in {"exited", "run", "write"} :
           task[s] = "read" /\ task' = [task EXCEPT ![s] = t] /\ answer' = answer /\ UNCHANGED loopVars
      BY <1>2 DEF ReadReq, To, LoopSame, loopVars, service, rpcVars
    <2> QED
      BY <1>1, TaskMoves DEF Tasks
  <1>3. CASE RunHandler(s)
    <2>1. task[s] = "run" /\ task' = [task EXCEPT ![s] = "write"] /\ answer' = answer /\ UNCHANGED loopVars
      BY <1>3 DEF RunHandler, To, LoopSame, loopVars, service, rpcVars
    <2> QED
      BY <1>1, <2>1, TaskMoves DEF Tasks
  <1>4. CASE WriteAnswer(s)
    <2>1. task[s] = "write" /\ task' = [task EXCEPT ![s] = "exited"] /\ UNCHANGED loopVars
          /\ (answer' = [answer EXCEPT ![s] = <<typ[s]>>] \/ answer' = answer)
      BY <1>4 DEF WriteAnswer, To, LoopSame, loopVars, service, rpcVars
    <2>2. typ[s] \in Types /\ typ[s] # "Heartbeat"
      BY <1>1, <2>1, Constants DEF Commands, None
    <2>3. <<typ[s]>> \in Answers /\ Len(<<typ[s]>>) = 1
      BY <2>2 DEF Answers
    <2>4. CASE answer' = answer
      BY <1>1, <2>1, <2>4, TaskMoves DEF Tasks
    <2>5. CASE answer' = [answer EXCEPT ![s] = <<typ[s]>>]
      <3> PICK a \in Answers : a = <<typ[s]>> /\ Len(a) = 1
        BY <2>3
      <3>1. answer' = [answer EXCEPT ![s] = a]
        BY <2>5
      <3>2. Len(a) <= (IF typ[s] = "Heartbeat" THEN Window ELSE 1)
        BY <2>2
      <3> QED
        BY <2>1, <3>1, <3>2, TaskMoves DEF Tasks
    <2> QED
      BY <2>1, <2>4, <2>5
  <1>5. CASE Echo(s)
    <2> PICK w \in {"id", "zero"} :
           /\ task[s] = "echo" /\ task' = task /\ Len(answer[s]) < Window
           /\ answer' = [answer EXCEPT ![s] = Append(answer[s], w)]
           /\ UNCHANGED loopVars
      <3> DEFINE w == IF body[s] # None /\ answer[s] = <<>> THEN "id" ELSE "zero"
      <3>1. w \in {"id", "zero"}
        OBVIOUS
      <3>2. answer' = [answer EXCEPT ![s] = Append(answer[s], w)]
        BY <1>5 DEF Echo
      <3> HIDE DEF w
      <3> QED
        BY <1>5, <3>1, <3>2 DEF Echo, LoopSame, loopVars, service, rpcVars
    <2>1. Append(answer[s], w) \in Answers /\ Len(Append(answer[s], w)) = Len(answer[s]) + 1
          /\ Len(answer[s]) \in Nat
      BY <1>1 DEF Answers
    <2>2. task' = [task EXCEPT ![s] = "echo"] /\ "echo" \in Tasks
      BY <1>1 DEF Tasks
    <2>3. Len(Append(answer[s], w)) <= (IF typ[s] = "Heartbeat" THEN Window ELSE 1)
      BY <1>1, <2>1, Constants
    <2> QED
      BY <1>1, <2>1, <2>2, <2>3, TaskMoves
  <1>6. CASE EchoEnds(s)
    <2>1. task[s] = "echo" /\ task' = [task EXCEPT ![s] = "exited"] /\ answer' = answer /\ UNCHANGED loopVars
      BY <1>6 DEF EchoEnds, To, LoopSame, loopVars, service, rpcVars
    <2> QED
      BY <1>1, <2>1, TaskMoves DEF Tasks
  <1> QED
    BY <1>2, <1>3, <1>4, <1>5, <1>6 DEF TaskStep
----------------------------------------------------------------------------
(* RpcClient.                                                              *)

\* A call and the end of the client touch no stream of the service.
LEMMA RpcInv ==
  ASSUME LoopInv,
         DropClient \/ Call \/ Return \/ (\E w \in Replies \cup {"part"} : Reply(w))
         \/ UNCHANGED vars
  PROVE  LoopInv'
  <1> USE DEF LoopInv
  <1>1. /\ UNCHANGED <<budget, opened, typ, body, ended, conn, queue, loop, session, got, bad, task, answer>>
        /\ held' \in BOOLEAN /\ rpc' \in {"idle", "reading"} \cup Results
        /\ reply' \in Replies \cup {None, "part"}
    BY DEF DropClient, Call, Return, Decoded, Reply, RpcSame, Results, service, taskVars, rpcVars,
           vars, TypeOK
  <1>2. TypeOK' /\ TaskInv' /\ DownHasCause'
    BY <1>1 DEF TypeOK, TaskInv, DownHasCause
  <1> QED
    BY <1>1, <1>2, OrderKept

\* Every step keeps the invariant.
LEMMA StepInv == LoopInv /\ [Next]_vars => LoopInv'
  <1> SUFFICES ASSUME LoopInv, [Next]_vars PROVE LoopInv'
    OBVIOUS
  <1>1. CASE LoopStep
    BY <1>1, AcceptInv, DownInv, ReadTypeInv, ReadBodyInv, BadBodyInv DEF LoopStep
  <1>2. CASE \/ LoseConnection \/ OpenStream
             \/ \E s \in Streams, t \in Types : WriteType(s, t)
             \/ \E s \in Streams, b \in {"good", "bad"} : WriteBody(s, b)
    BY <1>2, OpenInv, ServiceInv
  <1>3. CASE \E s \in Streams : EndStream(s) \/ TaskStep(s)
    BY <1>3, ServiceInv, TaskStepInv
  <1>4. CASE DropClient \/ Call \/ Return \/ (\E w \in Replies \cup {"part"} : Reply(w))
             \/ UNCHANGED vars
    BY <1>4, RpcInv
  <1> QED
    BY <1>1, <1>2, <1>3, <1>4 DEF Next

\* The accept loop acts on connections and on StopTunnel requests in the order in
\* which the service opened their streams, is down only for a cause, and no task
\* answers twice or writes past the window, whatever the service sends and
\* wherever it stops (IncomingStreams::accept, accept_one, handle_req,
\* start_responder).
THEOREM OrderlyLoop == Spec => []LoopIsOrderly
  <1>1. LoopInv => LoopIsOrderly
    BY DEF LoopInv, LoopIsOrderly
  <1> QED
    BY <1>1, InitInv, StepInv, PTL DEF Spec

\* RpcClient::rpc reports a success only for an answer that is one: an answer cut
\* short by the end of the stream, or with an error in it, never is.
THEOREM TrueRpc == Spec => []RpcIsTrue
  <1>1. Init => RpcIsTrue
    BY DEF Init, RpcIsTrue
  <1>2. TypeOK /\ RpcIsTrue /\ [Next]_vars => RpcIsTrue'
    <2> SUFFICES ASSUME TypeOK, RpcIsTrue, [Next]_vars PROVE RpcIsTrue'
      OBVIOUS
    <2>1. CASE UNCHANGED <<rpc, reply>>
      BY <2>1 DEF RpcIsTrue
    <2>2. CASE Call \/ \E w \in Replies \cup {"part"} : Reply(w)
      BY <2>2 DEF Call, Reply, RpcIsTrue
    <2>3. CASE Return
      <3>1. reply \in AllReplies \cup {None, "part"}
        BY IncomingAssumption DEF TypeOK
      <3> QED
        BY <2>3, <3>1 DEF Return, Decoded, RpcIsTrue, AllReplies, None
    <2>4. \/ UNCHANGED <<rpc, reply>> \/ Call \/ Return
          \/ \E w \in Replies \cup {"part"} : Reply(w)
      BY DEF Next, vars, LoopStep, TaskStep, Accept, AcceptFails, NoType, ReadType, ReadBody, BadBody,
             LoseConnection, DropClient, OpenStream, EndStream, WriteType, WriteBody, ServiceSame,
             ReadReq, RunHandler, WriteAnswer, Echo, EchoEnds, LoopSame, rpcVars
    <2> QED
      BY <2>1, <2>2, <2>3, <2>4
  <1>3. LoopInv => TypeOK
    BY DEF LoopInv
  <1> QED
    BY <1>1, <1>2, <1>3, InitInv, StepInv, PTL DEF Spec
=============================================================================
