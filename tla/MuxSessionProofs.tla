-------------------------- MODULE MuxSessionProofs --------------------------
(***************************************************************************)
(* Proofs about MuxSession, for any limits, queue sizes and bounds, however *)
(* streams are opened, cancelled, refused, reset and dropped at both ends  *)
(* and whenever the connection is lost.                                    *)
(***************************************************************************)
EXTENDS MuxSession, FiniteSetTheorems, TLAPS

\* Neither end opens more streams than it has ids for: StreamID::clamp is not met.
EnoughIds == \A e \in Ends : 2 * MaxOpens[e] + 1 <= MaxId

\* Where the ids of the streams an end opens begin.
Base(e) == IF e = "client" THEN 1 ELSE 0

\* A frame on the connection of e names a stream by the id of the object it came from.
Genuine(e, f) ==
  /\ f.typ = "data" => f.src \in DOMAIN obj[e] /\ f.id = obj[e][f.src].id
  /\ f.typ = "rst" => f.id \in Ids
  /\ f.typ # "data" => ~f.syn

\* What queues, tasks and frames refer to exists.
PlaceInv ==
  \A e \in Ends :
    /\ task[e].accepting # 0 => wire[Peer(e)] # <<>> /\ task[e].accepting \in DOMAIN obj[e]
    /\ \A i \in DOMAIN acceptq[e] : acceptq[e][i] \in DOMAIN obj[e]
    /\ \A i \in DOMAIN sysq[e] : sysq[e][i].typ # "data" /\ Genuine(e, sysq[e][i])
    /\ \A i \in DOMAIN wire[e] : Genuine(e, wire[e][i])
    /\ \A n \in DOMAIN obj[e] : \A i \in DOMAIN obj[e][n].out :
         LET f == obj[e][n].out[i] IN f.typ = "data" /\ f.src = n /\ f.id = obj[e][n].id

\* The ids an end gives out grow, and tell by their parity who opened the stream.
IdInv ==
  \A e \in Ends :
    /\ app[e].asked <= MaxOpens[e]
    /\ mgr[e].lastLocal + 2 * Len(app[e].pending) <= Base(e) + 2 * app[e].asked
    /\ mgr[e].lastLocal % 2 = Base(e)
    /\ \A n \in DOMAIN obj[e] :
         LET opener == IF obj[e][n].local THEN e ELSE Peer(e)
         IN obj[e][n].id % 2 = Base(opener) /\ obj[e][n].id <= mgr[opener].lastLocal
    /\ \A n, m \in DOMAIN obj[e] : obj[e][n].id = obj[e][m].id => n = m

\* The SYN of a stream that e opened is still to be sent; it is on the connection;
\* the peer has made the stream.
Unsent(e, n) == obj[e][n].needsSyn \/ \E i \in DOMAIN obj[e][n].out : obj[e][n].out[i].syn
Carried(e, n) == \E i \in DOMAIN wire[e] : wire[e][i].syn /\ wire[e][i].src = n
Arrived(e, n) == \E m \in DOMAIN obj[Peer(e)] : obj[Peer(e)][m].id = obj[e][n].id

\* No two frames of q open the same stream.
Once(q) == \A i, j \in DOMAIN q : q[i].syn /\ q[j].syn /\ q[i].src = q[j].src => i = j

\* A stream is opened by one SYN, which is in one place.
SynInv ==
  \A e \in Ends :
    /\ Once(wire[e])
    /\ \A n \in DOMAIN obj[e] :
         /\ obj[e][n].needsSyn => obj[e][n].out = <<>>
         /\ \A i \in DOMAIN obj[e][n].out : obj[e][n].out[i].syn => i = 1
         /\ Unsent(e, n) \/ Carried(e, n) => obj[e][n].local /\ ~Arrived(e, n)
         /\ ~(Unsent(e, n) /\ Carried(e, n))

\* The map of handles leads from an id to the object that has it, and a task the
\* writer polls is that of a stream in the map.
HandleInv ==
  \A e \in Ends :
    /\ \A i \in Ids : mgr[e].streams[i] # 0 => obj[e][mgr[e].streams[i]].id = i
    /\ ~mgr[e].gone => \A n \in mgr[e].tasks : mgr[e].streams[obj[e][n].id] = n

\* A stream has received from the stream of the peer that has its id.
FromInv ==
  \A e \in Ends : \A n \in DOMAIN obj[e] : \A m \in obj[e][n].from :
    m \in DOMAIN obj[Peer(e)] /\ obj[Peer(e)][m].id = obj[e][n].id

\* The inductive invariants: of the types, and of what the ids keep apart.
TypeInv == TypeOK /\ PlaceInv
ApartInv == IdInv /\ SynInv /\ HandleInv /\ FromInv
----------------------------------------------------------------------------
(* The invariant of the types, variable by variable.                       *)

ObjOK ==
  /\ obj \in [Ends -> Seq(Objects)]
  /\ \A e \in Ends : \A n \in DOMAIN obj[e] : \A i \in DOMAIN obj[e][n].out :
       LET f == obj[e][n].out[i] IN f.typ = "data" /\ f.src = n /\ f.id = obj[e][n].id

MgrOK ==
  /\ mgr \in [Ends -> Managers]
  /\ \A e \in Ends :
       /\ mgr[e].tasks \subseteq DOMAIN obj[e]
       /\ \A i \in Ids : mgr[e].streams[i] # 0 => mgr[e].streams[i] \in DOMAIN obj[e]
       /\ Open(e) <= Limit[e]

TaskOK ==
  /\ task \in [Ends -> Tasks]
  /\ \A e \in Ends : task[e].accepting # 0 => task[e].accepting \in DOMAIN obj[e]

SysOK ==
  /\ sysq \in [Ends -> Seq(Frames)]
  /\ \A e \in Ends : /\ Len(sysq[e]) <= SysCap + 1
                     /\ \A i \in DOMAIN sysq[e] : sysq[e][i].typ # "data" /\ Genuine(e, sysq[e][i])

WireOK ==
  /\ wire \in [Ends -> Seq(Frames)]
  /\ \A e \in Ends : \A i \in DOMAIN wire[e] : Genuine(e, wire[e][i])

\* The reader that makes a stream has its SYN frame in hand.
HandOK == \A e \in Ends : task[e].accepting # 0 => wire[Peer(e)] # <<>>

AppOK == app \in [Ends -> Apps]

AcceptOK ==
  /\ acceptq \in [Ends -> Seq(Nat)]
  /\ \A e \in Ends : /\ Len(acceptq[e]) <= AcceptCap + 1
                     /\ \A i \in DOMAIN acceptq[e] : acceptq[e][i] \in DOMAIN obj[e]

\* The invariant is the conjunction of its parts, one for each variable.
LEMMA Parts ==
  TypeInv <=> /\ ObjOK /\ MgrOK /\ TaskOK /\ SysOK /\ WireOK /\ HandOK /\ AppOK /\ AcceptOK
              /\ lost \in BOOLEAN
  <1>1. \A e \in Ends : Handled(e) \subseteq DOMAIN obj[e]
                        <=> \A i \in Ids : mgr[e].streams[i] # 0 => mgr[e].streams[i] \in DOMAIN obj[e]
    BY DEF Handled
  <1>2. ASSUME TypeInv
        PROVE  /\ ObjOK /\ MgrOK /\ TaskOK /\ SysOK /\ WireOK /\ HandOK /\ AppOK /\ AcceptOK
               /\ lost \in BOOLEAN
    <2>1. ObjOK
      BY <1>2 DEF TypeInv, TypeOK, PlaceInv, ObjOK
    <2>2. MgrOK
      BY <1>1, <1>2 DEF TypeInv, TypeOK, MgrOK
    <2>3. TaskOK /\ SysOK /\ WireOK /\ HandOK /\ AppOK /\ AcceptOK
      BY <1>2 DEF TypeInv, TypeOK, PlaceInv, TaskOK, SysOK, WireOK, HandOK, AppOK, AcceptOK
    <2> QED
      BY <1>2, <2>1, <2>2, <2>3 DEF TypeInv, TypeOK
  <1>3. ASSUME ObjOK, MgrOK, TaskOK, SysOK, WireOK, HandOK, AppOK, AcceptOK, lost \in BOOLEAN
        PROVE  TypeInv
    <2>1. TypeOK
      BY <1>1, <1>3 DEF TypeOK, ObjOK, MgrOK, TaskOK, SysOK, WireOK, AppOK, AcceptOK
    <2>2. PlaceInv
      BY <1>3 DEF PlaceInv, ObjOK, TaskOK, SysOK, WireOK, HandOK, AcceptOK
    <2> QED
      BY <2>1, <2>2 DEF TypeInv
  <1> QED
    BY <1>2, <1>3

\* The same of the state after a step.
LEMMA PartsNext ==
  (ObjOK' /\ MgrOK' /\ TaskOK' /\ SysOK' /\ WireOK' /\ HandOK' /\ AppOK' /\ AcceptOK'
    /\ (lost \in BOOLEAN)') => TypeInv'
  BY Parts, PTL

\* The two ends.
LEMMA TwoEnds ==
  ASSUME NEW e \in Ends
  PROVE  /\ Peer(e) \in Ends /\ Peer(e) # e /\ Peer(Peer(e)) = e
         /\ \A d \in Ends : d = e \/ d = Peer(e)
         /\ Base(e) \in {0, 1} /\ Base(Peer(e)) \in {0, 1} /\ Base(e) # Base(Peer(e))
  BY DEF Ends, Peer, Base

\* What the types say of one end.
LEMMA At ==
  ASSUME TypeInv, NEW e \in Ends
  PROVE  /\ obj[e] \in Seq(Objects) /\ Len(obj[e]) \in Nat /\ DOMAIN obj[e] = 1..Len(obj[e])
         /\ \A n \in DOMAIN obj[e] : n \in Nat /\ n # 0 /\ obj[e][n] \in Objects
         /\ mgr[e] \in Managers /\ task[e] \in Tasks /\ app[e] \in Apps
         /\ sysq[e] \in Seq(Frames) /\ wire[e] \in Seq(Frames) /\ acceptq[e] \in Seq(Nat)
  <1>1. /\ obj[e] \in Seq(Objects) /\ mgr[e] \in Managers /\ task[e] \in Tasks /\ app[e] \in Apps
        /\ sysq[e] \in Seq(Frames) /\ wire[e] \in Seq(Frames) /\ acceptq[e] \in Seq(Nat)
    BY DEF TypeInv, TypeOK
  <1>2. Len(obj[e]) \in Nat /\ DOMAIN obj[e] = 1..Len(obj[e])
    BY <1>1
  <1>3. \A n \in DOMAIN obj[e] : n \in Nat /\ n # 0 /\ obj[e][n] \in Objects
    BY <1>1, <1>2
  <1> QED
    BY <1>1, <1>2, <1>3
----------------------------------------------------------------------------
(* A step keeps the objects there are, and their ids.                      *)
Grown ==
  \A e \in Ends : \A n \in DOMAIN obj[e] : n \in DOMAIN obj'[e] /\ obj'[e][n].id = obj[e][n].id

\* The parts of variables a step leaves alone stay, as streams are never unmade.
LEMMA ObjSame ==
  ASSUME ObjOK, obj' = obj
  PROVE  ObjOK' /\ Grown
  BY DEF ObjOK, Grown

\* A frame stays that of a stream.
LEMMA GenuineKept ==
  ASSUME Grown, NEW e \in Ends, NEW f, Genuine(e, f)
  PROVE  Genuine(e, f)'
  BY DEF Grown, Genuine

\* The managers are left alone.
LEMMA MgrSame ==
  ASSUME MgrOK, mgr' = mgr, Grown
  PROVE  MgrOK'
  <1>1. \A e \in Ends : DOMAIN obj[e] \subseteq DOMAIN obj'[e]
    BY DEF Grown
  <1>2. \A e \in Ends : Open(e)' = Open(e)
    BY DEF Open
  <1> QED
    BY <1>1, <1>2 DEF MgrOK

\* The tasks are left alone.
LEMMA TaskSame ==
  ASSUME TaskOK, task' = task, Grown
  PROVE  TaskOK'
  BY DEF TaskOK, Grown

\* The queues of system frames are left alone.
LEMMA SysSame ==
  ASSUME SysOK, sysq' = sysq, Grown
  PROVE  SysOK'
  BY GenuineKept DEF SysOK

\* The connection is left alone.
LEMMA WireSame ==
  ASSUME WireOK, wire' = wire, Grown
  PROVE  WireOK'
  BY GenuineKept DEF WireOK

\* The accept queues are left alone.
LEMMA AcceptSame ==
  ASSUME AcceptOK, acceptq' = acceptq, Grown
  PROVE  AcceptOK'
  BY DEF AcceptOK, Grown

\* Only the objects of e change.
LEMMA ObjSet ==
  ASSUME ObjOK, NEW e \in Ends, obj' \in [Ends -> Seq(Objects)],
         \A d \in Ends : d # e => obj'[d] = obj[d],
         \A n \in DOMAIN obj[e] : n \in DOMAIN obj'[e] /\ obj'[e][n].id = obj[e][n].id,
         \A n \in DOMAIN obj'[e] : \A i \in DOMAIN obj'[e][n].out :
           /\ obj'[e][n].out[i].typ = "data" /\ obj'[e][n].out[i].src = n
           /\ obj'[e][n].out[i].id = obj'[e][n].id
  PROVE  ObjOK' /\ Grown
  <1>1. Grown
    BY DEF Grown
  <1>2. \A d \in Ends : \A n \in DOMAIN obj'[d] : \A i \in DOMAIN obj'[d][n].out :
          /\ obj'[d][n].out[i].typ = "data" /\ obj'[d][n].out[i].src = n
          /\ obj'[d][n].out[i].id = obj'[d][n].id
    <2> SUFFICES ASSUME NEW d \in Ends
                 PROVE  \A n \in DOMAIN obj'[d] : \A i \in DOMAIN obj'[d][n].out :
                          /\ obj'[d][n].out[i].typ = "data" /\ obj'[d][n].out[i].src = n
                          /\ obj'[d][n].out[i].id = obj'[d][n].id
      OBVIOUS
    <2>1. CASE d = e
      BY <2>1
    <2>2. CASE d # e
      BY <2>2 DEF ObjOK
    <2> QED
      BY <2>1, <2>2
  <1> QED
    BY <1>1, <1>2 DEF ObjOK

\* The frames o has not sent are those of the object n.
OutsOf(o, n) == \A i \in DOMAIN o.out : o.out[i].typ = "data" /\ o.out[i].src = n /\ o.out[i].id = o.id

\* The object n of e is o now, the others are as they were.
Became(e, n, o) ==
  /\ \A d \in Ends : Len(obj'[d]) = Len(obj[d]) /\ DOMAIN obj'[d] = DOMAIN obj[d]
  /\ obj'[e][n] = o
  /\ \A d \in Ends : \A m \in DOMAIN obj[d] : d # e \/ m # n => obj'[d][m] = obj[d][m]

\* One stream changes, and keeps its id.
LEMMA ObjAt ==
  ASSUME TypeInv, NEW e \in Ends, NEW n \in DOMAIN obj[e], NEW o \in Objects, NEW s,
         s = [obj[e] EXCEPT ![n] = o], obj' = [obj EXCEPT ![e] = s],
         o.id = obj[e][n].id, OutsOf(o, n)
  PROVE  ObjOK' /\ Grown /\ Became(e, n, o)
  <1>1. obj[e] \in Seq(Objects) /\ ObjOK
    BY At, Parts
  <1>2. /\ s \in Seq(Objects) /\ Len(s) = Len(obj[e]) /\ DOMAIN s = DOMAIN obj[e] /\ s[n] = o
        /\ \A m \in DOMAIN obj[e] : m # n => s[m] = obj[e][m]
    BY <1>1
  <1>3. /\ obj' \in [Ends -> Seq(Objects)] /\ obj'[e] = s
        /\ \A d \in Ends : d # e => obj'[d] = obj[d]
    BY <1>1, <1>2 DEF ObjOK
  <1>4. \A m \in DOMAIN obj[e] : m \in DOMAIN obj'[e] /\ obj'[e][m].id = obj[e][m].id
    BY <1>2, <1>3
  <1>5. \A m \in DOMAIN obj'[e] : \A i \in DOMAIN obj'[e][m].out :
          /\ obj'[e][m].out[i].typ = "data" /\ obj'[e][m].out[i].src = m
          /\ obj'[e][m].out[i].id = obj'[e][m].id
    BY <1>1, <1>2, <1>3 DEF ObjOK, OutsOf
  <1>6. ObjOK' /\ Grown
    BY <1>1, <1>3, <1>4, <1>5, ObjSet
  <1> QED
    BY <1>2, <1>3, <1>6 DEF Became
----------------------------------------------------------------------------
(* What most steps leave as it is, as far as ids keep streams apart.       *)

\* No stream is made, none receives, none has another frame to send.
ObjCalm ==
  \A e \in Ends :
    /\ DOMAIN obj'[e] = DOMAIN obj[e]
    /\ \A n \in DOMAIN obj[e] :
         /\ obj'[e][n].id = obj[e][n].id /\ obj'[e][n].local = obj[e][n].local
         /\ obj'[e][n].from = obj[e][n].from /\ obj'[e][n].needsSyn = obj[e][n].needsSyn
         /\ obj'[e][n].out = obj[e][n].out \/ obj'[e][n].out = <<>>

\* The manager goes away, or forgets at most one stream.
MgrCalm ==
  \A e \in Ends :
    /\ mgr'[e].lastLocal = mgr[e].lastLocal
    /\ \A i \in Ids : mgr'[e].streams[i] \in {mgr[e].streams[i], 0}
    /\ \/ mgr'[e].gone
       \/ mgr'[e] = mgr[e]
       \/ /\ mgr'[e].gone = mgr[e].gone
          /\ \E n \in DOMAIN obj[e] :
               /\ mgr'[e].tasks = mgr[e].tasks \ {n}
               /\ \A i \in Ids : i # obj[e][n].id => mgr'[e].streams[i] = mgr[e].streams[i]

\* No SYN is sent.
WireCalm ==
  \A e \in Ends : /\ Once(wire[e]) => Once(wire'[e])
                  /\ \A n \in DOMAIN obj[e] : Carried(e, n)' => Carried(e, n)

\* An answer to open() is awaited only where it was asked for.
AppCalm ==
  \A e \in Ends : /\ app'[e].asked = app[e].asked \/ app'[e].asked <= MaxOpens[e]
                  /\ Len(app'[e].pending) + app[e].asked <= Len(app[e].pending) + app'[e].asked

Calm == ObjCalm /\ MgrCalm /\ WireCalm /\ AppCalm

\* What does not change is calm.
LEMMA CalmSame ==
  ASSUME TypeInv
  PROVE  /\ obj' = obj => ObjCalm
         /\ mgr' = mgr => MgrCalm
         /\ wire' = wire => WireCalm
         /\ app' = app => AppCalm
  <1>1. obj' = obj => ObjCalm
    BY DEF ObjCalm
  <1>2. mgr' = mgr => MgrCalm
    BY DEF MgrCalm
  <1>3. wire' = wire => WireCalm
    BY DEF WireCalm, Carried
  <1>4. ASSUME app' = app PROVE AppCalm
    <2>1. \A e \in Ends : app[e].asked \in Nat /\ Len(app[e].pending) \in Nat
      BY At DEF Apps
    <2> QED
      BY <1>4, <2>1 DEF AppCalm
  <1> QED
    BY <1>1, <1>2, <1>3, <1>4
----------------------------------------------------------------------------
(* The parts of the steps.                                                 *)

\* The frames.
LEMMA FrameTypes ==
  /\ \A id, src \in Nat, syn \in BOOLEAN :
       /\ Data(id, src, syn) \in Frames /\ Data(id, src, syn).typ = "data"
       /\ Data(id, src, syn).id = id /\ Data(id, src, syn).src = src
       /\ Data(id, src, syn).syn = syn
  /\ \A id, src \in Nat :
       /\ Fin(id, src) \in Frames /\ Fin(id, src).typ = "data"
       /\ Fin(id, src).id = id /\ Fin(id, src).src = src /\ ~Fin(id, src).syn
  /\ \A id \in Nat :
       /\ Rst(id) \in Frames /\ Rst(id).typ = "rst" /\ Rst(id).id = id /\ ~Rst(id).syn
  /\ \A f, c \in BOOLEAN :
       /\ GoAway(f, c) \in Frames /\ GoAway(f, c).typ = "goaway" /\ ~GoAway(f, c).syn
  /\ Invalid \in Frames /\ Invalid.typ = "invalid" /\ ~Invalid.syn
  BY DEF Data, Fin, Rst, GoAway, Invalid, Frame, Frames

\* Ids are natural numbers.
LEMMA IdsNat ==
  Ids \subseteq Nat /\ MaxId \in Nat /\ MaxId \in Ids
  BY SessionAssumption DEF Ids

\* A queue without its first frame.
LEMMA LessHead ==
  ASSUME NEW q \in Seq(Frames), q # <<>>
  PROVE  /\ Tail(q) \in Seq(Frames) /\ Head(q) \in Frames /\ 1 \in DOMAIN q /\ Head(q) = q[1]
         /\ Len(q) \in Nat /\ Len(Tail(q)) = Len(q) - 1 /\ DOMAIN Tail(q) = 1..(Len(q) - 1)
         /\ \A i \in DOMAIN Tail(q) : i + 1 \in DOMAIN q /\ Tail(q)[i] = q[i + 1]
  OBVIOUS

\* A queue with one more.
LEMMA OneMore ==
  ASSUME NEW q \in Seq(Frames), NEW f \in Frames
  PROVE  /\ Append(q, f) \in Seq(Frames) /\ Len(Append(q, f)) = Len(q) + 1 /\ Append(q, f) # <<>>
         /\ \A i \in DOMAIN Append(q, f) : (i \in DOMAIN q /\ Append(q, f)[i] = q[i])
                                           \/ Append(q, f)[i] = f
  OBVIOUS

\* The connection of e carries one frame more.
LEMMA WireMore ==
  ASSUME TypeInv, NEW e \in Ends, NEW f \in Frames, Genuine(e, f), Grown,
         wire' = [wire EXCEPT ![e] = Append(@, f)]
  PROVE  /\ WireOK' /\ (\A d \in Ends : wire[d] # <<>> => wire'[d] # <<>>)
         /\ ~f.syn => WireCalm
         /\ wire'[e] = Append(wire[e], f) /\ \A d \in Ends : d # e => wire'[d] = wire[d]
  <1>1. /\ wire \in [Ends -> Seq(Frames)] /\ wire[e] \in Seq(Frames)
        /\ \A d \in Ends : \A i \in DOMAIN wire[d] : Genuine(d, wire[d][i])
    BY Parts DEF WireOK
  <1>2. PICK q : q = Append(wire[e], f)
    OBVIOUS
  <1>3. /\ q \in Seq(Frames) /\ Len(q) = Len(wire[e]) + 1 /\ q # <<>>
        /\ \A i \in DOMAIN q : (i \in DOMAIN wire[e] /\ q[i] = wire[e][i]) \/ q[i] = f
    BY <1>1, <1>2, OneMore
  <1>4. /\ wire' = [wire EXCEPT ![e] = q] /\ wire' \in [Ends -> Seq(Frames)]
        /\ wire'[e] = q /\ \A d \in Ends : d # e => wire'[d] = wire[d]
    BY <1>1, <1>2, <1>3
  <1>5. ASSUME NEW d \in Ends, NEW i \in DOMAIN wire'[d] PROVE Genuine(d, wire[d][i])'
    <2>1. Genuine(d, wire'[d][i])
      BY <1>1, <1>3, <1>4, <1>5
    <2>2. PICK x : x = wire'[d][i]
      OBVIOUS
    <2>3. Genuine(d, x)'
      BY <2>1, <2>2, GenuineKept
    <2> QED
      BY <2>2, <2>3 DEF Genuine
  <1>6. WireOK'
    BY <1>4, <1>5 DEF WireOK
  <1>7. ASSUME ~f.syn PROVE WireCalm
    <2>1. \A d \in Ends : \A i \in DOMAIN wire'[d] : wire'[d][i].syn =>
            i \in DOMAIN wire[d] /\ wire'[d][i] = wire[d][i]
      BY <1>3, <1>4, <1>7
    <2> QED
      BY <2>1 DEF WireCalm, Once, Carried
  <1> QED
    BY <1>2, <1>3, <1>4, <1>6, <1>7

\* The reader of e takes a frame off the connection.
LEMMA WireLess ==
  ASSUME TypeInv, NEW e \in Ends, Grown, wire[e] # <<>>,
         wire' = [wire EXCEPT ![e] = Tail(@)]
  PROVE  /\ WireOK' /\ WireCalm /\ \A d \in Ends : d # e => wire'[d] = wire[d]
  <1>1. /\ wire \in [Ends -> Seq(Frames)] /\ wire[e] \in Seq(Frames)
        /\ \A d \in Ends : \A i \in DOMAIN wire[d] : Genuine(d, wire[d][i])
    BY Parts DEF WireOK
  <1>2. PICK q : q = Tail(wire[e])
    OBVIOUS
  <1>3. /\ q \in Seq(Frames)
        /\ \A i \in DOMAIN q : i \in Nat /\ i + 1 \in DOMAIN wire[e] /\ q[i] = wire[e][i + 1]
    BY <1>1, <1>2, LessHead
  <1>4. /\ wire' = [wire EXCEPT ![e] = q] /\ wire' \in [Ends -> Seq(Frames)]
        /\ wire'[e] = q /\ \A d \in Ends : d # e => wire'[d] = wire[d]
    BY <1>1, <1>2, <1>3
  <1>5. ASSUME NEW d \in Ends, NEW i \in DOMAIN wire'[d] PROVE Genuine(d, wire[d][i])'
    <2>1. Genuine(d, wire'[d][i])
      BY <1>1, <1>3, <1>4, <1>5
    <2>2. PICK x : x = wire'[d][i]
      OBVIOUS
    <2>3. Genuine(d, x)'
      BY <2>1, <2>2, GenuineKept
    <2> QED
      BY <2>2, <2>3 DEF Genuine
  <1>6. WireOK'
    BY <1>4, <1>5 DEF WireOK
  <1>7. \A n : Carried(e, n)' => Carried(e, n)
    BY <1>3, <1>4 DEF Carried
  <1>8. Once(wire[e]) => Once(wire'[e])
    <2>1. SUFFICES ASSUME Once(wire[e]), NEW i \in DOMAIN q, NEW j \in DOMAIN q,
                          q[i].syn, q[j].syn, q[i].src = q[j].src
                   PROVE  i = j
      BY <1>4 DEF Once
    <2>2. i + 1 = j + 1
      BY <1>3, <2>1 DEF Once
    <2> QED
      BY <1>3, <2>2
  <1>9. WireCalm
    <2>1. \A d \in Ends : d # e => (Once(wire[d]) => Once(wire'[d]))
      BY <1>4
    <2>2. \A d \in Ends : d # e => \A n : Carried(d, n)' => Carried(d, n)
      BY <1>4 DEF Carried
    <2> QED
      BY <1>7, <1>8, <2>1, <2>2 DEF WireCalm
  <1> QED
    BY <1>4, <1>6, <1>9

\* The writer of e ends.
LEMMA WriterEndsOK ==
  ASSUME TypeInv, NEW e \in Ends, WriterEnds(e), Grown
  PROVE  /\ TaskOK' /\ AppOK' /\ AppCalm
         /\ \A d \in Ends : task'[d].accepting = task[d].accepting
  <1>1. task \in [Ends -> Tasks] /\ app \in [Ends -> Apps] /\ TaskOK
    BY Parts DEF TaskOK, AppOK
  <1>2. PICK c, v, a : /\ c = <<>> /\ v = [task[e] EXCEPT !.writer = "done"]
                       /\ a = [app[e] EXCEPT !.pending = c]
    OBVIOUS
  <1>3. task' = [task EXCEPT ![e] = v] /\ app' = [app EXCEPT ![e] = a]
    BY <1>2 DEF WriterEnds
  <1>4. v \in Tasks /\ v.accepting = task[e].accepting
    BY <1>1, <1>2 DEF Tasks
  <1>5. a \in Apps /\ a.pending = <<>> /\ a.asked = app[e].asked /\ Len(a.pending) = 0
    <2>1. c \in Seq(BOOLEAN) /\ Len(c) = 0
      BY <1>2
    <2>2. a \in Apps /\ a.pending = c /\ a.asked = app[e].asked
      BY <1>1, <1>2, <2>1 DEF Apps
    <2> QED
      BY <1>2, <2>1, <2>2
  <1>6. task' \in [Ends -> Tasks] /\ \A d \in Ends : task'[d].accepting = task[d].accepting
    BY <1>1, <1>3, <1>4
  <1>7. TaskOK'
    BY <1>1, <1>6 DEF TaskOK, Grown
  <1>8. app' \in [Ends -> Apps] /\ app'[e] = a /\ \A d \in Ends : d # e => app'[d] = app[d]
    BY <1>1, <1>3, <1>5
  <1>9. AppCalm
    <2>1. \A d \in Ends : app[d].asked \in Nat /\ Len(app[d].pending) \in Nat
      BY At DEF Apps
    <2> QED
      BY <1>5, <1>8, <2>1 DEF AppCalm
  <1> QED
    BY <1>6, <1>7, <1>8, <1>9 DEF AppOK

\* The reader has a frame in hand as long as the connection loses none.
LEMMA HandKept ==
  ASSUME HandOK, \A d \in Ends : task'[d].accepting = task[d].accepting \/ task'[d].accepting = 0,
         \A d \in Ends : wire[d] # <<>> => wire'[d] # <<>>
  PROVE  HandOK'
  BY TwoEnds DEF HandOK

\* The writer sends a frame.
LEMMA SendOK ==
  ASSUME TypeInv, NEW e \in Ends, NEW f \in Frames, Genuine(e, f), Send(e, f), Grown
  PROVE  /\ WireOK' /\ TaskOK' /\ HandOK' /\ AppOK' /\ AppCalm
         /\ ~f.syn => WireCalm
         /\ wire'[e] = wire[e] \/ wire'[e] = Append(wire[e], f)
         /\ \A d \in Ends : d # e => wire'[d] = wire[d]
  <1>1. TaskOK /\ AppOK /\ WireOK /\ HandOK
    BY Parts
  <1>2. CASE wire' = [wire EXCEPT ![e] = Append(@, f)]
    <2>1. /\ WireOK' /\ (\A d \in Ends : wire[d] # <<>> => wire'[d] # <<>>)
          /\ ~f.syn => WireCalm
          /\ wire'[e] = Append(wire[e], f) /\ \A d \in Ends : d # e => wire'[d] = wire[d]
      BY <1>2, WireMore
    <2>2. /\ TaskOK' /\ AppOK' /\ AppCalm
          /\ \A d \in Ends : task'[d].accepting = task[d].accepting
      <3>1. CASE WriterEnds(e)
        BY <3>1, WriterEndsOK
      <3>2. CASE UNCHANGED <<task, app>>
        BY <1>1, <3>2, TaskSame, CalmSame DEF AppOK
      <3> QED
        BY <3>1, <3>2 DEF Send
    <2>3. HandOK'
      BY <1>1, <2>1, <2>2, HandKept
    <2> QED
      BY <2>1, <2>2, <2>3
  <1>3. CASE wire' # [wire EXCEPT ![e] = Append(@, f)]
    <2>1. WriterEnds(e) /\ wire' = wire
      BY <1>3 DEF Send
    <2>2. /\ TaskOK' /\ AppOK' /\ AppCalm
          /\ \A d \in Ends : task'[d].accepting = task[d].accepting
      BY <2>1, WriterEndsOK
    <2>3. HandOK'
      BY <1>1, <2>1, <2>2, HandKept
    <2> QED
      BY <1>1, <2>1, <2>2, <2>3, WireSame, CalmSame
  <1> QED
    BY <1>2, <1>3

\* The number of streams in the map is a number.
LEMMA OpenNat ==
  ASSUME NEW e \in Ends
  PROVE  /\ Open(e) \in Nat /\ Open(e)' \in Nat
         /\ IsFiniteSet({i \in Ids : mgr[e].streams[i] # 0})
         /\ IsFiniteSet({i \in Ids : mgr'[e].streams[i] # 0})
  <1>1. IsFiniteSet(Ids)
    BY SessionAssumption, FS_Interval DEF Ids
  <1>2. /\ IsFiniteSet({i \in Ids : mgr[e].streams[i] # 0})
        /\ IsFiniteSet({i \in Ids : mgr'[e].streams[i] # 0})
    BY <1>1, FS_Subset
  <1> QED
    BY <1>2, FS_CardinalityType DEF Open

\* Fewer streams.
LEMMA OpenLess ==
  ASSUME NEW e \in Ends, \A i \in Ids : mgr'[e].streams[i] # 0 => mgr[e].streams[i] # 0
  PROVE  Open(e)' <= Open(e)
  <1>1. {i \in Ids : mgr'[e].streams[i] # 0} \subseteq {i \in Ids : mgr[e].streams[i] # 0}
    OBVIOUS
  <1> QED
    BY <1>1, OpenNat, FS_Subset DEF Open

\* One more, at most.
LEMMA OpenMore ==
  ASSUME NEW e \in Ends, NEW id \in Ids,
         \A i \in Ids : i # id => mgr'[e].streams[i] = mgr[e].streams[i]
  PROVE  Open(e)' <= Open(e) + 1
  <1>1. PICK S, T : /\ S = {i \in Ids : mgr[e].streams[i] # 0}
                    /\ T = {i \in Ids : mgr'[e].streams[i] # 0}
    OBVIOUS
  <1>2. IsFiniteSet(S) /\ IsFiniteSet(T) /\ T \subseteq S \cup {id}
    BY <1>1, OpenNat
  <1>3. IsFiniteSet(S \cup {id}) /\ Cardinality(S \cup {id}) <= Cardinality(S) + 1
    <2>1. Cardinality(S) \in Nat
      BY <1>2, FS_CardinalityType
    <2>2. /\ IsFiniteSet(S \cup {id})
          /\ Cardinality(S \cup {id}) = IF id \in S THEN Cardinality(S) ELSE Cardinality(S) + 1
      BY <1>2, FS_AddElement
    <2> QED
      BY <2>1, <2>2
  <1>4. Cardinality(T) <= Cardinality(S \cup {id})
    BY <1>2, <1>3, FS_Subset
  <1>5. Cardinality(S) \in Nat /\ Cardinality(T) \in Nat /\ Cardinality(S \cup {id}) \in Nat
    BY <1>2, <1>3, FS_CardinalityType
  <1>6. Open(e) = Cardinality(S) /\ Open(e)' = Cardinality(T)
    BY <1>1 DEF Open
  <1> QED
    BY <1>3, <1>4, <1>5, <1>6

\* A manager that forgets streams.
LEMMA MgrLess ==
  ASSUME TypeInv, Grown, mgr' \in [Ends -> Managers],
         \A e \in Ends : /\ mgr'[e].tasks \subseteq mgr[e].tasks
                         /\ \A i \in Ids : mgr'[e].streams[i] \in {mgr[e].streams[i], 0}
  PROVE  MgrOK'
  <1>1. MgrOK
    BY Parts
  <1>2. ASSUME NEW e \in Ends PROVE Open(e)' <= Limit[e]
    <2>1. Open(e)' <= Open(e) /\ Open(e) \in Nat /\ Open(e)' \in Nat /\ Limit[e] \in Nat
      BY OpenLess, OpenNat, SessionAssumption
    <2> QED
      BY <1>1, <2>1 DEF MgrOK
  <1>3. \A e \in Ends : DOMAIN obj[e] \subseteq DOMAIN obj'[e]
    BY DEF Grown
  <1>4. ASSUME NEW e \in Ends, NEW i \in Ids, mgr'[e].streams[i] # 0
        PROVE  mgr'[e].streams[i] \in DOMAIN obj'[e]
    <2>1. mgr'[e].streams[i] = mgr[e].streams[i]
      BY <1>4
    <2> QED
      BY <1>1, <1>3, <1>4, <2>1 DEF MgrOK
  <1>5. \A e \in Ends : mgr'[e].tasks \subseteq DOMAIN obj'[e]
    BY <1>1, <1>3 DEF MgrOK
  <1> QED
    BY <1>2, <1>4, <1>5 DEF MgrOK

\* Flags of the objects of e change.
LEMMA ObjMap ==
  ASSUME TypeInv, NEW e \in Ends, DOMAIN obj' = Ends,
         \A d \in Ends : d # e => obj'[d] = obj[d],
         obj'[e] \in [DOMAIN obj[e] -> Objects],
         \A n \in DOMAIN obj[e] :
           /\ obj'[e][n].id = obj[e][n].id /\ obj'[e][n].local = obj[e][n].local
           /\ obj'[e][n].from = obj[e][n].from /\ obj'[e][n].needsSyn = obj[e][n].needsSyn
           /\ obj'[e][n].out = obj[e][n].out \/ obj'[e][n].out = <<>>,
         obj' = [d \in Ends |-> obj'[d]]
  PROVE  ObjOK' /\ Grown /\ ObjCalm
  <1>1. ObjOK /\ obj[e] \in Seq(Objects) /\ DOMAIN obj[e] = 1..Len(obj[e]) /\ Len(obj[e]) \in Nat
    BY At, Parts
  <1>2. obj'[e] \in Seq(Objects)
    BY <1>1
  <1>3. /\ obj' \in [Ends -> Seq(Objects)] /\ DOMAIN obj'[e] = DOMAIN obj[e]
        /\ \A d \in Ends : d # e => obj'[d] = obj[d]
    BY <1>1, <1>2 DEF ObjOK
  <1>4. \A m \in DOMAIN obj[e] : m \in DOMAIN obj'[e] /\ obj'[e][m].id = obj[e][m].id
    BY <1>3
  <1>5. \A m \in DOMAIN obj'[e] : \A i \in DOMAIN obj'[e][m].out :
          /\ obj'[e][m].out[i].typ = "data" /\ obj'[e][m].out[i].src = m
          /\ obj'[e][m].out[i].id = obj'[e][m].id
    <2> SUFFICES ASSUME NEW m \in DOMAIN obj[e], NEW i \in DOMAIN obj'[e][m].out
                 PROVE  /\ obj'[e][m].out[i].typ = "data" /\ obj'[e][m].out[i].src = m
                        /\ obj'[e][m].out[i].id = obj'[e][m].id
      BY <1>3
    <2>1. CASE obj'[e][m].out = <<>>
      BY <1>3, <2>1
    <2>2. CASE obj'[e][m].out = obj[e][m].out
      <3>1. i \in DOMAIN obj[e][m].out
        BY <2>2
      <3>2. /\ obj[e][m].out[i].typ = "data" /\ obj[e][m].out[i].src = m
            /\ obj[e][m].out[i].id = obj[e][m].id
        BY <1>1, <3>1 DEF ObjOK
      <3> QED
        BY <1>4, <2>2, <3>2
    <2> QED
      BY <2>1, <2>2
  <1>6. ObjOK' /\ Grown
    BY <1>1, <1>3, <1>4, <1>5, ObjSet
  <1>7. ObjCalm
    <2> SUFFICES ASSUME NEW d \in Ends
                 PROVE  /\ DOMAIN obj'[d] = DOMAIN obj[d]
                        /\ \A n \in DOMAIN obj[d] :
                             /\ obj'[d][n].id = obj[d][n].id /\ obj'[d][n].local = obj[d][n].local
                             /\ obj'[d][n].from = obj[d][n].from
                             /\ obj'[d][n].needsSyn = obj[d][n].needsSyn
                             /\ obj'[d][n].out = obj[d][n].out \/ obj'[d][n].out = <<>>
      BY DEF ObjCalm
    <2>1. CASE d = e
      BY <1>3, <2>1
    <2>2. CASE d # e
      BY <1>3, <2>2
    <2> QED
      BY <2>1, <2>2
  <1> QED
    BY <1>6, <1>7

\* Flags of one object change.
LEMMA ObjFlag ==
  ASSUME TypeInv, NEW e \in Ends, NEW n \in DOMAIN obj[e], NEW o \in Objects, NEW s,
         s = [obj[e] EXCEPT ![n] = o], obj' = [obj EXCEPT ![e] = s],
         o.id = obj[e][n].id, o.local = obj[e][n].local, o.from = obj[e][n].from,
         o.needsSyn = obj[e][n].needsSyn, o.out = obj[e][n].out \/ o.out = <<>>
  PROVE  ObjOK' /\ Grown /\ ObjCalm
  <1>1. \A m \in DOMAIN obj[e] : obj[e][m] \in Objects
    BY At
  <1>2. obj \in [Ends -> Seq(Objects)] /\ obj[e] \in Seq(Objects)
    BY At DEF TypeInv, TypeOK
  <1>3. obj[e] \in [DOMAIN obj[e] -> Objects]
    BY <1>2
  <1>4. DOMAIN s = DOMAIN obj[e] /\ s \in [DOMAIN obj[e] -> Objects]
    BY <1>3
  <1>5. /\ DOMAIN obj' = Ends /\ obj'[e] = s /\ \A d \in Ends : d # e => obj'[d] = obj[d]
        /\ obj' = [d \in Ends |-> obj'[d]]
    BY <1>2
  <1>6. \A m \in DOMAIN obj[e] : s[m] = IF m = n THEN o ELSE obj[e][m]
    OBVIOUS
  <1>7. \A m \in DOMAIN obj[e] :
           /\ obj'[e][m].id = obj[e][m].id /\ obj'[e][m].local = obj[e][m].local
           /\ obj'[e][m].from = obj[e][m].from /\ obj'[e][m].needsSyn = obj[e][m].needsSyn
           /\ obj'[e][m].out = obj[e][m].out \/ obj'[e][m].out = <<>>
    BY <1>5, <1>6
  <1> QED
    BY <1>4, <1>5, <1>7, ObjMap

\* What a step does not touch stays right.
LEMMA RestSame ==
  ASSUME TypeInv, Grown
  PROVE  /\ mgr' = mgr => MgrOK' /\ MgrCalm
         /\ task' = task => TaskOK'
         /\ sysq' = sysq => SysOK'
         /\ wire' = wire => WireOK' /\ WireCalm
         /\ task' = task /\ wire' = wire => HandOK'
         /\ app' = app => AppOK' /\ AppCalm
         /\ acceptq' = acceptq => AcceptOK'
         /\ lost' = lost => lost' \in BOOLEAN
  <1>1. /\ MgrOK /\ TaskOK /\ SysOK /\ WireOK /\ HandOK /\ AcceptOK /\ AppOK /\ lost \in BOOLEAN
    BY Parts
  <1>2. /\ mgr' = mgr => MgrOK' /\ MgrCalm
        /\ wire' = wire => WireOK' /\ WireCalm
    BY <1>1, MgrSame, WireSame, CalmSame
  <1>3. /\ task' = task => TaskOK'
        /\ sysq' = sysq => SysOK'
        /\ acceptq' = acceptq => AcceptOK'
    BY <1>1, TaskSame, SysSame, AcceptSame
  <1>4. /\ task' = task /\ wire' = wire => HandOK'
        /\ app' = app => AppOK'
    BY <1>1 DEF HandOK, AppOK
  <1>5. app' = app => AppCalm
    BY CalmSame
  <1> QED
    BY <1>1, <1>2, <1>3, <1>4, <1>5

\* The manager's queue of system frames has one more.
LEMMA SysMore ==
  ASSUME TypeInv, Grown, NEW e \in Ends, NEW f \in Frames, f.typ # "data", Genuine(e, f),
         Len(sysq[e]) <= SysCap, sysq' = [sysq EXCEPT ![e] = Append(@, f)]
  PROVE  SysOK'
  <1>1. SysOK /\ sysq \in [Ends -> Seq(Frames)] /\ sysq[e] \in Seq(Frames) /\ SysCap \in Nat
    BY Parts, SessionAssumption DEF SysOK
  <1>2. PICK q : q = Append(sysq[e], f)
    OBVIOUS
  <1>3. /\ q \in Seq(Frames) /\ Len(q) = Len(sysq[e]) + 1 /\ Len(sysq[e]) \in Nat
        /\ \A i \in DOMAIN q : (i \in DOMAIN sysq[e] /\ q[i] = sysq[e][i]) \/ q[i] = f
    BY <1>1, <1>2, OneMore
  <1>4. /\ sysq' \in [Ends -> Seq(Frames)]
        /\ sysq'[e] = q /\ \A d \in Ends : d # e => sysq'[d] = sysq[d]
    BY <1>1, <1>2, <1>3
  <1>5. ASSUME NEW d \in Ends, NEW i \in DOMAIN sysq'[d]
        PROVE  sysq'[d][i].typ # "data" /\ Genuine(d, sysq[d][i])'
    <2>1. Genuine(d, sysq'[d][i]) /\ sysq'[d][i].typ # "data"
      BY <1>1, <1>3, <1>4, <1>5 DEF SysOK
    <2>2. PICK x : x = sysq'[d][i]
      OBVIOUS
    <2>3. Genuine(d, x)'
      BY <2>1, <2>2, GenuineKept
    <2> QED
      BY <2>1, <2>2, <2>3 DEF Genuine
  <1>6. \A d \in Ends : Len(sysq'[d]) <= SysCap + 1
    BY <1>1, <1>3, <1>4 DEF SysOK
  <1> QED
    BY <1>4, <1>5, <1>6 DEF SysOK

\* The queue of accept() loses its first stream.
LEMMA AcceptLess ==
  ASSUME TypeInv, Grown, NEW e \in Ends, acceptq[e] # <<>>,
         acceptq' = [acceptq EXCEPT ![e] = Tail(@)]
  PROVE  AcceptOK' /\ Head(acceptq[e]) \in DOMAIN obj[e]
  <1>1. AcceptOK /\ acceptq \in [Ends -> Seq(Nat)] /\ acceptq[e] \in Seq(Nat) /\ AcceptCap \in Nat
    BY Parts, SessionAssumption DEF AcceptOK
  <1>2. PICK q : q = Tail(acceptq[e])
    OBVIOUS
  <1>3. /\ q \in Seq(Nat) /\ Len(q) <= Len(acceptq[e]) /\ Len(q) \in Nat /\ Len(acceptq[e]) \in Nat
        /\ 1 \in DOMAIN acceptq[e] /\ Head(acceptq[e]) = acceptq[e][1]
        /\ \A i \in DOMAIN q : i + 1 \in DOMAIN acceptq[e] /\ q[i] = acceptq[e][i + 1]
    BY <1>1, <1>2
  <1>4. /\ acceptq' \in [Ends -> Seq(Nat)]
        /\ acceptq'[e] = q /\ \A d \in Ends : d # e => acceptq'[d] = acceptq[d]
    BY <1>1, <1>2, <1>3
  <1>5. \A d \in Ends : Len(acceptq'[d]) <= AcceptCap + 1
    <2>1. Len(acceptq[e]) <= AcceptCap + 1
      BY <1>1 DEF AcceptOK
    <2>2. Len(q) <= AcceptCap + 1
      BY <1>1, <1>3, <2>1
    <2> QED
      BY <1>1, <1>4, <2>2 DEF AcceptOK
  <1>6. \A d \in Ends : \A i \in DOMAIN acceptq'[d] : acceptq'[d][i] \in DOMAIN obj[d]
    BY <1>1, <1>3, <1>4 DEF AcceptOK
  <1> QED
    BY <1>1, <1>3, <1>4, <1>5, <1>6 DEF AcceptOK, Grown
----------------------------------------------------------------------------
(* Steps of the application.                                               *)

\* open() is called; its future is dropped.
LEMMA OpenCalls ==
  ASSUME TypeInv, NEW e \in Ends, CallOpen(e) \/ CancelOpen(e)
  PROVE  TypeInv' /\ Calm
  <1>1. UNCHANGED <<obj, mgr, task, sysq, wire, acceptq, lost>>
    BY DEF CallOpen, CancelOpen
  <1>2. /\ app \in [Ends -> Apps] /\ app[e] \in Apps /\ app[e].pending \in Seq(BOOLEAN)
        /\ \A d \in Ends : app[d].asked \in Nat /\ Len(app[d].pending) \in Nat
    BY At DEF Apps, TypeInv, TypeOK
  <1>3. app' \in [Ends -> Apps] /\ AppCalm
    <2>1. CASE CallOpen(e)
      <3>1. PICK k, p, a : /\ k = app[e].asked + 1 /\ p = Append(app[e].pending, TRUE)
                           /\ a = [app[e] EXCEPT !.asked = k, !.pending = p]
        OBVIOUS
      <3>2. app' = [app EXCEPT ![e] = a] /\ app[e].asked < MaxOpens[e]
        BY <2>1, <3>1 DEF CallOpen
      <3>3. /\ k \in Nat /\ k <= MaxOpens[e] /\ p \in Seq(BOOLEAN) /\ Len(p) = Len(app[e].pending) + 1
        <4>1. MaxOpens[e] \in Nat
          BY SessionAssumption
        <4> QED
          BY <1>2, <3>1, <3>2, <4>1
      <3>4. a \in Apps /\ a.asked = k /\ a.pending = p
        BY <1>2, <3>1, <3>3 DEF Apps
      <3>5. app' \in [Ends -> Apps] /\ app'[e] = a /\ \A d \in Ends : d # e => app'[d] = app[d]
        BY <1>2, <3>2, <3>4
      <3>6. Len(a.pending) + app[e].asked <= Len(app[e].pending) + a.asked
        BY <1>2, <3>1, <3>3, <3>4
      <3> QED
        BY <1>2, <3>3, <3>4, <3>5, <3>6 DEF AppCalm
    <2>2. CASE CancelOpen(e)
      <3>1. PICK i \in DOMAIN app[e].pending : app' = [app EXCEPT ![e].pending[i] = FALSE]
        BY <2>2 DEF CancelOpen
      <3>2. PICK p, a : /\ p = [app[e].pending EXCEPT ![i] = FALSE]
                        /\ a = [app[e] EXCEPT !.pending = p]
        OBVIOUS
      <3>3. app' = [app EXCEPT ![e] = a]
        BY <3>1, <3>2
      <3>4. p \in Seq(BOOLEAN) /\ Len(p) = Len(app[e].pending)
        BY <1>2, <3>2
      <3>5. a \in Apps /\ a.pending = p /\ a.asked = app[e].asked
        BY <1>2, <3>2, <3>4 DEF Apps
      <3>6. app' \in [Ends -> Apps] /\ app'[e] = a /\ \A d \in Ends : d # e => app'[d] = app[d]
        BY <1>2, <3>3, <3>5
      <3> QED
        BY <1>2, <3>4, <3>5, <3>6 DEF AppCalm
    <2> QED
      BY <2>1, <2>2
  <1>4. /\ ObjOK /\ MgrOK /\ TaskOK /\ SysOK /\ WireOK /\ HandOK /\ AcceptOK /\ lost \in BOOLEAN
    BY Parts
  <1>5. ObjOK' /\ Grown
    BY <1>1, <1>4, ObjSame
  <1>6. MgrOK' /\ TaskOK' /\ SysOK' /\ WireOK' /\ AcceptOK' /\ HandOK' /\ AppOK' /\ lost' \in BOOLEAN
    BY <1>1, <1>3, <1>4, <1>5, MgrSame, TaskSame, SysSame, WireSame, AcceptSame DEF HandOK, AppOK
  <1>7. TypeInv'
    BY <1>5, <1>6, PartsNext
  <1> QED
    BY <1>1, <1>3, <1>7, CalmSame DEF Calm

\* A stream is accepted or dropped.
LEMMA StreamCalls ==
  ASSUME TypeInv, NEW e \in Ends, Accept(e) \/ \E n \in DOMAIN obj[e] : DropStream(e, n)
  PROVE  TypeInv' /\ Calm
  <1>1. UNCHANGED <<mgr, task, sysq, wire, app, lost>>
    BY DEF Accept, DropStream
  <1>2. /\ \A n \in DOMAIN obj[e] : obj[e][n] \in Objects
        /\ acceptq[e] # <<>> => Head(acceptq[e]) \in DOMAIN obj[e]
    <2>1. AcceptOK /\ acceptq[e] \in Seq(Nat) /\ \A n \in DOMAIN obj[e] : obj[e][n] \in Objects
      BY Parts, At
    <2>2. ASSUME acceptq[e] # <<>> PROVE Head(acceptq[e]) \in DOMAIN obj[e]
      <3>1. 1 \in DOMAIN acceptq[e] /\ Head(acceptq[e]) = acceptq[e][1]
        BY <2>1, <2>2
      <3> QED
        BY <2>1, <3>1 DEF AcceptOK
    <2> QED
      BY <2>1, <2>2
  <1>3. PICK n \in DOMAIN obj[e], a \in {"held", "dropped"} :
          /\ obj' = [obj EXCEPT ![e][n].app = a]
          /\ \/ acceptq' = acceptq
             \/ acceptq[e] # <<>> /\ acceptq' = [acceptq EXCEPT ![e] = Tail(@)]
    BY <1>2 DEF Accept, DropStream
  <1>4. PICK o, s : o = [obj[e][n] EXCEPT !.app = a] /\ s = [obj[e] EXCEPT ![n] = o]
    OBVIOUS
  <1>5. obj' = [obj EXCEPT ![e] = s]
    BY <1>3, <1>4
  <1>6. /\ o \in Objects /\ o.id = obj[e][n].id /\ o.local = obj[e][n].local
        /\ o.from = obj[e][n].from /\ o.needsSyn = obj[e][n].needsSyn /\ o.out = obj[e][n].out
    BY <1>2, <1>4 DEF Objects
  <1>7. ObjOK' /\ Grown /\ ObjCalm
    BY <1>4, <1>5, <1>6, ObjFlag
  <1>8. AcceptOK'
    BY <1>3, <1>7, AcceptLess, RestSame
  <1>9. TypeInv'
    BY <1>1, <1>7, <1>8, RestSame, PartsNext
  <1> QED
    BY <1>1, <1>7, <1>9, RestSame DEF Calm

\* The session is closed.
LEMMA CloseCall ==
  ASSUME TypeInv, NEW e \in Ends, Close(e)
  PROVE  TypeInv' /\ Calm
  <1>1. UNCHANGED <<obj, mgr, task, wire, acceptq, lost>> /\ app' = [app EXCEPT ![e].closed = TRUE]
    BY DEF Close
  <1>2. ObjOK' /\ Grown /\ ObjCalm
    BY <1>1, Parts, ObjSame, CalmSame
  <1>3. app' \in [Ends -> Apps] /\ AppCalm
    <2>1. /\ app \in [Ends -> Apps] /\ app[e] \in Apps
          /\ \A d \in Ends : app[d].asked \in Nat /\ Len(app[d].pending) \in Nat
      BY At DEF Apps, TypeInv, TypeOK
    <2>2. PICK a : a = [app[e] EXCEPT !.closed = TRUE]
      OBVIOUS
    <2>3. a \in Apps /\ a.asked = app[e].asked /\ a.pending = app[e].pending
      BY <2>1, <2>2 DEF Apps
    <2>4. app' \in [Ends -> Apps] /\ app'[e] = a /\ \A d \in Ends : d # e => app'[d] = app[d]
      BY <1>1, <2>1, <2>2, <2>3
    <2> QED
      BY <2>1, <2>3, <2>4 DEF AppCalm
  <1>4. SysOK'
    <2>1. CASE sysq' = sysq
      BY <1>2, <2>1, RestSame
    <2>2. CASE sysq' # sysq
      <3>1. PICK f \in Closings : Len(sysq[e]) <= SysCap /\ sysq' = [sysq EXCEPT ![e] = Append(@, f)]
        BY <2>2 DEF Close
      <3>2. f \in Frames /\ f.typ = "goaway" /\ ~f.syn
        BY <3>1, ClosingsAssumption, FrameTypes
      <3>3. Genuine(e, f)
        BY <3>2 DEF Genuine
      <3> QED
        BY <1>2, <3>1, <3>2, <3>3, SysMore
    <2> QED
      BY <2>1, <2>2
  <1>5. TypeInv'
    BY <1>1, <1>2, <1>3, <1>4, RestSame, PartsNext DEF AppOK
  <1> QED
    BY <1>1, <1>2, <1>3, <1>5, RestSame DEF Calm

\* The session is dropped.
LEMMA DropCall ==
  ASSUME TypeInv, NEW e \in Ends, DropSession(e)
  PROVE  TypeInv' /\ Calm
  <1>1. /\ UNCHANGED <<mgr, task, sysq, wire, lost>> /\ app' = [app EXCEPT ![e].held = FALSE]
        /\ acceptq' = [acceptq EXCEPT ![e] = <<>>]
    BY DEF DropSession
  <1>2. ObjOK' /\ Grown /\ ObjCalm
    <2>1. obj \in [Ends -> Seq(Objects)] /\ \A n \in DOMAIN obj[e] : obj[e][n] \in Objects
      BY At DEF TypeInv, TypeOK
    <2>2. PICK Q, s : s = [n \in DOMAIN obj[e] |-> IF n \in Q THEN [obj[e][n] EXCEPT !.app = "dropped"]
                                                   ELSE obj[e][n]]
                      /\ obj' = [obj EXCEPT ![e] = s]
      <3>1. PICK Q : Q = {n \in DOMAIN obj[e] : \E i \in DOMAIN acceptq[e] : acceptq[e][i] = n}
        OBVIOUS
      <3>2. obj' = [obj EXCEPT ![e] = [n \in DOMAIN obj[e] |->
                      IF n \in Q THEN [obj[e][n] EXCEPT !.app = "dropped"] ELSE obj[e][n]]]
        BY <3>1 DEF DropSession
      <3> QED
        BY <3>2
    <2>3. /\ DOMAIN obj' = Ends /\ obj'[e] = s /\ \A d \in Ends : d # e => obj'[d] = obj[d]
          /\ obj' = [d \in Ends |-> obj'[d]]
      BY <2>1, <2>2
    <2>4. ASSUME NEW n \in DOMAIN obj[e]
          PROVE  /\ s[n] \in Objects /\ s[n].id = obj[e][n].id /\ s[n].local = obj[e][n].local
                 /\ s[n].from = obj[e][n].from /\ s[n].needsSyn = obj[e][n].needsSyn
                 /\ s[n].out = obj[e][n].out
      <3>1. PICK o : o = [obj[e][n] EXCEPT !.app = "dropped"]
        OBVIOUS
      <3>2. /\ o \in Objects /\ o.id = obj[e][n].id /\ o.local = obj[e][n].local
            /\ o.from = obj[e][n].from /\ o.needsSyn = obj[e][n].needsSyn /\ o.out = obj[e][n].out
        BY <2>1, <3>1 DEF Objects
      <3>3. s[n] = o \/ s[n] = obj[e][n]
        BY <2>2, <3>1
      <3> QED
        BY <2>1, <3>2, <3>3
    <2>5. s \in [DOMAIN obj[e] -> Objects]
      <3>1. DOMAIN s = DOMAIN obj[e] /\ s = [n \in DOMAIN obj[e] |-> s[n]]
        BY <2>2
      <3> QED
        BY <2>4, <3>1
    <2> QED
      BY <2>3, <2>4, <2>5, ObjMap
  <1>3. app' \in [Ends -> Apps] /\ AppCalm
    <2>1. /\ app \in [Ends -> Apps] /\ app[e] \in Apps
          /\ \A d \in Ends : app[d].asked \in Nat /\ Len(app[d].pending) \in Nat
      BY At DEF Apps, TypeInv, TypeOK
    <2>2. PICK a : a = [app[e] EXCEPT !.held = FALSE]
      OBVIOUS
    <2>3. a \in Apps /\ a.asked = app[e].asked /\ a.pending = app[e].pending
      BY <2>1, <2>2 DEF Apps
    <2>4. app' \in [Ends -> Apps] /\ app'[e] = a /\ \A d \in Ends : d # e => app'[d] = app[d]
      BY <1>1, <2>1, <2>2, <2>3
    <2> QED
      BY <2>1, <2>3, <2>4 DEF AppCalm
  <1>4. AcceptOK'
    <2>1. AcceptOK /\ acceptq \in [Ends -> Seq(Nat)] /\ AcceptCap \in Nat
      BY Parts, SessionAssumption DEF AcceptOK
    <2>2. PICK q : q = <<>>
      OBVIOUS
    <2>3. q \in Seq(Nat) /\ Len(q) <= AcceptCap + 1 /\ DOMAIN q = {}
      BY <2>1, <2>2
    <2>4. /\ acceptq' \in [Ends -> Seq(Nat)]
          /\ acceptq'[e] = q /\ \A d \in Ends : d # e => acceptq'[d] = acceptq[d]
      BY <1>1, <2>1, <2>2, <2>3
    <2> QED
      BY <1>2, <2>1, <2>3, <2>4 DEF AcceptOK, Grown
  <1>5. TypeInv'
    BY <1>1, <1>2, <1>3, <1>4, RestSame, PartsNext DEF AppOK
  <1> QED
    BY <1>1, <1>2, <1>3, <1>5, RestSame DEF Calm
----------------------------------------------------------------------------
(* Steps of the writer task.                                               *)

\* The object is the same but for its flags and what it has not sent.
FlagsOf(o, p) ==
  /\ o \in Objects /\ o.id = p.id /\ o.local = p.local /\ o.from = p.from
  /\ o.needsSyn = p.needsSyn /\ (o.out = p.out \/ o.out = <<>>)

\* Only flags of the streams of an end change.
LEMMA MapFlags ==
  ASSUME TypeInv, NEW e \in Ends, NEW s, obj' = [obj EXCEPT ![e] = s],
         s = [n \in DOMAIN obj[e] |-> s[n]],
         \A n \in DOMAIN obj[e] : FlagsOf(s[n], obj[e][n])
  PROVE  ObjOK' /\ Grown /\ ObjCalm
  <1>1. obj \in [Ends -> Seq(Objects)]
    BY DEF TypeInv, TypeOK
  <1>2. /\ DOMAIN obj' = Ends /\ obj'[e] = s /\ \A d \in Ends : d # e => obj'[d] = obj[d]
        /\ obj' = [d \in Ends |-> obj'[d]]
    BY <1>1
  <1>3. s \in [DOMAIN obj[e] -> Objects]
    BY DEF FlagsOf
  <1> QED
    BY <1>2, <1>3, ObjMap DEF FlagsOf

\* The manager goes away: all streams are forgotten.
LEMMA GoneOK ==
  ASSUME TypeInv, Grown, NEW e \in Ends, NEW m \in Managers, mgr' = [mgr EXCEPT ![e] = m],
         m.gone, m.tasks \subseteq mgr[e].tasks, \A i \in Ids : m.streams[i] = 0,
         m.lastLocal = mgr[e].lastLocal
  PROVE  MgrOK' /\ MgrCalm
  <1>1. mgr \in [Ends -> Managers]
    BY DEF TypeInv, TypeOK
  <1>2. mgr' \in [Ends -> Managers] /\ mgr'[e] = m /\ \A d \in Ends : d # e => mgr'[d] = mgr[d]
    BY <1>1
  <1>3. \A d \in Ends : /\ mgr'[d].tasks \subseteq mgr[d].tasks
                        /\ \A i \in Ids : mgr'[d].streams[i] \in {mgr[d].streams[i], 0}
    BY <1>2
  <1>4. MgrOK'
    BY <1>2, <1>3, MgrLess
  <1>5. MgrCalm
    BY <1>2, <1>3 DEF MgrCalm
  <1> QED
    BY <1>4, <1>5

\* A stream is removed.
LEMMA RemoveOK ==
  ASSUME TypeInv, Grown, NEW e \in Ends, NEW n \in DOMAIN obj[e], Remove(e, n)
  PROVE  MgrOK' /\ MgrCalm
  <1>1. /\ mgr \in [Ends -> Managers] /\ mgr[e] \in Managers /\ obj[e][n] \in Objects
    BY At DEF TypeInv, TypeOK
  <1>2. obj[e][n].id \in Ids /\ mgr[e].streams \in [Ids -> Nat] /\ mgr[e].tasks \in SUBSET Nat
    BY <1>1 DEF Objects, Managers
  <1>3. PICK id, T, s, m : /\ id = obj[e][n].id /\ T = mgr[e].tasks \ {n}
                           /\ s = [mgr[e].streams EXCEPT ![id] = 0]
                           /\ m = [mgr[e] EXCEPT !.tasks = T, !.streams = s]
    OBVIOUS
  <1>4. mgr' = [mgr EXCEPT ![e] = m]
    BY <1>1, <1>3 DEF Remove, Managers
  <1>5. s \in [Ids -> Nat] /\ T \in SUBSET Nat /\ s[id] = 0
        /\ \A i \in Ids : i # id => s[i] = mgr[e].streams[i]
    BY <1>2, <1>3
  <1>6. /\ m \in Managers /\ m.tasks = T /\ m.streams = s /\ m.lastLocal = mgr[e].lastLocal
        /\ m.gone = mgr[e].gone
    BY <1>1, <1>3, <1>5 DEF Managers
  <1>7. mgr' \in [Ends -> Managers] /\ mgr'[e] = m /\ \A d \in Ends : d # e => mgr'[d] = mgr[d]
    BY <1>1, <1>4, <1>6
  <1>8. \A i \in Ids : s[i] \in {mgr[e].streams[i], 0}
    BY <1>5
  <1>9. \A d \in Ends : /\ mgr'[d].tasks \subseteq mgr[d].tasks
                        /\ \A i \in Ids : mgr'[d].streams[i] \in {mgr[d].streams[i], 0}
    <2> SUFFICES ASSUME NEW d \in Ends
                 PROVE  /\ mgr'[d].tasks \subseteq mgr[d].tasks
                        /\ \A i \in Ids : mgr'[d].streams[i] \in {mgr[d].streams[i], 0}
      OBVIOUS
    <2>1. CASE d = e
      <3>1. mgr'[d].tasks = T /\ T \subseteq mgr[d].tasks
        BY <1>3, <1>6, <1>7, <2>1
      <3>2. mgr'[d].streams = s
        BY <1>6, <1>7, <2>1
      <3> QED
        BY <1>8, <2>1, <3>1, <3>2
    <2>2. CASE d # e
      BY <1>7, <2>2
    <2> QED
      BY <2>1, <2>2
  <1>10. MgrOK'
    BY <1>7, <1>9, MgrLess
  <1>11. MgrCalm
    <2> SUFFICES ASSUME NEW d \in Ends
                 PROVE  /\ mgr'[d].lastLocal = mgr[d].lastLocal
                        /\ \/ mgr'[d] = mgr[d]
                           \/ /\ mgr'[d].gone = mgr[d].gone
                              /\ \E k \in DOMAIN obj[d] :
                                   /\ mgr'[d].tasks = mgr[d].tasks \ {k}
                                   /\ \A i \in Ids : i # obj[d][k].id =>
                                        mgr'[d].streams[i] = mgr[d].streams[i]
      BY <1>9 DEF MgrCalm
    <2>1. CASE d = e
      <3>1. /\ mgr'[e].lastLocal = mgr[e].lastLocal /\ mgr'[e].gone = mgr[e].gone
            /\ mgr'[e].tasks = mgr[e].tasks \ {n}
            /\ \A i \in Ids : i # obj[e][n].id => mgr'[e].streams[i] = mgr[e].streams[i]
        BY <1>3, <1>5, <1>6, <1>7
      <3> QED
        BY <2>1, <3>1
    <2>2. CASE d # e
      BY <1>7, <2>2
    <2> QED
      BY <2>1, <2>2
  <1> QED
    BY <1>10, <1>11

\* A task of the writer with an owner.
LEMMA OwnerOf ==
  ASSUME TypeInv, NEW e \in Ends, NEW n \in DOMAIN obj[e], Yielded(e, n)
  PROVE  Owner(e, n) \in DOMAIN obj[e]
  <1>1. MgrOK /\ obj[e][n].id \in Ids
    BY Parts, At DEF Objects
  <1> QED
    BY <1>1 DEF MgrOK, Owner, Yielded

\* The writer ends.
LEMMA WriterStops ==
  ASSUME TypeInv, NEW e \in Ends, WriterCompletes(e) \/ CancelWriter(e)
  PROVE  TypeInv' /\ Calm
  <1>1. UNCHANGED <<obj, mgr, sysq, wire, acceptq, lost>> /\ WriterEnds(e)
    BY DEF WriterCompletes, CancelWriter
  <1>2. ObjOK' /\ Grown /\ ObjCalm
    BY <1>1, Parts, ObjSame, CalmSame
  <1>3. /\ TaskOK' /\ AppOK' /\ AppCalm
        /\ \A d \in Ends : task'[d].accepting = task[d].accepting
    BY <1>1, <1>2, WriterEndsOK
  <1>4. HandOK'
    BY <1>1, <1>3, Parts, HandKept
  <1>5. MgrOK' /\ MgrCalm /\ SysOK' /\ WireOK' /\ WireCalm /\ AcceptOK' /\ lost' \in BOOLEAN
    <2>1. mgr' = mgr /\ sysq' = sysq /\ wire' = wire /\ acceptq' = acceptq /\ lost' = lost
      BY <1>1
    <2> QED
      BY <1>2, <2>1, RestSame
  <1>6. TypeInv'
    BY <1>2, <1>3, <1>4, <1>5, PartsNext
  <1> QED
    BY <1>2, <1>3, <1>5, <1>6 DEF Calm

\* A stream that was reset is removed.
LEMMA TakeResetOK ==
  ASSUME TypeInv, NEW e \in Ends, NEW n \in DOMAIN obj[e], TakeReset(e, n)
  PROVE  TypeInv' /\ Calm
  <1>1. UNCHANGED <<task, sysq, wire, app, acceptq, lost>> /\ Remove(e, n) /\ Yielded(e, n)
    BY DEF TakeReset
  <1>2. /\ obj \in [Ends -> Seq(Objects)] /\ obj[e] \in Seq(Objects)
        /\ \A m \in DOMAIN obj[e] : obj[e][m] \in Objects
    BY At DEF TypeInv, TypeOK
  <1>3. PICK h, c : h = Owner(e, n) /\ c = <<>>
    OBVIOUS
  <1>4. h \in DOMAIN obj[e]
    BY <1>1, <1>3, OwnerOf
  <1>5. obj' = [obj EXCEPT ![e][h].cut = TRUE, ![e][n].out = c]
    BY <1>3 DEF TakeReset
  <1>6. PICK x, s : /\ x = [obj[e] EXCEPT ![h] = [obj[e][h] EXCEPT !.cut = TRUE]]
                    /\ s = [x EXCEPT ![n] = [x[n] EXCEPT !.out = c]]
    OBVIOUS
  <1>7. obj' = [obj EXCEPT ![e] = s]
    BY <1>2, <1>4, <1>5, <1>6
  <1>8. \A m \in DOMAIN obj[e] : FlagsOf(x[m], obj[e][m])
    <2>1. PICK o : o = [obj[e][h] EXCEPT !.cut = TRUE]
      OBVIOUS
    <2>2. FlagsOf(o, obj[e][h])
      BY <1>2, <1>4, <2>1 DEF Objects, FlagsOf
    <2>3. \A m \in DOMAIN obj[e] : x[m] = IF m = h THEN o ELSE obj[e][m]
      BY <1>6, <2>1
    <2> QED
      BY <1>2, <2>2, <2>3 DEF FlagsOf
  <1>9. DOMAIN x = DOMAIN obj[e] /\ DOMAIN s = DOMAIN obj[e] /\ s = [m \in DOMAIN obj[e] |-> s[m]]
    BY <1>6
  <1>10. \A m \in DOMAIN obj[e] : FlagsOf(s[m], obj[e][m])
    <2>1. PICK o : o = [x[n] EXCEPT !.out = c]
      OBVIOUS
    <2>2. c \in Seq(Frames) /\ x[n] \in Objects
      BY <1>3, <1>8 DEF FlagsOf
    <2>3. /\ o \in Objects /\ o.out = c /\ o.id = x[n].id /\ o.local = x[n].local
          /\ o.from = x[n].from /\ o.needsSyn = x[n].needsSyn
      BY <2>1, <2>2 DEF Objects
    <2>4. FlagsOf(o, obj[e][n])
      BY <1>3, <1>8, <2>3 DEF FlagsOf
    <2>5. \A m \in DOMAIN obj[e] : s[m] = IF m = n THEN o ELSE x[m]
      BY <1>6, <1>9, <2>1
    <2> QED
      BY <1>8, <2>4, <2>5
  <1>11. ObjOK' /\ Grown /\ ObjCalm
    BY <1>7, <1>9, <1>10, MapFlags
  <1>12. MgrOK' /\ MgrCalm
    BY <1>1, <1>11, RemoveOK
  <1>13. TypeInv'
    BY <1>1, <1>11, <1>12, RestSame, PartsNext
  <1> QED
    BY <1>1, <1>11, <1>12, <1>13, RestSame DEF Calm

\* The writer takes a system frame off its queue.
LEMMA SysLess ==
  ASSUME TypeInv, Grown, NEW e \in Ends, sysq[e] # <<>>, sysq' = [sysq EXCEPT ![e] = Tail(@)]
  PROVE  /\ SysOK' /\ Head(sysq[e]) \in Frames
         /\ Head(sysq[e]).typ # "data" /\ Genuine(e, Head(sysq[e]))
  <1>1. SysOK /\ sysq \in [Ends -> Seq(Frames)] /\ sysq[e] \in Seq(Frames) /\ SysCap \in Nat
    BY Parts, SessionAssumption DEF SysOK
  <1>2. PICK q : q = Tail(sysq[e])
    OBVIOUS
  <1>3. /\ q \in Seq(Frames) /\ Len(q) = Len(sysq[e]) - 1 /\ Len(sysq[e]) \in Nat
        /\ 1 \in DOMAIN sysq[e] /\ Head(sysq[e]) = sysq[e][1] /\ Head(sysq[e]) \in Frames
        /\ \A i \in DOMAIN q : i + 1 \in DOMAIN sysq[e] /\ q[i] = sysq[e][i + 1]
    BY <1>1, <1>2, LessHead
  <1>4. /\ sysq' \in [Ends -> Seq(Frames)]
        /\ sysq'[e] = q /\ \A d \in Ends : d # e => sysq'[d] = sysq[d]
    BY <1>1, <1>2, <1>3
  <1>5. ASSUME NEW d \in Ends, NEW i \in DOMAIN sysq'[d]
        PROVE  sysq'[d][i].typ # "data" /\ Genuine(d, sysq[d][i])'
    <2>1. Genuine(d, sysq'[d][i]) /\ sysq'[d][i].typ # "data"
      BY <1>1, <1>3, <1>4, <1>5 DEF SysOK
    <2>2. PICK x : x = sysq'[d][i]
      OBVIOUS
    <2>3. Genuine(d, x)'
      BY <2>1, <2>2, GenuineKept
    <2> QED
      BY <2>1, <2>2, <2>3 DEF Genuine
  <1>6. \A d \in Ends : Len(sysq'[d]) <= SysCap + 1
    <2>1. Len(sysq[e]) <= SysCap + 1
      BY <1>1 DEF SysOK
    <2>2. Len(q) <= SysCap + 1
      BY <1>1, <1>3, <2>1
    <2> QED
      BY <1>1, <1>4, <2>2 DEF SysOK
  <1> QED
    BY <1>1, <1>3, <1>4, <1>5, <1>6 DEF SysOK

\* A system frame is sent; the manager goes away with a GOAWAY.
LEMMA TakeSysOK ==
  ASSUME TypeInv, NEW e \in Ends, TakeSys(e)
  PROVE  TypeInv' /\ Calm
  <1>1. /\ UNCHANGED <<acceptq, lost>> /\ sysq[e] # <<>>
        /\ sysq' = [sysq EXCEPT ![e] = Tail(@)]
    BY DEF TakeSys
  <1>2. /\ obj \in [Ends -> Seq(Objects)] /\ mgr \in [Ends -> Managers] /\ mgr[e] \in Managers
        /\ \A n \in DOMAIN obj[e] : obj[e][n] \in Objects
    BY At DEF TypeInv, TypeOK
  <1>3. PICK f : f = Head(sysq[e])
    OBVIOUS
  <1>4. f \in Frames /\ f.typ # "data" /\ Genuine(e, f)
    <2>1. SysOK /\ sysq[e] \in Seq(Frames)
      BY Parts, At
    <2>2. 1 \in DOMAIN sysq[e] /\ f = sysq[e][1] /\ f \in Frames
      BY <1>1, <1>3, <2>1, LessHead
    <2> QED
      BY <2>1, <2>2 DEF SysOK
  <1>5. PICK g \in Frames : /\ g.typ = f.typ /\ g.syn = f.syn /\ Send(e, g) /\ Genuine(e, g)
                            /\ f.typ = "goaway" \/ UNCHANGED <<mgr, obj>>
    <2>1. CASE f.typ = "goaway"
      <3>1. PICK g : g = [f EXCEPT !.id = mgr[e].lastRemote]
        OBVIOUS
      <3>2. mgr[e].lastRemote \in Nat
        BY <1>2, SessionAssumption DEF Managers
      <3>3. g \in Frames /\ g.typ = f.typ /\ g.syn = f.syn
        BY <1>4, <3>1, <3>2 DEF Frames
      <3>4. Send(e, g)
        BY <1>3, <2>1, <3>1 DEF TakeSys
      <3>5. Genuine(e, g)
        BY <1>4, <2>1, <3>3 DEF Genuine
      <3> QED
        BY <2>1, <3>3, <3>4, <3>5
    <2>2. CASE f.typ # "goaway"
      <3>1. Send(e, f) /\ UNCHANGED <<mgr, obj>>
        BY <1>3, <2>2 DEF TakeSys
      <3> QED
        BY <1>4, <3>1
    <2> QED
      BY <2>1, <2>2
  <1>6. ~g.syn
    BY <1>4, <1>5 DEF Genuine
  <1>7. ObjOK' /\ Grown /\ ObjCalm
    <2>1. CASE UNCHANGED obj
      BY <2>1, Parts, ObjSame, CalmSame
    <2>2. CASE ~UNCHANGED obj
      <3>1. PICK c, s : /\ c = <<>>
                        /\ s = [n \in DOMAIN obj[e] |-> [Drained(e, TRUE)[n] EXCEPT !.out = c]]
        OBVIOUS
      <3>2. obj' = [obj EXCEPT ![e] = s]
        BY <1>3, <2>2, <3>1 DEF TakeSys
      <3>3. ASSUME NEW n \in DOMAIN obj[e] PROVE FlagsOf(s[n], obj[e][n])
        <4>1. PICK b, p : /\ b = (obj[e][n].sinkClosed \/ TRUE)
                          /\ p = [obj[e][n] EXCEPT !.cut = TRUE, !.sinkClosed = b]
          OBVIOUS
        <4>2. PICK x : x = Drained(e, TRUE)[n]
          OBVIOUS
        <4>3. x = p \/ x = obj[e][n]
          BY <4>1, <4>2 DEF Drained
        <4>4. /\ x \in Objects /\ x.id = obj[e][n].id /\ x.local = obj[e][n].local
              /\ x.from = obj[e][n].from /\ x.needsSyn = obj[e][n].needsSyn
          <5>1. b \in BOOLEAN
            BY <4>1
          <5>2. /\ p \in Objects /\ p.id = obj[e][n].id /\ p.local = obj[e][n].local
                /\ p.from = obj[e][n].from /\ p.needsSyn = obj[e][n].needsSyn
            BY <1>2, <4>1, <5>1 DEF Objects
          <5> QED
            BY <1>2, <4>3, <5>2
        <4>5. PICK o : o = [x EXCEPT !.out = c]
          OBVIOUS
        <4>6. c \in Seq(Frames)
          BY <3>1
        <4>7. /\ o \in Objects /\ o.id = x.id /\ o.local = x.local
              /\ o.from = x.from /\ o.needsSyn = x.needsSyn /\ o.out = c
          BY <4>4, <4>5, <4>6 DEF Objects
        <4>8. s[n] = o
          BY <3>1, <4>2, <4>5
        <4> QED
          BY <3>1, <4>4, <4>7, <4>8 DEF FlagsOf
      <3>4. s = [n \in DOMAIN obj[e] |-> s[n]]
        BY <3>1
      <3> QED
        BY <3>2, <3>3, <3>4, MapFlags
    <2> QED
      BY <2>1, <2>2
  <1>8. MgrOK' /\ MgrCalm
    <2>1. CASE UNCHANGED mgr
      BY <1>7, <2>1, RestSame
    <2>2. CASE ~UNCHANGED mgr
      <3>1. PICK z, T, m : /\ z = [i \in Ids |-> 0] /\ T = {}
                           /\ m = [mgr[e] EXCEPT !.gone = TRUE, !.streams = z, !.tasks = T]
        OBVIOUS
      <3>2. mgr' = [mgr EXCEPT ![e] = m]
        <4>1. mgr' = [mgr EXCEPT ![e] = [GoneAway(e) EXCEPT !.tasks = T]]
          BY <1>3, <2>2, <3>1 DEF TakeSys
        <4>2. GoneAway(e) = [mgr[e] EXCEPT !.gone = TRUE, !.streams = z]
          BY <3>1 DEF GoneAway
        <4>3. [GoneAway(e) EXCEPT !.tasks = T] = m
          BY <1>2, <3>1, <4>2 DEF Managers
        <4> QED
          BY <4>1, <4>3
      <3>3. z \in [Ids -> Nat] /\ T \in SUBSET Nat /\ \A i \in Ids : z[i] = 0
        BY <3>1
      <3>4. m \in Managers /\ m.gone /\ m.tasks = T /\ m.streams = z /\ m.lastLocal = mgr[e].lastLocal
        BY <1>2, <3>1, <3>3 DEF Managers
      <3>5. m.tasks \subseteq mgr[e].tasks /\ \A i \in Ids : m.streams[i] = 0
        BY <3>1, <3>3, <3>4
      <3> QED
        BY <1>7, <3>2, <3>4, <3>5, GoneOK
    <2> QED
      BY <2>1, <2>2
  <1>9. WireOK' /\ TaskOK' /\ HandOK' /\ AppOK' /\ AppCalm /\ WireCalm
    BY <1>5, <1>6, <1>7, SendOK
  <1>10. SysOK'
    BY <1>1, <1>7, SysLess
  <1>11. TypeInv'
    BY <1>1, <1>7, <1>8, <1>9, <1>10, RestSame, PartsNext
  <1> QED
    BY <1>7, <1>8, <1>9, <1>11 DEF Calm

\* The end of a stream's channel: its FIN is sent, it is removed.
LEMMA TakeEndOK ==
  ASSUME TypeInv, NEW e \in Ends, NEW n \in DOMAIN obj[e], TakeEnd(e, n)
  PROVE  TypeInv' /\ Calm
  <1>1. UNCHANGED <<sysq, acceptq, lost>> /\ Remove(e, n) /\ Yielded(e, n)
    BY DEF TakeEnd
  <1>2. \A m \in DOMAIN obj[e] : m \in Nat /\ obj[e][m] \in Objects /\ obj[e][m].id \in Ids
    BY At DEF Objects
  <1>3. PICK h : h = Owner(e, n)
    OBVIOUS
  <1>4. h \in DOMAIN obj[e]
    BY <1>1, <1>3, OwnerOf
  <1>5. PICK o, s : /\ o = [obj[e][h] EXCEPT !.cut = TRUE, !.needsFin = FALSE]
                    /\ s = [obj[e] EXCEPT ![h] = o]
    OBVIOUS
  <1>6. obj' = [obj EXCEPT ![e] = s]
    <2>1. obj' = [obj EXCEPT ![e][h].cut = TRUE, ![e][h].needsFin = FALSE]
      BY <1>3 DEF TakeEnd
    <2>2. obj \in [Ends -> Seq(Objects)] /\ obj[e] \in Seq(Objects)
      BY At DEF TypeInv, TypeOK
    <2>3. PICK p, y : /\ p = [obj[e][h] EXCEPT !.cut = TRUE]
                      /\ y = [obj[e] EXCEPT ![h] = p]
      OBVIOUS
    <2>4. obj' = [obj EXCEPT ![e] = [y EXCEPT ![h].needsFin = FALSE]]
      BY <2>1, <2>2, <2>3
    <2>5. y[h] = p /\ o = [p EXCEPT !.needsFin = FALSE]
      BY <1>2, <1>4, <1>5, <2>2, <2>3 DEF Objects
    <2>6. [y EXCEPT ![h].needsFin = FALSE] = s
      BY <1>4, <1>5, <2>3, <2>5
    <2> QED
      BY <2>4, <2>6
  <1>7. /\ o \in Objects /\ o.id = obj[e][h].id /\ o.local = obj[e][h].local
        /\ o.from = obj[e][h].from /\ o.needsSyn = obj[e][h].needsSyn /\ o.out = obj[e][h].out
    <2>1. obj[e][h] \in Objects /\ o = [obj[e][h] EXCEPT !.cut = TRUE, !.needsFin = FALSE]
      BY <1>2, <1>4, <1>5
    <2> QED
      BY <2>1 DEF Objects
  <1>8. ObjOK' /\ Grown /\ ObjCalm
    BY <1>4, <1>5, <1>6, <1>7, ObjFlag
  <1>9. MgrOK' /\ MgrCalm
    BY <1>1, <1>8, RemoveOK
  <1>10. WireOK' /\ TaskOK' /\ HandOK' /\ AppOK' /\ AppCalm /\ WireCalm
    <2>1. CASE UNCHANGED <<task, wire, app>>
      BY <1>8, <2>1, RestSame
    <2>2. CASE Send(e, Fin(obj[e][n].id, n))
      <3>1. PICK f : f = Fin(obj[e][n].id, n)
        OBVIOUS
      <3>2. f \in Frames /\ f.typ = "data" /\ f.id = obj[e][n].id /\ f.src = n /\ ~f.syn
        <4>1. obj[e][n].id \in Nat /\ n \in Nat
          BY <1>2, IdsNat
        <4> QED
          BY <3>1, <4>1, FrameTypes
      <3>3. Genuine(e, f)
        BY <3>2 DEF Genuine
      <3> QED
        BY <1>8, <2>2, <3>1, <3>2, <3>3, SendOK
    <2> QED
      BY <2>1, <2>2 DEF TakeEnd
  <1>11. TypeInv'
    BY <1>1, <1>8, <1>9, <1>10, RestSame, PartsNext
  <1> QED
    BY <1>8, <1>9, <1>10, <1>11 DEF Calm

\* All objects but one keep what tells streams apart.
ObjBut(e, n) ==
  /\ \A d \in Ends : DOMAIN obj'[d] = DOMAIN obj[d]
  /\ \A d \in Ends : \A m \in DOMAIN obj[d] : d # e \/ m # n => obj'[d][m] = obj[d][m]
  /\ obj'[e][n].id = obj[e][n].id /\ obj'[e][n].local = obj[e][n].local

\* The frames of a stream's channel, without the first.
LEMMA OutLess ==
  ASSUME TypeInv, NEW e \in Ends, NEW n \in DOMAIN obj[e], obj[e][n].out # <<>>
  PROVE  /\ Tail(obj[e][n].out) \in Seq(Frames) /\ Head(obj[e][n].out) \in Frames
         /\ Head(obj[e][n].out) = obj[e][n].out[1] /\ 1 \in DOMAIN obj[e][n].out
         /\ Genuine(e, Head(obj[e][n].out)) /\ Head(obj[e][n].out).src = n
         /\ \A i \in DOMAIN Tail(obj[e][n].out) :
              i \in Nat /\ i # 0 /\ i + 1 \in DOMAIN obj[e][n].out
              /\ Tail(obj[e][n].out)[i] = obj[e][n].out[i + 1]
  <1>1. ObjOK /\ obj[e][n].out \in Seq(Frames)
    BY Parts, At DEF Objects
  <1>2. PICK q : q = obj[e][n].out
    OBVIOUS
  <1>3. /\ Tail(q) \in Seq(Frames) /\ Head(q) \in Frames /\ 1 \in DOMAIN q /\ Head(q) = q[1]
        /\ Len(q) \in Nat /\ DOMAIN Tail(q) = 1..(Len(q) - 1)
        /\ \A i \in DOMAIN Tail(q) : i + 1 \in DOMAIN q /\ Tail(q)[i] = q[i + 1]
    BY <1>1, <1>2, LessHead
  <1>4. q[1].typ = "data" /\ q[1].src = n /\ q[1].id = obj[e][n].id
    BY <1>1, <1>2, <1>3 DEF ObjOK
  <1>5. Genuine(e, q[1])
    BY <1>4 DEF Genuine
  <1> QED
    BY <1>2, <1>3, <1>4, <1>5

\* A frame of a stream is sent.
LEMMA TakeFrameOK ==
  ASSUME TypeInv, NEW e \in Ends, NEW n \in DOMAIN obj[e], TakeFrame(e, n)
  PROVE  /\ TypeInv' /\ MgrCalm /\ AppCalm /\ ObjBut(e, n) /\ obj[e][n].out # <<>>
         /\ obj'[e][n].needsSyn = obj[e][n].needsSyn /\ obj'[e][n].from = obj[e][n].from
         /\ obj'[e][n].out = Tail(obj[e][n].out)
         /\ wire'[e] = wire[e] \/ wire'[e] = Append(wire[e], Head(obj[e][n].out))
         /\ \A d \in Ends : d # e => wire'[d] = wire[d]
  <1>1. /\ UNCHANGED <<mgr, sysq, acceptq, lost>> /\ obj[e][n].out # <<>>
        /\ Send(e, Head(obj[e][n].out))
        /\ obj' = [obj EXCEPT ![e][n].out = Tail(@)]
    BY DEF TakeFrame
  <1>2. /\ obj[e][n] \in Objects /\ ObjOK /\ obj \in [Ends -> Seq(Objects)]
    BY At, Parts DEF ObjOK
  <1>3. PICK f, q : f = Head(obj[e][n].out) /\ q = Tail(obj[e][n].out)
    OBVIOUS
  <1>4. /\ q \in Seq(Frames) /\ f \in Frames /\ Genuine(e, f)
        /\ \A i \in DOMAIN q : i + 1 \in DOMAIN obj[e][n].out /\ q[i] = obj[e][n].out[i + 1]
    BY <1>1, <1>3, OutLess
  <1>5. PICK o, s : o = [obj[e][n] EXCEPT !.out = q] /\ s = [obj[e] EXCEPT ![n] = o]
    OBVIOUS
  <1>6. obj' = [obj EXCEPT ![e] = s]
    BY <1>1, <1>2, <1>3, <1>5
  <1>7. /\ o \in Objects /\ o.id = obj[e][n].id /\ o.local = obj[e][n].local
        /\ o.from = obj[e][n].from /\ o.needsSyn = obj[e][n].needsSyn /\ o.out = q
    BY <1>2, <1>4, <1>5 DEF Objects
  <1>8. OutsOf(o, n)
    BY <1>2, <1>4, <1>7 DEF ObjOK, OutsOf
  <1>9. ObjOK' /\ Grown /\ Became(e, n, o)
    <2>1. o \in Objects /\ o.id = obj[e][n].id
      BY <1>7
    <2>2. s = [obj[e] EXCEPT ![n] = o]
      BY <1>5
    <2> QED
      BY <1>6, <1>8, <2>1, <2>2, ObjAt
  <1>10. /\ WireOK' /\ TaskOK' /\ HandOK' /\ AppOK' /\ AppCalm
         /\ wire'[e] = wire[e] \/ wire'[e] = Append(wire[e], f)
         /\ \A d \in Ends : d # e => wire'[d] = wire[d]
    BY <1>1, <1>3, <1>4, <1>9, SendOK
  <1>11. MgrOK' /\ MgrCalm /\ SysOK' /\ AcceptOK' /\ lost' \in BOOLEAN
    <2>1. mgr' = mgr /\ sysq' = sysq /\ acceptq' = acceptq /\ lost' = lost
      BY <1>1
    <2> QED
      BY <1>9, <2>1, RestSame
  <1>12. TypeInv'
    BY <1>9, <1>10, <1>11, PartsNext
  <1> QED
    BY <1>1, <1>3, <1>7, <1>9, <1>10, <1>11, <1>12 DEF ObjBut, Became

\* A frame is written to a stream.
LEMMA WriteOK ==
  ASSUME TypeInv, NEW e \in Ends, NEW n \in DOMAIN obj[e], Write(e, n)
  PROVE  /\ TypeInv' /\ MgrCalm /\ AppCalm /\ WireCalm /\ ObjBut(e, n)
         /\ ~obj'[e][n].needsSyn /\ obj'[e][n].from = obj[e][n].from
         /\ \E f \in Frames : /\ obj'[e][n].out = Append(obj[e][n].out, f)
                              /\ f.syn = obj[e][n].needsSyn
  <1>1. /\ UNCHANGED <<mgr, task, sysq, wire, app, acceptq, lost>>
        /\ obj' = [obj EXCEPT ![e][n].out = Append(obj[e][n].out,
                                                Data(obj[e][n].id, n, obj[e][n].needsSyn)),
                              ![e][n].needsSyn = FALSE, ![e][n].wrote = obj[e][n].wrote + 1]
    BY DEF Write
  <1>2. /\ obj[e][n] \in Objects /\ obj[e] \in Seq(Objects) /\ ObjOK /\ obj \in [Ends -> Seq(Objects)]
        /\ obj[e][n].out \in Seq(Frames) /\ obj[e][n].wrote \in Nat /\ obj[e][n].needsSyn \in BOOLEAN
        /\ obj[e][n].id \in Nat /\ n \in Nat
    <2>1. obj[e][n] \in Objects /\ obj[e] \in Seq(Objects) /\ ObjOK /\ n \in Nat
      BY At, Parts
    <2> QED
      BY <2>1, IdsNat DEF ObjOK, Objects
  <1>3. PICK f, q, w : /\ f = Data(obj[e][n].id, n, obj[e][n].needsSyn)
                       /\ q = Append(obj[e][n].out, f) /\ w = obj[e][n].wrote + 1
    OBVIOUS
  <1>4. /\ f \in Frames /\ f.typ = "data" /\ f.id = obj[e][n].id /\ f.src = n
        /\ f.syn = obj[e][n].needsSyn
    BY <1>2, <1>3, FrameTypes
  <1>5. /\ q \in Seq(Frames) /\ w \in Nat
        /\ \A i \in DOMAIN q : (i \in DOMAIN obj[e][n].out /\ q[i] = obj[e][n].out[i]) \/ q[i] = f
    BY <1>2, <1>3, <1>4, OneMore
  <1>6. PICK o, s : /\ o = [obj[e][n] EXCEPT !.out = q, !.needsSyn = FALSE, !.wrote = w]
                    /\ s = [obj[e] EXCEPT ![n] = o]
    OBVIOUS
  <1>7. obj' = [obj EXCEPT ![e] = s]
    <2>1. PICK p1, p2 : /\ p1 = [obj[e][n] EXCEPT !.out = q]
                        /\ p2 = [p1 EXCEPT !.needsSyn = FALSE]
      OBVIOUS
    <2>2. o = [p2 EXCEPT !.wrote = w]
      BY <1>6, <2>1
    <2>3. PICK y1, y2 : y1 = [obj[e] EXCEPT ![n] = p1] /\ y2 = [obj[e] EXCEPT ![n] = p2]
      OBVIOUS
    <2>4. obj' = [obj EXCEPT ![e] = [[y1 EXCEPT ![n].needsSyn = FALSE] EXCEPT ![n].wrote = w]]
      <3>1. obj' = [obj EXCEPT ![e][n].out = q, ![e][n].needsSyn = FALSE, ![e][n].wrote = w]
        BY <1>1, <1>3
      <3> QED
        BY <1>2, <2>1, <2>3, <3>1
    <2>5. [y1 EXCEPT ![n].needsSyn = FALSE] = y2
      BY <1>2, <2>1, <2>3
    <2>6. [y2 EXCEPT ![n].wrote = w] = s
      BY <1>2, <1>6, <2>2, <2>3
    <2> QED
      BY <2>4, <2>5, <2>6
  <1>8. /\ o \in Objects /\ o.id = obj[e][n].id /\ o.local = obj[e][n].local
        /\ o.from = obj[e][n].from /\ ~o.needsSyn /\ o.out = q
    BY <1>2, <1>5, <1>6 DEF Objects
  <1>9. OutsOf(o, n)
    BY <1>2, <1>4, <1>5, <1>8 DEF ObjOK, OutsOf
  <1>10. ObjOK' /\ Grown /\ Became(e, n, o)
    <2>1. o \in Objects /\ o.id = obj[e][n].id
      BY <1>8
    <2>2. s = [obj[e] EXCEPT ![n] = o]
      BY <1>6
    <2> QED
      BY <1>7, <1>9, <2>1, <2>2, ObjAt
  <1>11. /\ MgrOK' /\ MgrCalm /\ AppOK' /\ AppCalm /\ WireOK' /\ WireCalm /\ TaskOK' /\ HandOK'
         /\ SysOK' /\ AcceptOK' /\ lost' \in BOOLEAN
    <2>1. /\ mgr' = mgr /\ sysq' = sysq /\ acceptq' = acceptq /\ lost' = lost /\ app' = app
          /\ wire' = wire /\ task' = task
      BY <1>1
    <2> QED
      BY <1>10, <2>1, RestSame
  <1>12. TypeInv'
    BY <1>10, <1>11, PartsNext
  <1> QED
    BY <1>3, <1>4, <1>8, <1>10, <1>11, <1>12 DEF ObjBut, Became
----------------------------------------------------------------------------
(* A stream is made.                                                       *)

\* e has one object more, with the id, and a handle and a task for it.
Created(e, id, local) ==
  LET n == Len(obj[e]) + 1 IN
  /\ DOMAIN obj'[e] = 1..n
  /\ \A d \in Ends : d # e => obj'[d] = obj[d] /\ mgr'[d] = mgr[d]
  /\ \A m \in DOMAIN obj[e] :
       /\ obj'[e][m].id = obj[e][m].id /\ obj'[e][m].local = obj[e][m].local
       /\ obj'[e][m].from = obj[e][m].from /\ obj'[e][m].needsSyn = obj[e][m].needsSyn
       /\ obj'[e][m].out = obj[e][m].out
  /\ obj'[e][n].id = id /\ obj'[e][n].local = local /\ obj'[e][n].from = {}
  /\ obj'[e][n].needsSyn = local /\ obj'[e][n].out = <<>>
  /\ mgr'[e].gone = mgr[e].gone /\ mgr'[e].tasks = mgr[e].tasks \cup {n}
  /\ \A i \in Ids : mgr'[e].streams[i] = IF i = id THEN n ELSE mgr[e].streams[i]
  /\ mgr'[e].lastLocal = IF local THEN id ELSE mgr[e].lastLocal

\* A new object.
LEMMA NewType ==
  ASSUME NEW id \in Ids, NEW local \in BOOLEAN, NEW holder \in {"queued", "held", "dropped"},
         NEW late \in BOOLEAN, NEW o, o = NewObject(id, local, holder, late)
  PROVE  /\ o \in Objects /\ o.id = id /\ o.local = local /\ o.from = {}
         /\ o.needsSyn = local /\ o.out = <<>>
  <1>1. PICK c : c = <<>>
    OBVIOUS
  <1>2. c \in Seq(Frames) /\ {} \in SUBSET Nat /\ 0 \in Nat
    BY <1>1
  <1>3. o = [id |-> id, local |-> local, app |-> holder, needsSyn |-> local,
             wrote |-> 0, out |-> c, sinkClosed |-> FALSE, needsFin |-> TRUE,
             dataWriteClosed |-> FALSE, cut |-> FALSE, from |-> {}, late |-> late]
    BY <1>1 DEF NewObject
  <1>4. o \in Objects
    BY <1>2, <1>3 DEF Objects
  <1>5. o.id = id /\ o.local = local /\ o.from = {} /\ o.needsSyn = local /\ o.out = c
    BY <1>3
  <1> QED
    BY <1>1, <1>4, <1>5

\* create_stream keeps the types.
LEMMA CreateOK ==
  ASSUME TypeInv, NEW e \in Ends, NEW id \in Ids, NEW local \in BOOLEAN,
         NEW holder \in {"queued", "held", "dropped"}, ~AtLimit(e),
         CreateStream(e, id, local, holder)
  PROVE  ObjOK' /\ Grown /\ MgrOK' /\ Created(e, id, local)
  <1>1. /\ obj \in [Ends -> Seq(Objects)] /\ mgr \in [Ends -> Managers]
        /\ obj[e] \in Seq(Objects) /\ mgr[e] \in Managers /\ ObjOK /\ MgrOK
        /\ DOMAIN obj[e] = 1..Len(obj[e]) /\ Len(obj[e]) \in Nat
        /\ \A m \in DOMAIN obj[e] : obj[e][m] \in Objects
    BY At, Parts DEF ObjOK, MgrOK
  <1>2. PICK n, old, late, o, now, s :
          /\ n = Len(obj[e]) + 1 /\ old = mgr[e].streams[id] /\ late = (task[e].reader = "done")
          /\ o = NewObject(id, local, holder, late)
          /\ now = [m \in DOMAIN obj[e] |->
                      IF m = old THEN [obj[e][m] EXCEPT !.cut = TRUE] ELSE obj[e][m]]
          /\ s = Append(now, o)
    OBVIOUS
  <1>3. obj' = [obj EXCEPT ![e] = s]
    BY <1>2 DEF CreateStream
  <1>4. /\ o \in Objects /\ o.id = id /\ o.local = local /\ o.from = {}
        /\ o.needsSyn = local /\ o.out = <<>>
    <2>1. late \in BOOLEAN
      BY <1>2
    <2>2. o = NewObject(id, local, holder, late)
      BY <1>2
    <2> QED
      BY <2>1, <2>2, NewType
  <1>5. ASSUME NEW m \in DOMAIN obj[e]
        PROVE  /\ now[m] \in Objects /\ now[m].id = obj[e][m].id /\ now[m].local = obj[e][m].local
               /\ now[m].from = obj[e][m].from /\ now[m].needsSyn = obj[e][m].needsSyn
               /\ now[m].out = obj[e][m].out
    <2>1. PICK p : p = [obj[e][m] EXCEPT !.cut = TRUE]
      OBVIOUS
    <2>2. /\ p \in Objects /\ p.id = obj[e][m].id /\ p.local = obj[e][m].local
          /\ p.from = obj[e][m].from /\ p.needsSyn = obj[e][m].needsSyn /\ p.out = obj[e][m].out
      BY <1>1, <2>1 DEF Objects
    <2>3. now[m] = p \/ now[m] = obj[e][m]
      BY <1>2, <2>1
    <2> QED
      BY <1>1, <2>2, <2>3
  <1>6. now \in Seq(Objects) /\ Len(now) = Len(obj[e])
    <2>1. now \in [1..Len(obj[e]) -> Objects]
      <3>1. now = [m \in DOMAIN obj[e] |-> now[m]]
        BY <1>2
      <3> QED
        BY <1>1, <1>5, <3>1
    <2> QED
      BY <1>1, <2>1
  <1>7. /\ s \in Seq(Objects) /\ DOMAIN s = 1..n /\ s[n] = o
        /\ \A m \in DOMAIN obj[e] : m \in DOMAIN s /\ m # n /\ s[m] = now[m]
        /\ \A m \in DOMAIN s : m = n \/ m \in DOMAIN obj[e]
    BY <1>1, <1>2, <1>4, <1>6
  <1>8. /\ obj' \in [Ends -> Seq(Objects)] /\ obj'[e] = s
        /\ \A d \in Ends : d # e => obj'[d] = obj[d]
    BY <1>1, <1>3, <1>7
  <1>9. ObjOK' /\ Grown
    <2>1. \A m \in DOMAIN obj[e] : m \in DOMAIN obj'[e] /\ obj'[e][m].id = obj[e][m].id
      BY <1>5, <1>7, <1>8
    <2>2. ASSUME NEW m \in DOMAIN obj'[e], NEW i \in DOMAIN obj'[e][m].out
          PROVE  /\ obj'[e][m].out[i].typ = "data" /\ obj'[e][m].out[i].src = m
                 /\ obj'[e][m].out[i].id = obj'[e][m].id
      <3>1. m # n
        <4>1. DOMAIN o.out = {}
          BY <1>4
        <4> QED
          BY <1>7, <1>8, <4>1
      <3>2. m \in DOMAIN obj[e] /\ obj'[e][m].out = obj[e][m].out /\ obj'[e][m].id = obj[e][m].id
        BY <1>5, <1>7, <1>8, <3>1
      <3>3. i \in DOMAIN obj[e][m].out
        BY <3>2
      <3>4. /\ obj[e][m].out[i].typ = "data" /\ obj[e][m].out[i].src = m
            /\ obj[e][m].out[i].id = obj[e][m].id
        BY <1>1, <3>2, <3>3 DEF ObjOK
      <3> QED
        BY <3>2, <3>4
    <2> QED
      BY <1>1, <1>8, <2>1, <2>2, ObjSet
  <1>10. PICK ll, lr : /\ ll = IF local THEN id ELSE mgr[e].lastLocal
                       /\ lr = IF local THEN mgr[e].lastRemote ELSE id
    OBVIOUS
  <1>11. PICK st, T, m : /\ st = [mgr[e].streams EXCEPT ![id] = n] /\ T = mgr[e].tasks \cup {n}
                         /\ m = [mgr[e] EXCEPT !.streams = st, !.tasks = T, !.lastLocal = ll,
                                               !.lastRemote = lr]
    OBVIOUS
  <1>12. mgr' = [mgr EXCEPT ![e] = m]
    <2>1. mgr' = [mgr EXCEPT ![e].streams[id] = n, ![e].tasks = mgr[e].tasks \cup {n},
                             ![e].lastLocal = IF local THEN id ELSE mgr[e].lastLocal,
                             ![e].lastRemote = IF local THEN mgr[e].lastRemote ELSE id]
      BY <1>2 DEF CreateStream
    <2>2. mgr' = [mgr EXCEPT ![e].streams[id] = n, ![e].tasks = T, ![e].lastLocal = ll,
                             ![e].lastRemote = lr]
      BY <1>10, <1>11, <2>1, Zenon
    <2>3. PICK m1, m2, m3 : /\ m1 = [mgr[e] EXCEPT !.streams = st] /\ m2 = [m1 EXCEPT !.tasks = T]
                            /\ m3 = [m2 EXCEPT !.lastLocal = ll]
      OBVIOUS
    <2>4. m = [m3 EXCEPT !.lastRemote = lr]
      BY <1>11, <2>3
    <2>5. PICK y1, y2, y3 : /\ y1 = [mgr EXCEPT ![e].streams[id] = n]
                            /\ y2 = [y1 EXCEPT ![e].tasks = T]
                            /\ y3 = [y2 EXCEPT ![e].lastLocal = ll]
                            /\ mgr' = [y3 EXCEPT ![e].lastRemote = lr]
      BY <2>2
    <2>6. y1 = [mgr EXCEPT ![e] = m1]
      <3>1. [mgr[e] EXCEPT !.streams[id] = n] = m1
        BY <1>1, <1>11, <2>3 DEF Managers
      <3> QED
        BY <1>1, <2>5, <3>1
    <2>7. y2 = [mgr EXCEPT ![e] = m2]
      BY <1>1, <2>3, <2>5, <2>6
    <2>8. y3 = [mgr EXCEPT ![e] = m3]
      BY <1>1, <2>3, <2>5, <2>7
    <2> QED
      BY <1>1, <2>4, <2>5, <2>8
  <1>13. st \in [Ids -> Nat] /\ T \in SUBSET Nat /\ ll \in 0..MaxId /\ lr \in 0..MaxId
    <2>1. mgr[e].streams \in [Ids -> Nat] /\ mgr[e].tasks \in SUBSET Nat /\ n \in Nat
      BY <1>1, <1>2 DEF Managers
    <2>2. mgr[e].lastLocal \in 0..MaxId /\ mgr[e].lastRemote \in 0..MaxId /\ id \in 0..MaxId
      BY <1>1, SessionAssumption DEF Managers, Ids
    <2>3. ll \in 0..MaxId /\ lr \in 0..MaxId
      BY <1>10, <2>2, Zenon
    <2> QED
      BY <1>11, <2>1, <2>3
  <1>14. /\ m \in Managers /\ m.streams = st /\ m.tasks = T /\ m.lastLocal = ll
         /\ m.gone = mgr[e].gone
    BY <1>1, <1>13, <1>11 DEF Managers
  <1>15. \A i \in Ids : st[i] = IF i = id THEN n ELSE mgr[e].streams[i]
    <2>1. mgr[e].streams \in [Ids -> Nat]
      BY <1>1 DEF Managers
    <2> QED
      BY <1>11, <2>1
  <1>16. mgr' \in [Ends -> Managers] /\ mgr'[e] = m /\ \A d \in Ends : d # e => mgr'[d] = mgr[d]
    BY <1>1, <1>12, <1>14
  <1>17. Created(e, id, local)
    <2>1. n = Len(obj[e]) + 1
      BY <1>2
    <2>2. /\ DOMAIN obj'[e] = 1..n /\ obj'[e][n] = o
          /\ \A d \in Ends : d # e => obj'[d] = obj[d] /\ mgr'[d] = mgr[d]
          /\ \A k \in DOMAIN obj[e] :
               /\ obj'[e][k].id = obj[e][k].id /\ obj'[e][k].local = obj[e][k].local
               /\ obj'[e][k].from = obj[e][k].from /\ obj'[e][k].needsSyn = obj[e][k].needsSyn
               /\ obj'[e][k].out = obj[e][k].out
      BY <1>5, <1>7, <1>8, <1>16
    <2>3. /\ mgr'[e].gone = mgr[e].gone /\ mgr'[e].tasks = mgr[e].tasks \cup {n}
          /\ \A i \in Ids : mgr'[e].streams[i] = IF i = id THEN n ELSE mgr[e].streams[i]
          /\ mgr'[e].lastLocal = ll
      BY <1>14, <1>15, <1>16, <1>11
    <2>4. mgr'[e].lastLocal = IF local THEN id ELSE mgr[e].lastLocal
      BY <1>10, <2>3, Zenon
    <2> QED
      BY <1>4, <2>1, <2>2, <2>3, <2>4, Zenon DEF Created
  <1>18. ASSUME NEW d \in Ends
         PROVE  /\ mgr'[d].tasks \subseteq DOMAIN obj'[d] /\ Open(d)' <= Limit[d]
                /\ \A i \in Ids : mgr'[d].streams[i] # 0 => mgr'[d].streams[i] \in DOMAIN obj'[d]
    <2>1. CASE d = e
      <3>1. DOMAIN obj'[e] = 1..n /\ n \in 1..n /\ DOMAIN obj[e] \subseteq 1..n
        BY <1>1, <1>2, <1>7, <1>8
      <3>2. mgr'[e].tasks \subseteq DOMAIN obj'[e]
        BY <1>1, <1>14, <1>16, <1>11, <3>1 DEF MgrOK
      <3>3. \A i \in Ids : mgr'[e].streams[i] # 0 => mgr'[e].streams[i] \in DOMAIN obj'[e]
        BY <1>1, <1>14, <1>15, <1>16, <3>1 DEF MgrOK
      <3>4. Open(e)' <= Open(e) + 1
        <4>1. \A i \in Ids : i # id => mgr'[e].streams[i] = mgr[e].streams[i]
          BY <1>14, <1>15, <1>16
        <4> QED
          BY <4>1, OpenMore
      <3>5. Open(e) \in Nat /\ Open(e)' \in Nat /\ Limit[e] \in Nat /\ Open(e) <= Limit[e]
            /\ Open(e) # Limit[e]
        BY <1>1, OpenNat, SessionAssumption DEF MgrOK, AtLimit
      <3> QED
        BY <2>1, <3>2, <3>3, <3>4, <3>5
    <2>2. CASE d # e
      <3>1. mgr'[d] = mgr[d] /\ obj'[d] = obj[d]
        BY <1>8, <1>16, <2>2
      <3>2. Open(d)' = Open(d)
        BY <3>1 DEF Open
      <3> QED
        BY <1>1, <3>1, <3>2 DEF MgrOK
    <2> QED
      BY <2>1, <2>2
  <1>19. MgrOK'
    BY <1>16, <1>18 DEF MgrOK
  <1> QED
    BY <1>9, <1>17, <1>19

\* The tail of a queue is shorter by one.
LEMMA ShorterTail ==
  ASSUME NEW S, NEW q \in Seq(S), q # <<>>
  PROVE  Tail(q) \in Seq(S) /\ Len(Tail(q)) = Len(q) - 1
  OBVIOUS

\* A request for a stream is taken off the queue.
LEMMA PendingLess ==
  ASSUME TypeInv, NEW e \in Ends, app[e].pending # <<>>,
         app' = [app EXCEPT ![e].pending = Tail(@)]
  PROVE  /\ AppOK' /\ AppCalm
         /\ Len(app'[e].pending) = Len(app[e].pending) - 1
         /\ \A d \in Ends : app'[d].asked = app[d].asked
         /\ \A d \in Ends : d # e => app'[d] = app[d]
  <1>1. /\ app \in [Ends -> Apps] /\ app[e] \in Apps /\ app[e].pending \in Seq(BOOLEAN)
        /\ \A d \in Ends : app[d].asked \in Nat /\ Len(app[d].pending) \in Nat
    BY At DEF Apps, TypeInv, TypeOK
  <1>2. PICK p, a : p = Tail(app[e].pending) /\ a = [app[e] EXCEPT !.pending = p]
    OBVIOUS
  <1>3. p \in Seq(BOOLEAN) /\ Len(p) = Len(app[e].pending) - 1
    BY <1>1, <1>2, ShorterTail
  <1>4. a \in Apps /\ a.asked = app[e].asked /\ a.pending = p
    BY <1>1, <1>2, <1>3 DEF Apps
  <1>5. app' = [app EXCEPT ![e] = a]
    BY <1>1, <1>2
  <1>6. app' \in [Ends -> Apps] /\ app'[e] = a /\ \A d \in Ends : d # e => app'[d] = app[d]
    BY <1>1, <1>4, <1>5
  <1>7. AppCalm
    BY <1>1, <1>3, <1>4, <1>6 DEF AppCalm
  <1> QED
    BY <1>3, <1>4, <1>6, <1>7 DEF AppOK

\* The next id is one.
LEMMA NextIdType ==
  ASSUME TypeInv, NEW e \in Ends
  PROVE  /\ NextId(e) \in Ids
         /\ mgr[e].lastLocal + 2 <= MaxId => NextId(e) = mgr[e].lastLocal + 2
  <1>1. mgr[e].lastLocal \in 0..MaxId /\ MaxId \in Nat /\ MaxId > 1
    BY At, SessionAssumption DEF Managers
  <1> QED
    BY <1>1 DEF NextId, Ids

\* What e had asked for, when a stream is made for it.
Answered(e) ==
  /\ Len(app'[e].pending) = Len(app[e].pending) - 1
  /\ \A d \in Ends : app'[d].asked = app[d].asked
  /\ \A d \in Ends : d # e => app'[d] = app[d]

\* A request for a stream is answered.
LEMMA AnswerOK ==
  ASSUME TypeInv, NEW e \in Ends, AnswerOpen(e)
  PROVE  /\ TypeInv'
         /\ Calm \/ (Created(e, NextId(e), TRUE) /\ Answered(e) /\ wire' = wire)
  <1>1. task' = task /\ sysq' = sysq /\ wire' = wire /\ acceptq' = acceptq /\ lost' = lost
    BY DEF AnswerOpen
  <1>2. AppOK' /\ AppCalm /\ Answered(e)
    BY PendingLess DEF AnswerOpen, Answered
  <1>3. CASE AtLimit(e)
    <2>1. obj' = obj /\ mgr' = mgr
      BY <1>3 DEF AnswerOpen
    <2>2. ObjOK' /\ Grown /\ ObjCalm
      BY <2>1, Parts, ObjSame, CalmSame
    <2>3. /\ MgrOK' /\ MgrCalm /\ TaskOK' /\ SysOK' /\ WireOK' /\ WireCalm /\ HandOK' /\ AcceptOK'
          /\ lost' \in BOOLEAN
      BY <1>1, <2>1, <2>2, RestSame
    <2>4. TypeInv'
      BY <1>2, <2>2, <2>3, PartsNext
    <2> QED
      BY <1>2, <2>2, <2>3, <2>4 DEF Calm
  <1>4. CASE ~AtLimit(e)
    <2>1. PICK holder \in {"queued", "held", "dropped"} : CreateStream(e, NextId(e), TRUE, holder)
      BY <1>4 DEF AnswerOpen
    <2>2. ObjOK' /\ Grown /\ MgrOK' /\ Created(e, NextId(e), TRUE)
      BY <1>4, <2>1, NextIdType, CreateOK
    <2>3. /\ TaskOK' /\ SysOK' /\ WireOK' /\ HandOK' /\ AcceptOK'
          /\ lost' \in BOOLEAN
      BY <1>1, <2>2, RestSame
    <2>4. TypeInv'
      BY <1>2, <2>2, <2>3, PartsNext
    <2> QED
      BY <1>1, <1>2, <2>2, <2>4
  <1> QED
    BY <1>3, <1>4
----------------------------------------------------------------------------
(* Steps of the reader task.                                               *)

\* The frame that arrives, and the stream it is for.
LEMMA ArrivingIs ==
  ASSUME TypeInv, NEW e \in Ends, NEW typ, Reading(e, typ)
  PROVE  /\ wire[Peer(e)] # <<>> /\ Arriving(e) \in Frames /\ Arriving(e).typ = typ
         /\ 1 \in DOMAIN wire[Peer(e)] /\ Arriving(e) = wire[Peer(e)][1]
         /\ Genuine(Peer(e), Arriving(e)) /\ Arriving(e).src \in Nat
         /\ typ \in {"data", "rst"} => /\ Arriving(e).id \in Ids
                                       /\ mgr[e].streams[Arriving(e).id] # 0 =>
                                            mgr[e].streams[Arriving(e).id] \in DOMAIN obj[e]
         /\ task[e].reader = "run" /\ task[e].accepting = 0
  <1>1. /\ wire[Peer(e)] # <<>> /\ Arriving(e).typ = typ
        /\ task[e].reader = "run" /\ task[e].accepting = 0 /\ Arriving(e) = Head(wire[Peer(e)])
    BY DEF Reading, Arriving
  <1>2. PICK p : p = Peer(e) /\ p \in Ends
    BY TwoEnds
  <1>3. WireOK /\ wire[p] \in Seq(Frames) /\ MgrOK
    BY <1>2, At, Parts
  <1>4. PICK q : q = wire[p]
    OBVIOUS
  <1>5. Head(q) \in Frames /\ 1 \in DOMAIN q /\ Head(q) = q[1]
    BY <1>1, <1>2, <1>3, <1>4, LessHead
  <1>6. Genuine(p, q[1])
    BY <1>2, <1>3, <1>4, <1>5 DEF WireOK
  <1>7. q[1].src \in Nat
    BY <1>5 DEF Frames
  <1>8. ASSUME typ \in {"data", "rst"} PROVE q[1].id \in Ids
    <2>1. CASE q[1].typ = "data"
      <3>1. q[1].src \in DOMAIN obj[p] /\ q[1].id = obj[p][q[1].src].id
        BY <1>6, <2>1 DEF Genuine
      <3>2. obj[p][q[1].src] \in Objects
        BY <1>2, <3>1, At
      <3> QED
        BY <3>1, <3>2 DEF Objects
    <2>2. CASE q[1].typ = "rst"
      BY <1>6, <2>2 DEF Genuine
    <2> QED
      BY <1>1, <1>2, <1>4, <1>5, <1>8, <2>1, <2>2
  <1>9. \A i \in Ids : mgr[e].streams[i] # 0 => mgr[e].streams[i] \in DOMAIN obj[e]
    BY <1>3 DEF MgrOK
  <1> QED
    BY <1>1, <1>2, <1>4, <1>5, <1>6, <1>7, <1>8, <1>9

\* A frame is taken off the connection and none is in hand.
LEMMA ConsumeOK ==
  ASSUME TypeInv, NEW e \in Ends, Grown, wire[Peer(e)] # <<>>, Consume(e),
         \A d \in Ends : d # e => task'[d].accepting = task[d].accepting,
         task'[e].accepting = 0
  PROVE  WireOK' /\ WireCalm /\ HandOK'
  <1>1. PICK p : p = Peer(e) /\ p \in Ends /\ \A d \in Ends : d # e => Peer(d) # p
    BY TwoEnds
  <1>2. wire[p] # <<>> /\ wire' = [wire EXCEPT ![p] = Tail(@)]
    BY <1>1 DEF Consume
  <1>3. WireOK' /\ WireCalm /\ \A d \in Ends : d # p => wire'[d] = wire[d]
    BY <1>1, <1>2, WireLess
  <1>4. HandOK
    BY Parts
  <1>5. HandOK'
    <2> SUFFICES ASSUME NEW d \in Ends, task'[d].accepting # 0
                 PROVE  wire'[Peer(d)] # <<>>
      BY DEF HandOK
    <2>1. d # e /\ Peer(d) \in Ends /\ Peer(d) # p /\ task[d].accepting # 0
      BY <1>1, TwoEnds
    <2> QED
      BY <1>3, <1>4, <2>1 DEF HandOK
  <1> QED
    BY <1>3, <1>5

\* The reader of e ends.
LEMMA ReaderTaskOK ==
  ASSUME TypeInv, NEW e \in Ends, Grown,
         task' = [task EXCEPT ![e].reader = "done", ![e].accepting = 0]
  PROVE  /\ TaskOK' /\ task'[e].accepting = 0
         /\ \A d \in Ends : d # e => task'[d].accepting = task[d].accepting
  <1>1. task \in [Ends -> Tasks] /\ task[e] \in Tasks /\ TaskOK
    BY Parts DEF TaskOK
  <1>2. PICK t : t = [task[e] EXCEPT !.reader = "done", !.accepting = 0]
    OBVIOUS
  <1>3. task' = [task EXCEPT ![e] = t]
    BY <1>1, <1>2
  <1>4. t \in Tasks /\ t.accepting = 0
    BY <1>1, <1>2 DEF Tasks
  <1>5. /\ task' \in [Ends -> Tasks] /\ task'[e] = t
        /\ \A d \in Ends : d # e => task'[d] = task[d]
    BY <1>1, <1>3, <1>4
  <1> QED
    BY <1>1, <1>4, <1>5 DEF TaskOK, Grown

\* What closes the senders changes flags.
LEMMA SendersFlags ==
  ASSUME TypeInv, NEW e \in Ends, NEW s, s = SendersClosed(e)
  PROVE  /\ s = [n \in DOMAIN obj[e] |-> s[n]]
         /\ \A n \in DOMAIN obj[e] : FlagsOf(s[n], obj[e][n])
  <1>1. \A n \in DOMAIN obj[e] : obj[e][n] \in Objects
    BY At
  <1>2. ASSUME NEW n \in DOMAIN obj[e] PROVE FlagsOf(s[n], obj[e][n])
    <2>1. PICK o : o = [obj[e][n] EXCEPT !.cut = TRUE]
      OBVIOUS
    <2>2. FlagsOf(o, obj[e][n]) /\ FlagsOf(obj[e][n], obj[e][n])
      BY <1>1, <2>1 DEF Objects, FlagsOf
    <2>3. s[n] = o \/ s[n] = obj[e][n]
      BY <2>1 DEF SendersClosed
    <2> QED
      BY <2>2, <2>3
  <1>3. s = [n \in DOMAIN obj[e] |-> s[n]]
    BY DEF SendersClosed
  <1> QED
    BY <1>2, <1>3

\* Draining the streams of an end changes flags only.
LEMMA DrainedFlags ==
  ASSUME TypeInv, NEW e \in Ends, NEW b \in BOOLEAN, NEW s, s = Drained(e, b)
  PROVE  /\ s = [n \in DOMAIN obj[e] |-> s[n]]
         /\ \A n \in DOMAIN obj[e] : FlagsOf(s[n], obj[e][n])
  <1>1. \A n \in DOMAIN obj[e] : obj[e][n] \in Objects
    BY At
  <1>2. ASSUME NEW n \in DOMAIN obj[e] PROVE FlagsOf(s[n], obj[e][n])
    <2>1. PICK c : c = (obj[e][n].sinkClosed \/ b)
      OBVIOUS
    <2>2. c \in BOOLEAN
      BY <2>1
    <2>3. PICK o : o = [obj[e][n] EXCEPT !.cut = TRUE, !.sinkClosed = c]
      OBVIOUS
    <2>4. FlagsOf(o, obj[e][n]) /\ FlagsOf(obj[e][n], obj[e][n])
      BY <1>1, <2>2, <2>3 DEF Objects, FlagsOf
    <2>5. s[n] = o \/ s[n] = obj[e][n]
      BY <2>1, <2>3 DEF Drained
    <2> QED
      BY <2>4, <2>5
  <1>3. s = [n \in DOMAIN obj[e] |-> s[n]]
    BY DEF Drained
  <1> QED
    BY <1>2, <1>3

\* So does the drop of the stream n.
LEMMA DroppedFlags ==
  ASSUME TypeInv, NEW e \in Ends, NEW n \in DOMAIN obj[e], NEW x,
         x = [m \in DOMAIN obj[e] |-> x[m]],
         \A m \in DOMAIN obj[e] : FlagsOf(x[m], obj[e][m]),
         NEW s, s = [x EXCEPT ![n].app = "dropped"]
  PROVE  /\ s = [m \in DOMAIN obj[e] |-> s[m]]
         /\ \A m \in DOMAIN obj[e] : FlagsOf(s[m], obj[e][m])
  <1>1. PICK o : o = [x[n] EXCEPT !.app = "dropped"]
    OBVIOUS
  <1>2. x[n] \in Objects
    BY DEF FlagsOf
  <1>3. /\ o \in Objects /\ o.id = x[n].id /\ o.local = x[n].local /\ o.from = x[n].from
        /\ o.needsSyn = x[n].needsSyn /\ o.out = x[n].out
    BY <1>1, <1>2 DEF Objects
  <1>4. FlagsOf(o, obj[e][n])
    BY <1>3 DEF FlagsOf
  <1>5. /\ DOMAIN s = DOMAIN obj[e]
        /\ \A m \in DOMAIN obj[e] : s[m] = IF m = n THEN o ELSE x[m]
    BY <1>1
  <1> QED
    BY <1>4, <1>5

\* The frame e reads: it was a SYN and the stream is made.
Opened(e) ==
  /\ DOMAIN wire'[Peer(e)] = DOMAIN wire[Peer(e)]
  /\ wire'[e] = wire[e]
  /\ 1 \in DOMAIN wire[Peer(e)]
  /\ ~wire'[Peer(e)][1].syn
  /\ \A i \in DOMAIN wire[Peer(e)] : i # 1 => wire'[Peer(e)][i] = wire[Peer(e)][i]

\* A stream of the peer is made from its first frame.
LEMMA ReadSynOK ==
  ASSUME TypeInv, NEW e \in Ends, ReadSyn(e)
  PROVE  /\ TypeInv' /\ Created(e, Arriving(e).id, FALSE) /\ Opened(e) /\ app' = app
         /\ wire[Peer(e)][1].syn /\ wire[Peer(e)][1].typ = "data" /\ Arriving(e).id \in Ids
         /\ Arriving(e) = wire[Peer(e)][1] /\ Genuine(Peer(e), Arriving(e))
  <1>1. /\ Reading(e, "data") /\ Arriving(e).syn /\ ~AtLimit(e)
        /\ CreateStream(e, Arriving(e).id, FALSE, "queued")
        /\ task' = [task EXCEPT ![e].accepting = Len(obj[e]) + 1]
        /\ wire' = [wire EXCEPT ![Peer(e)][1].syn = FALSE]
        /\ sysq' = sysq /\ app' = app /\ acceptq' = acceptq /\ lost' = lost
    BY DEF ReadSyn
  <1>2. /\ wire[Peer(e)] # <<>> /\ Arriving(e) \in Frames /\ Arriving(e).typ = "data"
        /\ 1 \in DOMAIN wire[Peer(e)] /\ Arriving(e) = wire[Peer(e)][1]
        /\ Genuine(Peer(e), Arriving(e)) /\ Arriving(e).id \in Ids
    BY <1>1, ArrivingIs
  <1>3. PICK p, f, g : /\ p = Peer(e) /\ f = wire[p][1] /\ g = [f EXCEPT !.syn = FALSE]
    OBVIOUS
  <1>4. p \in Ends /\ p # e /\ f \in Frames /\ wire[p] \in Seq(Frames) /\ wire \in [Ends -> Seq(Frames)]
        /\ WireOK
    BY <1>2, <1>3, TwoEnds, At, Parts DEF WireOK
  <1>5. /\ g \in Frames /\ g.typ = f.typ /\ g.id = f.id /\ g.src = f.src /\ ~g.syn
    BY <1>3, <1>4 DEF Frames
  <1>6. ObjOK' /\ Grown /\ MgrOK' /\ Created(e, Arriving(e).id, FALSE)
    BY <1>1, <1>2, CreateOK
  <1>7. PICK q : q = [wire[p] EXCEPT ![1] = g]
    OBVIOUS
  <1>8. /\ q \in Seq(Frames) /\ DOMAIN q = DOMAIN wire[p] /\ q[1] = g /\ q # <<>>
        /\ \A i \in DOMAIN wire[p] : i # 1 => q[i] = wire[p][i]
    BY <1>2, <1>3, <1>4, <1>5, <1>7
  <1>9. /\ wire' \in [Ends -> Seq(Frames)] /\ wire'[p] = q
        /\ \A d \in Ends : d # p => wire'[d] = wire[d]
    <2>1. wire' = [wire EXCEPT ![p] = q]
      <3>1. wire' = [wire EXCEPT ![p][1].syn = FALSE]
        BY <1>1, <1>3
      <3> QED
        BY <1>3, <1>4, <1>7, <3>1
    <2> QED
      BY <1>4, <1>8, <2>1
  <1>10. Opened(e)
    BY <1>2, <1>3, <1>4, <1>5, <1>8, <1>9 DEF Opened
  <1>11. ASSUME NEW d \in Ends, NEW i \in DOMAIN wire'[d] PROVE Genuine(d, wire[d][i])'
    <2>1. PICK x : x = wire'[d][i]
      OBVIOUS
    <2>2. Genuine(d, x)
      <3>1. CASE d = p /\ i = 1
        <4>1. x = g /\ d = p
          BY <1>8, <1>9, <2>1, <3>1
        <4>2. Genuine(p, f)
          BY <1>2, <1>3
        <4> QED
          BY <1>5, <4>1, <4>2 DEF Genuine
      <3>2. CASE d # p \/ i # 1
        <4>1. i \in DOMAIN wire[d] /\ x = wire[d][i]
          BY <1>8, <1>9, <1>11, <2>1, <3>2
        <4> QED
          BY <1>4, <4>1 DEF WireOK
      <3> QED
        BY <3>1, <3>2
    <2>3. Genuine(d, x)'
      BY <1>6, <2>2, GenuineKept
    <2> QED
      BY <2>1, <2>3 DEF Genuine
  <1>12. WireOK'
    BY <1>9, <1>11 DEF WireOK
  <1>13. TaskOK' /\ \A d \in Ends : d # e => task'[d] = task[d]
    <2>1. TaskOK /\ task \in [Ends -> Tasks] /\ task[e] \in Tasks /\ Len(obj[e]) \in Nat
      BY At, Parts DEF TaskOK
    <2>2. PICK n, t : n = Len(obj[e]) + 1 /\ t = [task[e] EXCEPT !.accepting = n]
      OBVIOUS
    <2>3. n \in Nat /\ n \in DOMAIN obj'[e]
      <3>1. n \in Nat /\ n \in 1..n
        BY <2>1, <2>2
      <3>2. DOMAIN obj'[e] = 1..n
        BY <1>6, <2>2 DEF Created
      <3> QED
        BY <3>1, <3>2
    <2>4. t \in Tasks /\ t.accepting = n
      BY <2>1, <2>2, <2>3 DEF Tasks
    <2>5. task' = [task EXCEPT ![e] = t]
      BY <1>1, <2>1, <2>2
    <2>6. task' \in [Ends -> Tasks] /\ task'[e] = t /\ \A d \in Ends : d # e => task'[d] = task[d]
      BY <2>1, <2>4, <2>5
    <2> QED
      BY <1>6, <2>1, <2>3, <2>4, <2>6 DEF TaskOK, Grown
  <1>14. HandOK'
    <2>1. HandOK /\ \A d \in Ends : wire[d] # <<>> => wire'[d] # <<>>
      BY <1>8, <1>9, Parts
    <2> SUFFICES ASSUME NEW d \in Ends, task'[d].accepting # 0
                 PROVE  wire'[Peer(d)] # <<>>
      BY DEF HandOK
    <2>2. CASE d = e
      BY <1>3, <1>8, <1>9, <2>2
    <2>3. CASE d # e
      BY <1>13, <2>1, <2>3, TwoEnds DEF HandOK
    <2> QED
      BY <2>2, <2>3
  <1>15. SysOK' /\ AcceptOK' /\ lost' \in BOOLEAN /\ AppOK'
    BY <1>1, <1>6, RestSame
  <1>16. TypeInv'
    BY <1>6, <1>12, <1>13, <1>14, <1>15, PartsNext
  <1> QED
    BY <1>1, <1>2, <1>6, <1>10, <1>16

\* The reader ends: the objects change their flags.
LEMMA EndsOK ==
  ASSUME TypeInv, NEW e \in Ends, NEW s, ReaderEnds(e, s),
         s = [n \in DOMAIN obj[e] |-> s[n]],
         \A n \in DOMAIN obj[e] : FlagsOf(s[n], obj[e][n])
  PROVE  /\ ObjOK' /\ Grown /\ ObjCalm /\ TaskOK' /\ task'[e].accepting = 0
         /\ \A d \in Ends : d # e => task'[d].accepting = task[d].accepting
  <1>1. obj' = [obj EXCEPT ![e] = s]
    BY DEF ReaderEnds
  <1>2. ObjOK' /\ Grown /\ ObjCalm
    BY <1>1, MapFlags
  <1> QED
    BY <1>2, ReaderTaskOK DEF ReaderEnds

\* A SYN arrives at the limit.
LEMMA SynAtLimitOK ==
  ASSUME TypeInv, NEW e \in Ends, ReadSynAtLimit(e)
  PROVE  TypeInv' /\ Calm
  <1>1. /\ Reading(e, "data") /\ Consume(e) /\ mgr' = mgr /\ sysq' = sysq /\ app' = app
        /\ acceptq' = acceptq /\ lost' = lost
    BY DEF ReadSynAtLimit
  <1>2. PICK s : s = SendersClosed(e)
    OBVIOUS
  <1>3. ReaderEnds(e, s)
    BY <1>2 DEF ReadSynAtLimit
  <1>4. /\ ObjOK' /\ Grown /\ ObjCalm /\ TaskOK' /\ task'[e].accepting = 0
        /\ \A d \in Ends : d # e => task'[d].accepting = task[d].accepting
    <2>1. /\ s = [n \in DOMAIN obj[e] |-> s[n]]
          /\ \A n \in DOMAIN obj[e] : FlagsOf(s[n], obj[e][n])
      BY <1>2, SendersFlags
    <2> QED
      BY <1>3, <2>1, EndsOK
  <1>5. wire[Peer(e)] # <<>>
    BY <1>1, ArrivingIs
  <1>6. WireOK' /\ WireCalm /\ HandOK'
    BY <1>1, <1>4, <1>5, ConsumeOK
  <1>7. MgrOK' /\ MgrCalm /\ SysOK' /\ AppOK' /\ AppCalm /\ AcceptOK' /\ lost' \in BOOLEAN
    BY <1>1, <1>4, RestSame
  <1>8. TypeInv'
    BY <1>4, <1>6, <1>7, PartsNext
  <1> QED
    BY <1>4, <1>6, <1>7, <1>8 DEF Calm

\* The queue of accept() has one more.
LEMMA AcceptMore ==
  ASSUME TypeInv, Grown, NEW e \in Ends, NEW n \in DOMAIN obj[e], Len(acceptq[e]) <= AcceptCap,
         acceptq' = [acceptq EXCEPT ![e] = Append(@, n)]
  PROVE  AcceptOK'
  <1>1. AcceptOK /\ acceptq \in [Ends -> Seq(Nat)] /\ acceptq[e] \in Seq(Nat) /\ AcceptCap \in Nat
        /\ n \in Nat
    BY At, Parts, SessionAssumption DEF AcceptOK
  <1>2. PICK q : q = Append(acceptq[e], n)
    OBVIOUS
  <1>3. /\ q \in Seq(Nat) /\ Len(q) = Len(acceptq[e]) + 1 /\ Len(acceptq[e]) \in Nat
        /\ \A i \in DOMAIN q : (i \in DOMAIN acceptq[e] /\ q[i] = acceptq[e][i]) \/ q[i] = n
    BY <1>1, <1>2
  <1>4. /\ acceptq' \in [Ends -> Seq(Nat)]
        /\ acceptq'[e] = q /\ \A d \in Ends : d # e => acceptq'[d] = acceptq[d]
    BY <1>1, <1>2, <1>3
  <1>5. \A d \in Ends : Len(acceptq'[d]) <= AcceptCap + 1
    BY <1>1, <1>3, <1>4 DEF AcceptOK
  <1>6. \A d \in Ends : \A i \in DOMAIN acceptq'[d] : acceptq'[d][i] \in DOMAIN obj[d]
    BY <1>1, <1>3, <1>4 DEF AcceptOK
  <1> QED
    BY <1>4, <1>5, <1>6 DEF AcceptOK, Grown

\* A stream is queued for accept().
LEMMA QueueOK ==
  ASSUME TypeInv, NEW e \in Ends, QueueAccept(e)
  PROVE  TypeInv' /\ Calm
  <1>1. /\ task[e].reader = "run" /\ task[e].accepting # 0
        /\ mgr' = mgr /\ sysq' = sysq /\ app' = app /\ lost' = lost
    BY DEF QueueAccept
  <1>2. PICK n : n = task[e].accepting
    OBVIOUS
  <1>3. n \in DOMAIN obj[e] /\ wire[Peer(e)] # <<>>
    BY <1>1, <1>2, Parts DEF TaskOK, HandOK
  <1>4. CASE app[e].held
    <2>1. /\ Len(acceptq[e]) <= AcceptCap
          /\ acceptq' = [acceptq EXCEPT ![e] = Append(@, n)]
          /\ task' = [task EXCEPT ![e].accepting = 0]
          /\ obj' = obj /\ wire' = wire
      BY <1>2, <1>4 DEF QueueAccept
    <2>2. ObjOK' /\ Grown /\ ObjCalm
      BY <2>1, Parts, ObjSame, CalmSame
    <2>3. AcceptOK'
      BY <1>3, <2>1, <2>2, AcceptMore
    <2>4. TaskOK' /\ \A d \in Ends : task'[d].accepting = task[d].accepting \/ task'[d].accepting = 0
      <3>1. task \in [Ends -> Tasks] /\ task[e] \in Tasks /\ TaskOK
        BY Parts DEF TaskOK
      <3>2. PICK t : t = [task[e] EXCEPT !.accepting = 0]
        OBVIOUS
      <3>3. t \in Tasks /\ t.accepting = 0
        BY <3>1, <3>2 DEF Tasks
      <3>4. task' = [task EXCEPT ![e] = t]
        BY <2>1, <3>1, <3>2
      <3>5. /\ task' \in [Ends -> Tasks] /\ task'[e] = t
            /\ \A d \in Ends : d # e => task'[d] = task[d]
        BY <3>1, <3>3, <3>4
      <3> QED
        BY <2>2, <3>1, <3>3, <3>5 DEF TaskOK, Grown
    <2>5. HandOK'
      BY <2>1, <2>4, Parts, HandKept
    <2>6. MgrOK' /\ MgrCalm /\ SysOK' /\ WireOK' /\ WireCalm /\ AppOK' /\ AppCalm /\ lost' \in BOOLEAN
      BY <1>1, <2>1, <2>2, RestSame
    <2>7. TypeInv'
      BY <2>2, <2>3, <2>4, <2>5, <2>6, PartsNext
    <2> QED
      BY <2>2, <2>6, <2>7 DEF Calm
  <1>5. CASE ~app[e].held
    <2>1. PICK x, s : x = SendersClosed(e) /\ s = [x EXCEPT ![n].app = "dropped"]
      OBVIOUS
    <2>2. ReaderEnds(e, s) /\ Consume(e) /\ acceptq' = acceptq
      <3>1. /\ ReaderEnds(e, [SendersClosed(e) EXCEPT ![task[e].accepting].app = "dropped"])
            /\ Consume(e) /\ acceptq' = acceptq
        BY <1>5 DEF QueueAccept
      <3> QED
        BY <1>2, <2>1, <3>1
    <2>3. /\ s = [m \in DOMAIN obj[e] |-> s[m]]
          /\ \A m \in DOMAIN obj[e] : FlagsOf(s[m], obj[e][m])
      <3>1. /\ x = [m \in DOMAIN obj[e] |-> x[m]]
            /\ \A m \in DOMAIN obj[e] : FlagsOf(x[m], obj[e][m])
        BY <2>1, SendersFlags
      <3>2. s = [x EXCEPT ![n].app = "dropped"]
        BY <2>1
      <3> QED
        BY <1>3, <3>1, <3>2, DroppedFlags
    <2>4. /\ ObjOK' /\ Grown /\ ObjCalm /\ TaskOK' /\ task'[e].accepting = 0
          /\ \A d \in Ends : d # e => task'[d].accepting = task[d].accepting
      BY <2>2, <2>3, EndsOK
    <2>5. WireOK' /\ WireCalm /\ HandOK'
      BY <1>3, <2>2, <2>4, ConsumeOK
    <2>6. MgrOK' /\ MgrCalm /\ SysOK' /\ AppOK' /\ AppCalm /\ AcceptOK' /\ lost' \in BOOLEAN
      BY <1>1, <2>2, <2>4, RestSame
    <2>7. TypeInv'
      BY <2>4, <2>5, <2>6, PartsNext
    <2> QED
      BY <2>4, <2>5, <2>6, <2>7 DEF Calm
  <1> QED
    BY <1>4, <1>5

\* A GOAWAY arrives.
LEMMA ReadGoAwayOK ==
  ASSUME TypeInv, NEW e \in Ends, ReadGoAway(e)
  PROVE  TypeInv' /\ Calm
  <1>1. /\ Reading(e, "goaway") /\ Consume(e) /\ sysq' = sysq /\ app' = app
        /\ mgr' = [mgr EXCEPT ![e] = [GoneAway(e) EXCEPT !.terminated = TRUE]]
        /\ acceptq' = acceptq /\ lost' = lost
    BY DEF ReadGoAway
  <1>2. wire[Peer(e)] # <<>> /\ Arriving(e) \in Frames
    BY <1>1, ArrivingIs
  <1>3. PICK b, s : b = Arriving(e).fatal /\ s = Drained(e, b)
    OBVIOUS
  <1>4. ReaderEnds(e, s)
    BY <1>3 DEF ReadGoAway
  <1>5. b \in BOOLEAN
    BY <1>2, <1>3 DEF Frames
  <1>6. /\ ObjOK' /\ Grown /\ ObjCalm /\ TaskOK' /\ task'[e].accepting = 0
        /\ \A d \in Ends : d # e => task'[d].accepting = task[d].accepting
    <2>1. s = Drained(e, b)
      BY <1>3
    <2>2. /\ s = [n \in DOMAIN obj[e] |-> s[n]]
          /\ \A n \in DOMAIN obj[e] : FlagsOf(s[n], obj[e][n])
      BY <1>5, <2>1, DrainedFlags
    <2> QED
      BY <1>4, <2>2, EndsOK
  <1>7. WireOK' /\ WireCalm /\ HandOK'
    BY <1>1, <1>2, <1>6, ConsumeOK
  <1>8. MgrOK' /\ MgrCalm
    <2>1. mgr[e] \in Managers
      BY At
    <2>2. PICK z, m : /\ z = [i \in Ids |-> 0]
                      /\ m = [mgr[e] EXCEPT !.gone = TRUE, !.streams = z, !.terminated = TRUE]
      OBVIOUS
    <2>3. mgr' = [mgr EXCEPT ![e] = m]
      <3>1. GoneAway(e) = [mgr[e] EXCEPT !.gone = TRUE, !.streams = z]
        BY <2>2 DEF GoneAway
      <3>2. [GoneAway(e) EXCEPT !.terminated = TRUE] = m
        BY <2>1, <2>2, <3>1 DEF Managers
      <3> QED
        BY <1>1, <3>2
    <2>4. z \in [Ids -> Nat] /\ \A i \in Ids : z[i] = 0
      BY <2>2
    <2>5. /\ m \in Managers /\ m.gone /\ m.tasks = mgr[e].tasks /\ m.streams = z
          /\ m.lastLocal = mgr[e].lastLocal
      BY <2>1, <2>2, <2>4 DEF Managers
    <2>6. m.tasks \subseteq mgr[e].tasks /\ \A i \in Ids : m.streams[i] = 0
      BY <2>4, <2>5
    <2> QED
      BY <1>6, <2>3, <2>5, <2>6, GoneOK
  <1>9. SysOK' /\ AppOK' /\ AppCalm /\ AcceptOK' /\ lost' \in BOOLEAN
    BY <1>1, <1>6, RestSame
  <1>10. TypeInv'
    BY <1>6, <1>7, <1>8, <1>9, PartsNext
  <1> QED
    BY <1>6, <1>7, <1>8, <1>9, <1>10 DEF Calm

\* The connection ended, or the reader is cancelled.
LEMMA ReaderStops ==
  ASSUME TypeInv, NEW e \in Ends, ReadEnd(e) \/ CancelReader(e)
  PROVE  TypeInv' /\ Calm
  <1>1. mgr' = mgr /\ sysq' = sysq /\ wire' = wire /\ app' = app /\ acceptq' = acceptq /\ lost' = lost
    BY DEF ReadEnd, CancelReader
  <1>2. PICK s : ReaderEnds(e, s) /\ s = [n \in DOMAIN obj[e] |-> s[n]]
                 /\ \A n \in DOMAIN obj[e] : FlagsOf(s[n], obj[e][n])
    <2>1. CASE ReadEnd(e)
      <3>1. PICK s : s = SendersClosed(e)
        OBVIOUS
      <3>2. ReaderEnds(e, s)
        BY <2>1, <3>1 DEF ReadEnd
      <3> QED
        BY <3>1, <3>2, SendersFlags
    <2>2. CASE CancelReader(e)
      <3>1. PICK x : x = obj[e]
        OBVIOUS
      <3>2. /\ x = [m \in DOMAIN obj[e] |-> x[m]]
            /\ \A m \in DOMAIN obj[e] : FlagsOf(x[m], obj[e][m])
        BY <3>1, At DEF FlagsOf
      <3>3. CASE task[e].accepting = 0
        <4>1. ReaderEnds(e, x)
          BY <2>2, <3>1, <3>3 DEF CancelReader
        <4> QED
          BY <3>2, <4>1
      <3>4. CASE task[e].accepting # 0
        <4>1. PICK n, s : n = task[e].accepting /\ s = [x EXCEPT ![n].app = "dropped"]
          OBVIOUS
        <4>2. n \in DOMAIN obj[e] /\ s = [x EXCEPT ![n].app = "dropped"]
          BY <3>4, <4>1, Parts DEF TaskOK
        <4>3. ReaderEnds(e, s)
          BY <2>2, <3>1, <3>4, <4>1 DEF CancelReader
        <4>4. /\ s = [m \in DOMAIN obj[e] |-> s[m]]
              /\ \A m \in DOMAIN obj[e] : FlagsOf(s[m], obj[e][m])
          BY <3>2, <4>2, DroppedFlags
        <4> QED
          BY <4>3, <4>4
      <3> QED
        BY <3>3, <3>4
    <2> QED
      BY <2>1, <2>2
  <1>3. /\ ObjOK' /\ Grown /\ ObjCalm /\ TaskOK' /\ task'[e].accepting = 0
        /\ \A d \in Ends : d # e => task'[d].accepting = task[d].accepting
    BY <1>2, EndsOK
  <1>4. HandOK'
    <2>1. HandOK
      BY Parts
    <2> QED
      BY <1>1, <1>3, <2>1, HandKept
  <1>5. /\ MgrOK' /\ MgrCalm /\ SysOK' /\ WireOK' /\ WireCalm /\ AppOK' /\ AppCalm /\ AcceptOK'
        /\ lost' \in BOOLEAN
    BY <1>1, <1>3, RestSame
  <1>6. TypeInv'
    BY <1>3, <1>4, <1>5, PartsNext
  <1> QED
    BY <1>3, <1>5, <1>6 DEF Calm

\* Data arrives for a stream that takes it.
LEMMA ReadDataOK ==
  ASSUME TypeInv, NEW e \in Ends, ReadData(e)
  PROVE  LET f == wire[Peer(e)][1]
             n == mgr[e].streams[f.id]
         IN /\ TypeInv' /\ MgrCalm /\ AppCalm /\ WireCalm
            /\ Genuine(Peer(e), f) /\ f.typ = "data" /\ f.id \in Ids
            /\ n # 0 /\ n \in DOMAIN obj[e] /\ ObjBut(e, n)
            /\ obj'[e][n].needsSyn = obj[e][n].needsSyn /\ obj'[e][n].out = obj[e][n].out
            /\ obj'[e][n].from = obj[e][n].from \cup {f.src}
  <1>1. PICK f, n : f = Arriving(e) /\ n = mgr[e].streams[f.id]
    OBVIOUS
  <1>2. /\ Reading(e, "data") /\ Takes(e, n) /\ Consume(e)
        /\ obj' = [obj EXCEPT ![e][n].from = obj[e][n].from \cup {f.src},
                              ![e][n].dataWriteClosed = obj[e][n].dataWriteClosed \/ f.fin]
        /\ mgr' = mgr /\ task' = task /\ sysq' = sysq /\ app' = app /\ acceptq' = acceptq
        /\ lost' = lost
    BY <1>1 DEF ReadData
  <1>3. /\ wire[Peer(e)] # <<>> /\ f \in Frames /\ f.typ = "data" /\ f = wire[Peer(e)][1]
        /\ Genuine(Peer(e), f) /\ f.id \in Ids /\ f.src \in Nat
        /\ n # 0 => n \in DOMAIN obj[e]
        /\ task[e].accepting = 0
    BY <1>1, <1>2, ArrivingIs
  <1>4. n # 0 /\ n \in DOMAIN obj[e]
    BY <1>2, <1>3 DEF Takes
  <1>5. obj \in [Ends -> Seq(Objects)] /\ obj[e] \in Seq(Objects) /\ obj[e][n] \in Objects /\ ObjOK
    BY <1>4, At, Parts DEF ObjOK
  <1>6. PICK F, b : F = obj[e][n].from \cup {f.src} /\ b = (obj[e][n].dataWriteClosed \/ f.fin)
    OBVIOUS
  <1>7. F \in SUBSET Nat /\ b \in BOOLEAN
    BY <1>3, <1>5, <1>6 DEF Objects
  <1>8. PICK p, o, s : /\ p = [obj[e][n] EXCEPT !.from = F]
                       /\ o = [p EXCEPT !.dataWriteClosed = b]
                       /\ s = [obj[e] EXCEPT ![n] = o]
    OBVIOUS
  <1>9. obj' = [obj EXCEPT ![e] = s]
    <2>1. obj' = [obj EXCEPT ![e][n].from = F, ![e][n].dataWriteClosed = b]
      BY <1>2, <1>6
    <2>2. PICK y : y = [obj[e] EXCEPT ![n] = p]
      OBVIOUS
    <2>3. obj' = [obj EXCEPT ![e] = [y EXCEPT ![n].dataWriteClosed = b]]
      BY <1>5, <1>8, <2>1, <2>2
    <2>4. [y EXCEPT ![n].dataWriteClosed = b] = s
      BY <1>4, <1>5, <1>8, <2>2
    <2> QED
      BY <2>3, <2>4
  <1>10. /\ o \in Objects /\ o.id = obj[e][n].id /\ o.local = obj[e][n].local
         /\ o.from = F /\ o.needsSyn = obj[e][n].needsSyn /\ o.out = obj[e][n].out
    BY <1>5, <1>7, <1>8 DEF Objects
  <1>11. OutsOf(o, n)
    BY <1>4, <1>5, <1>10 DEF ObjOK, OutsOf
  <1>12. ObjOK' /\ Grown /\ Became(e, n, o)
    <2>1. o \in Objects /\ o.id = obj[e][n].id
      BY <1>10
    <2>2. s = [obj[e] EXCEPT ![n] = o]
      BY <1>8
    <2> QED
      BY <1>4, <1>9, <1>11, <2>1, <2>2, ObjAt
  <1>13. WireOK' /\ WireCalm /\ HandOK'
    BY <1>2, <1>3, <1>12, ConsumeOK
  <1>14. MgrOK' /\ MgrCalm /\ TaskOK' /\ SysOK' /\ AppOK' /\ AppCalm /\ AcceptOK' /\ lost' \in BOOLEAN
    BY <1>2, <1>12, RestSame
  <1>15. TypeInv'
    BY <1>12, <1>13, <1>14, PartsNext
  <1>16. /\ obj'[e][n].needsSyn = obj[e][n].needsSyn /\ obj'[e][n].out = obj[e][n].out
         /\ obj'[e][n].from = obj[e][n].from \cup {f.src} /\ ObjBut(e, n)
    BY <1>6, <1>10, <1>12 DEF ObjBut, Became
  <1> QED
    BY <1>1, <1>3, <1>4, <1>13, <1>14, <1>15, <1>16

\* A stream is ended, or reset, by a frame.
EndedBy(e, n) == obj' = [obj EXCEPT ![e][n].dataWriteClosed = TRUE]
ResetBy(e, n) ==
  obj' = [obj EXCEPT ![e][n].dataWriteClosed = TRUE,
                     ![e][n].sinkClosed = TRUE, ![e][n].needsFin = FALSE]

\* A reset changes flags of one stream only.
LEMMA ResetFlags ==
  ASSUME TypeInv, NEW e \in Ends, NEW n \in DOMAIN obj[e], ResetBy(e, n)
  PROVE  ObjOK' /\ Grown /\ ObjCalm
  <1>1. obj \in [Ends -> Seq(Objects)] /\ obj[e] \in Seq(Objects) /\ obj[e][n] \in Objects
    BY At DEF TypeInv, TypeOK
  <1>2. PICK p1, p2, o, s : /\ p1 = [obj[e][n] EXCEPT !.dataWriteClosed = TRUE]
                            /\ p2 = [p1 EXCEPT !.sinkClosed = TRUE]
                            /\ o = [p2 EXCEPT !.needsFin = FALSE]
                            /\ s = [obj[e] EXCEPT ![n] = o]
    OBVIOUS
  <1>3. obj' = [obj EXCEPT ![e] = s]
    <2>1. PICK y1, y2 : y1 = [obj[e] EXCEPT ![n] = p1] /\ y2 = [obj[e] EXCEPT ![n] = p2]
      OBVIOUS
    <2>2. obj' = [obj EXCEPT ![e] = [[y1 EXCEPT ![n].sinkClosed = TRUE] EXCEPT ![n].needsFin = FALSE]]
      BY <1>1, <1>2, <2>1 DEF ResetBy
    <2>3. [y1 EXCEPT ![n].sinkClosed = TRUE] = y2
      BY <1>1, <1>2, <2>1
    <2>4. [y2 EXCEPT ![n].needsFin = FALSE] = s
      BY <1>1, <1>2, <2>1
    <2> QED
      BY <2>2, <2>3, <2>4
  <1>4. /\ o \in Objects /\ o.id = obj[e][n].id /\ o.local = obj[e][n].local
        /\ o.from = obj[e][n].from /\ o.needsSyn = obj[e][n].needsSyn /\ o.out = obj[e][n].out
    BY <1>1, <1>2 DEF Objects
  <1>5. s = [obj[e] EXCEPT ![n] = o]
    BY <1>2
  <1> QED
    BY <1>3, <1>4, <1>5, ObjFlag

\* A final frame changes flags of one stream only.
LEMMA ClosedFlags ==
  ASSUME TypeInv, NEW e \in Ends, NEW n \in DOMAIN obj[e], EndedBy(e, n)
  PROVE  ObjOK' /\ Grown /\ ObjCalm
  <1>1. obj \in [Ends -> Seq(Objects)] /\ obj[e] \in Seq(Objects) /\ obj[e][n] \in Objects
    BY At DEF TypeInv, TypeOK
  <1>2. PICK o, s : /\ o = [obj[e][n] EXCEPT !.dataWriteClosed = TRUE]
                    /\ s = [obj[e] EXCEPT ![n] = o]
    OBVIOUS
  <1>3. obj' = [obj EXCEPT ![e] = s]
    BY <1>1, <1>2 DEF EndedBy
  <1>4. /\ o \in Objects /\ o.id = obj[e][n].id /\ o.local = obj[e][n].local
        /\ o.from = obj[e][n].from /\ o.needsSyn = obj[e][n].needsSyn /\ o.out = obj[e][n].out
    BY <1>1, <1>2 DEF Objects
  <1>5. s = [obj[e] EXCEPT ![n] = o]
    BY <1>2
  <1> QED
    BY <1>3, <1>4, <1>5, ObjFlag

\* Frames nobody takes, and those that reset a stream.
LEMMA FrameOK ==
  ASSUME TypeInv, NEW e \in Ends, IgnoreFin(e) \/ RefuseData(e) \/ ReadRst(e)
  PROVE  TypeInv' /\ Calm
  <1>1. PICK f, n : f = Arriving(e) /\ n = mgr[e].streams[f.id]
    OBVIOUS
  <1>2. /\ Consume(e) /\ mgr' = mgr /\ task' = task /\ app' = app /\ acceptq' = acceptq
        /\ lost' = lost
    BY DEF IgnoreFin, RefuseData, ReadRst
  <1>3. Reading(e, "data") \/ Reading(e, "rst")
    BY DEF IgnoreFin, RefuseData, ReadRst
  <1>4. /\ wire[Peer(e)] # <<>> /\ f.id \in Ids /\ task[e].accepting = 0
        /\ n # 0 => n \in DOMAIN obj[e]
    BY <1>1, <1>3, ArrivingIs
  <1>5. ObjOK' /\ Grown /\ ObjCalm
    <2>1. CASE n = 0
      <3>1. obj' = obj
        BY <1>1, <2>1 DEF IgnoreFin, RefuseData, ReadRst
      <3> QED
        BY <3>1, Parts, ObjSame, CalmSame
    <2>2. CASE n # 0 /\ IgnoreFin(e)
      <3>1. EndedBy(e, n)
        BY <1>1, <2>2 DEF IgnoreFin, EndedBy
      <3> QED
        BY <1>4, <2>2, <3>1, ClosedFlags
    <2>3. CASE n # 0 /\ (RefuseData(e) \/ ReadRst(e))
      <3>1. ResetBy(e, n)
        BY <1>1, <2>3 DEF RefuseData, ReadRst, ResetBy
      <3> QED
        BY <1>4, <2>3, <3>1, ResetFlags
    <2> QED
      BY <2>1, <2>2, <2>3
  <1>6. WireOK' /\ WireCalm /\ HandOK'
    BY <1>2, <1>4, <1>5, ConsumeOK
  <1>7. MgrOK' /\ MgrCalm /\ TaskOK' /\ AppOK' /\ AppCalm /\ AcceptOK' /\ lost' \in BOOLEAN
    BY <1>2, <1>5, RestSame
  <1>8. SysOK'
    <2>1. CASE sysq' = sysq
      BY <1>5, <2>1, RestSame
    <2>2. CASE RefuseData(e)
      <3>1. PICK g : g = Rst(f.id)
        OBVIOUS
      <3>2. Len(sysq[e]) <= SysCap /\ sysq' = [sysq EXCEPT ![e] = Append(@, g)]
        BY <1>1, <2>2, <3>1 DEF RefuseData
      <3>3. g \in Frames /\ g.typ = "rst" /\ g.id = f.id /\ ~g.syn
        BY <1>4, <3>1, FrameTypes, IdsNat
      <3>4. Genuine(e, g) /\ g.typ # "data"
        BY <1>4, <3>3 DEF Genuine
      <3> QED
        BY <1>5, <3>2, <3>3, <3>4, SysMore
    <2> QED
      BY <2>1, <2>2 DEF IgnoreFin, ReadRst
  <1>9. TypeInv'
    BY <1>5, <1>6, <1>7, <1>8, PartsNext
  <1> QED
    BY <1>5, <1>6, <1>7, <1>9 DEF Calm

\* A frame of an unknown type arrives.
LEMMA ReadInvalidOK ==
  ASSUME TypeInv, NEW e \in Ends, ReadInvalid(e)
  PROVE  TypeInv' /\ Calm
  <1>1. /\ Reading(e, "invalid") /\ Consume(e) /\ obj' = obj /\ mgr' = mgr /\ task' = task
        /\ app' = app /\ acceptq' = acceptq /\ lost' = lost
        /\ Len(sysq[e]) <= SysCap /\ sysq' = [sysq EXCEPT ![e] = Append(@, GoAway(TRUE, TRUE))]
    BY DEF ReadInvalid
  <1>2. wire[Peer(e)] # <<>> /\ task[e].accepting = 0
    BY <1>1, ArrivingIs
  <1>3. ObjOK' /\ Grown /\ ObjCalm
    BY <1>1, Parts, ObjSame, CalmSame
  <1>4. SysOK'
    <2>1. PICK g : g = GoAway(TRUE, TRUE)
      OBVIOUS
    <2>2. g \in Frames /\ g.typ = "goaway" /\ ~g.syn
      BY <2>1, FrameTypes
    <2>3. Genuine(e, g) /\ g.typ # "data"
      BY <2>2 DEF Genuine
    <2> QED
      BY <1>1, <1>3, <2>1, <2>2, <2>3, SysMore
  <1>5. WireOK' /\ WireCalm /\ HandOK'
    BY <1>1, <1>2, <1>3, ConsumeOK
  <1>6. MgrOK' /\ MgrCalm /\ TaskOK' /\ AppOK' /\ AppCalm /\ AcceptOK' /\ lost' \in BOOLEAN
    BY <1>1, <1>3, RestSame
  <1>7. TypeInv'
    BY <1>3, <1>4, <1>5, <1>6, PartsNext
  <1> QED
    BY <1>3, <1>5, <1>6, <1>7 DEF Calm
----------------------------------------------------------------------------
(* Steps of the connection.                                                *)

\* The connection is lost.
LEMMA LoseOK ==
  ASSUME TypeInv, Lose
  PROVE  TypeInv' /\ Calm
  <1>1. /\ obj' = obj /\ mgr' = mgr /\ task' = task /\ sysq' = sysq /\ app' = app
        /\ acceptq' = acceptq /\ lost' = TRUE
        /\ wire' = [e \in Ends |->
                      IF task[Peer(e)].accepting = 0 THEN <<>> ELSE <<Head(wire[e])>>]
    BY DEF Lose
  <1>2. ObjOK' /\ Grown /\ ObjCalm
    BY <1>1, Parts, ObjSame, CalmSame
  <1>3. WireOK /\ HandOK
    BY Parts
  <1>4. ASSUME NEW e \in Ends
        PROVE  /\ wire'[e] \in Seq(Frames)
               /\ \A i \in DOMAIN wire'[e] : i = 1 /\ 1 \in DOMAIN wire[e] /\ wire'[e][i] = wire[e][1]
               /\ task[Peer(e)].accepting # 0 => wire'[e] # <<>>
    <2>1. wire[e] \in Seq(Frames) /\ Peer(e) \in Ends /\ Peer(Peer(e)) = e
      BY At, TwoEnds
    <2>2. CASE task[Peer(e)].accepting = 0
      <3>1. wire'[e] = <<>>
        BY <1>1, <2>2
      <3> QED
        BY <2>2, <3>1
    <2>3. CASE task[Peer(e)].accepting # 0
      <3>1. wire[e] # <<>>
        BY <1>3, <2>1, <2>3 DEF HandOK
      <3>2. wire'[e] = <<Head(wire[e])>>
        BY <1>1, <2>3
      <3>3. Head(wire[e]) \in Frames /\ 1 \in DOMAIN wire[e] /\ Head(wire[e]) = wire[e][1]
        BY <2>1, <3>1
      <3> QED
        BY <3>2, <3>3
    <2> QED
      BY <2>2, <2>3
  <1>5. WireOK'
    <2>1. wire' \in [Ends -> Seq(Frames)]
      BY <1>1, <1>4
    <2>2. ASSUME NEW d \in Ends, NEW i \in DOMAIN wire'[d] PROVE Genuine(d, wire[d][i])'
      <3>1. Genuine(d, wire'[d][i])
        BY <1>3, <1>4, <2>2 DEF WireOK
      <3>2. PICK x : x = wire'[d][i]
        OBVIOUS
      <3>3. Genuine(d, x)'
        BY <1>2, <3>1, <3>2, GenuineKept
      <3> QED
        BY <3>2, <3>3 DEF Genuine
    <2> QED
      BY <2>1, <2>2 DEF WireOK
  <1>6. WireCalm
    BY <1>4 DEF WireCalm, Once, Carried
  <1>7. HandOK'
    <2> SUFFICES ASSUME NEW e \in Ends, task'[e].accepting # 0
                 PROVE  wire'[Peer(e)] # <<>>
      BY DEF HandOK
    <2>1. Peer(e) \in Ends /\ Peer(Peer(e)) = e /\ task[e].accepting # 0
      BY <1>1, TwoEnds
    <2> QED
      BY <1>4, <2>1
  <1>8. MgrOK' /\ MgrCalm /\ TaskOK' /\ SysOK' /\ AppOK' /\ AppCalm /\ AcceptOK'
    BY <1>1, <1>2, RestSame
  <1>9. TypeInv'
    <2>1. lost' \in BOOLEAN
      BY <1>1
    <2> QED
      BY <1>2, <1>5, <1>7, <1>8, <2>1, PartsNext
  <1> QED
    BY <1>2, <1>6, <1>8, <1>9 DEF Calm

\* The peer sends a frame of an unknown type.
LEMMA SendUnknownOK ==
  ASSUME TypeInv, NEW e \in Ends, SendUnknown(e)
  PROVE  TypeInv' /\ Calm
  <1>1. /\ obj' = obj /\ mgr' = mgr /\ task' = task /\ sysq' = sysq /\ app' = app
        /\ acceptq' = acceptq /\ lost' = lost
        /\ wire[e] = <<>> /\ wire' = [wire EXCEPT ![e] = <<Invalid>>]
    BY DEF SendUnknown
  <1>2. ObjOK' /\ Grown /\ ObjCalm
    BY <1>1, Parts, ObjSame, CalmSame
  <1>3. PICK f : f = Invalid
    OBVIOUS
  <1>4. f \in Frames /\ f.typ = "invalid" /\ ~f.syn
    BY <1>3, FrameTypes
  <1>5. Genuine(e, f)
    BY <1>4 DEF Genuine
  <1>6. wire' = [wire EXCEPT ![e] = Append(@, f)]
    <2>1. wire \in [Ends -> Seq(Frames)]
      BY DEF TypeInv, TypeOK
    <2>2. Append(wire[e], f) = <<f>>
      BY <1>1
    <2> QED
      BY <1>1, <1>3, <2>1, <2>2
  <1>7. WireOK' /\ WireCalm /\ (\A d \in Ends : wire[d] # <<>> => wire'[d] # <<>>)
    BY <1>2, <1>4, <1>5, <1>6, WireMore
  <1>8. HandOK'
    BY <1>1, <1>7, Parts, HandKept
  <1>9. MgrOK' /\ MgrCalm /\ TaskOK' /\ SysOK' /\ AppOK' /\ AppCalm /\ AcceptOK' /\ lost' \in BOOLEAN
    BY <1>1, <1>2, RestSame
  <1>10. TypeInv'
    BY <1>2, <1>7, <1>8, <1>9, PartsNext
  <1> QED
    BY <1>2, <1>7, <1>9, <1>10 DEF Calm
----------------------------------------------------------------------------
(* The types.                                                              *)

\* The first state has its types.
LEMMA InitType == Init => TypeInv
  <1> SUFFICES ASSUME Init PROVE TypeInv
    OBVIOUS
  <1>1. PICK c, z : c = <<>> /\ z = [i \in Ids |-> 0]
    OBVIOUS
  <1>2. /\ obj = [e \in Ends |-> c] /\ sysq = [e \in Ends |-> c] /\ wire = [e \in Ends |-> c]
        /\ acceptq = [e \in Ends |-> c] /\ lost = FALSE
        /\ task = [e \in Ends |-> [reader |-> "run", accepting |-> 0, writer |-> "run"]]
        /\ app = [e \in Ends |-> [held |-> TRUE, closed |-> FALSE, asked |-> 0, pending |-> c]]
    BY <1>1 DEF Init
  <1>3. /\ c \in Seq(Objects) /\ c \in Seq(Frames) /\ c \in Seq(Nat) /\ c \in Seq(BOOLEAN)
        /\ Len(c) = 0 /\ DOMAIN c = {}
    BY <1>1
  <1>4. SysCap \in Nat /\ AcceptCap \in Nat /\ \A e \in Ends : Limit[e] \in Nat
    BY SessionAssumption
  <1>5. ObjOK
    BY <1>2, <1>3 DEF ObjOK
  <1>6. TaskOK /\ AppOK
    BY <1>2, <1>3 DEF TaskOK, Tasks, AppOK, Apps
  <1>7. SysOK /\ WireOK /\ AcceptOK
    BY <1>2, <1>3, <1>4 DEF SysOK, WireOK, AcceptOK
  <1>8. HandOK
    BY <1>2 DEF HandOK
  <1>9. ASSUME NEW e \in Ends
        PROVE  /\ mgr[e] \in Managers /\ mgr[e].streams = z /\ mgr[e].tasks = {}
    <2>1. PICK k, l : /\ k = (IF e = "client" THEN 1 ELSE 0) /\ l = (IF e = "client" THEN 0 ELSE 1)
                      /\ k \in {0, 1} /\ l \in {0, 1}
      OBVIOUS
    <2>2. mgr[e] = [streams |-> z, tasks |-> {}, lastLocal |-> k, lastRemote |-> l,
                    gone |-> FALSE, terminated |-> FALSE]
      BY <1>1, <2>1 DEF Init
    <2>3. z \in [Ids -> Nat] /\ {} \in SUBSET Nat /\ k \in 0..MaxId /\ l \in 0..MaxId
      BY <1>1, <2>1, SessionAssumption
    <2> QED
      BY <2>2, <2>3 DEF Managers
  <1>10. MgrOK
    <2>1. mgr \in [Ends -> Managers]
      <3>1. mgr = [e \in Ends |-> mgr[e]]
        BY DEF Init
      <3> QED
        BY <1>9, <3>1
    <2>2. ASSUME NEW e \in Ends PROVE Open(e) <= Limit[e]
      <3>1. {i \in Ids : mgr[e].streams[i] # 0} = {}
        BY <1>1, <1>9
      <3>2. Open(e) = 0
        BY <3>1, FS_EmptySet DEF Open
      <3> QED
        BY <1>4, <3>2
    <2>3. \A e \in Ends : \A i \in Ids : mgr[e].streams[i] = 0
      BY <1>1, <1>9
    <2> QED
      BY <1>9, <2>1, <2>2, <2>3 DEF MgrOK
  <1> QED
    BY <1>2, <1>5, <1>6, <1>7, <1>8, <1>10, Parts

\* A step that makes no stream, sends no SYN and hands nothing to a stream, or not.
LEMMA StepType ==
  ASSUME TypeInv, Next
  PROVE  TypeInv' /\ (Calm \/ \E e \in Ends : \/ AnswerOpen(e) \/ ReadSyn(e) \/ ReadData(e)
                                             \/ \E n \in DOMAIN obj[e] : Write(e, n) \/ TakeFrame(e, n))
  <1>1. CASE Network
    BY <1>1, LoseOK, SendUnknownOK DEF Network
  <1>2. ASSUME NEW e \in Ends, AppStep(e) \/ Accept(e)
        PROVE  TypeInv' /\ (Calm \/ \E n \in DOMAIN obj[e] : Write(e, n))
    <2>1. CASE CallOpen(e) \/ CancelOpen(e)
      BY <2>1, OpenCalls
    <2>2. CASE Close(e)
      BY <2>2, CloseCall
    <2>3. CASE DropSession(e)
      BY <2>3, DropCall
    <2>4. CASE Accept(e) \/ \E n \in DOMAIN obj[e] : DropStream(e, n)
      BY <2>4, StreamCalls
    <2>5. CASE \E n \in DOMAIN obj[e] : Write(e, n)
      BY <2>5, WriteOK
    <2> QED
      BY <1>2, <2>1, <2>2, <2>3, <2>4, <2>5 DEF AppStep
  <1>3. ASSUME NEW e \in Ends, WriterTask(e)
        PROVE  TypeInv' /\ (Calm \/ AnswerOpen(e) \/ \E n \in DOMAIN obj[e] : TakeFrame(e, n))
    <2>1. CASE TakeSys(e)
      BY <2>1, TakeSysOK
    <2>2. CASE AnswerOpen(e)
      BY <2>2, AnswerOK
    <2>3. CASE WriterCompletes(e) \/ CancelWriter(e)
      BY <2>3, WriterStops
    <2>4. CASE \E n \in DOMAIN obj[e] : TakeReset(e, n)
      BY <2>4, TakeResetOK
    <2>5. CASE \E n \in DOMAIN obj[e] : TakeFrame(e, n)
      BY <2>5, TakeFrameOK
    <2>6. CASE \E n \in DOMAIN obj[e] : TakeEnd(e, n)
      BY <2>6, TakeEndOK
    <2> QED
      BY <1>3, <2>1, <2>2, <2>3, <2>4, <2>5, <2>6 DEF WriterTask
  <1>4. ASSUME NEW e \in Ends, ReaderTask(e)
        PROVE  TypeInv' /\ (Calm \/ ReadSyn(e) \/ ReadData(e))
    <2>1. CASE ReadSyn(e)
      BY <2>1, ReadSynOK
    <2>2. CASE ReadSynAtLimit(e)
      BY <2>2, SynAtLimitOK
    <2>3. CASE QueueAccept(e)
      BY <2>3, QueueOK
    <2>4. CASE ReadData(e)
      BY <2>4, ReadDataOK
    <2>5. CASE IgnoreFin(e) \/ RefuseData(e) \/ ReadRst(e)
      BY <2>5, FrameOK
    <2>6. CASE ReadGoAway(e)
      BY <2>6, ReadGoAwayOK
    <2>7. CASE ReadInvalid(e)
      BY <2>7, ReadInvalidOK
    <2>8. CASE ReadEnd(e) \/ CancelReader(e)
      BY <2>8, ReaderStops
    <2> QED
      BY <1>4, <2>1, <2>2, <2>3, <2>4, <2>5, <2>6, <2>7, <2>8 DEF ReaderTask
  <1> QED
    BY <1>1, <1>2, <1>3, <1>4 DEF Next

\* Every step keeps the types.
LEMMA NextType == TypeInv /\ [Next]_vars => TypeInv'
  <1>1. CASE TypeInv /\ Next
    BY <1>1, StepType
  <1>2. CASE TypeInv /\ UNCHANGED vars
    <2>1. /\ obj' = obj /\ mgr' = mgr /\ task' = task /\ sysq' = sysq /\ wire' = wire /\ app' = app
          /\ acceptq' = acceptq /\ lost' = lost
      BY <1>2 DEF vars
    <2>2. ObjOK' /\ Grown
      BY <1>2, <2>1, Parts, ObjSame
    <2>3. /\ MgrOK' /\ TaskOK' /\ SysOK' /\ WireOK' /\ HandOK' /\ AppOK' /\ AcceptOK'
          /\ lost' \in BOOLEAN
      BY <1>2, <2>1, <2>2, RestSame
    <2> QED
      BY <2>2, <2>3, PartsNext
  <1> QED
    BY <1>1, <1>2

(***************************************************************************)
(* However the session and its streams are used, reset, closed and lost,   *)
(* the queues stay within their capacities, the map of handles within the  *)
(* stream limit, and every handle and every task is that of a stream that  *)
(* was made.                                                               *)
(***************************************************************************)
THEOREM Typed == Spec => []TypeOK
  <1>1. TypeInv => TypeOK
    BY DEF TypeInv
  <1> QED
    BY <1>1, InitType, NextType, PTL DEF Spec
----------------------------------------------------------------------------
(* What the ids keep apart.                                                *)

\* The streams are those there were.
ObjIds ==
  \A e \in Ends :
    /\ DOMAIN obj'[e] = DOMAIN obj[e]
    /\ \A n \in DOMAIN obj[e] : /\ obj'[e][n].id = obj[e][n].id
                                /\ obj'[e][n].local = obj[e][n].local

\* A change of one stream that keeps its id.
LEMMA SameIds ==
  ASSUME NEW e \in Ends, NEW n \in DOMAIN obj[e], ObjBut(e, n)
  PROVE  ObjIds
  BY DEF ObjIds, ObjBut

\* The numbers of one end.
LEMMA Numbers ==
  ASSUME TypeInv, NEW e \in Ends
  PROVE  /\ mgr[e].lastLocal \in Nat /\ app[e].asked \in Nat /\ Len(app[e].pending) \in Nat
         /\ MaxOpens[e] \in Nat /\ MaxId \in Nat
         /\ \A n \in DOMAIN obj[e] : obj[e][n].id \in Nat /\ obj[e][n].local \in BOOLEAN
  <1>1. app[e].asked \in Nat /\ Len(app[e].pending) \in Nat
    BY At DEF Apps
  <1>2. mgr[e].lastLocal \in Nat
    BY At, SessionAssumption DEF Managers
  <1>3. MaxOpens[e] \in Nat /\ MaxId \in Nat
    BY SessionAssumption
  <1>4. \A n \in DOMAIN obj[e] : obj[e][n].id \in Nat /\ obj[e][n].local \in BOOLEAN
    BY At, IdsNat DEF Objects
  <1> QED
    BY <1>1, <1>2, <1>3, <1>4

NumOK ==
  \A e \in Ends :
    /\ mgr[e].lastLocal \in Nat /\ app[e].asked \in Nat /\ Len(app[e].pending) \in Nat
    /\ \A n \in DOMAIN obj[e] : obj[e][n].id \in Nat /\ obj[e][n].local \in BOOLEAN

\* Ids and counts are numbers.
LEMMA NumbersAll == TypeInv => NumOK
  BY Numbers DEF NumOK

\* So they are after a step that keeps the types.
LEMMA NumbersNext ==
  ASSUME TypeInv', NEW e \in Ends
  PROVE  /\ mgr'[e].lastLocal \in Nat /\ app'[e].asked \in Nat /\ Len(app'[e].pending) \in Nat
         /\ \A n \in DOMAIN obj'[e] : obj'[e][n].id \in Nat /\ obj'[e][n].local \in BOOLEAN
  <1>1. NumOK'
    BY NumbersAll, PTL
  <1> QED
    BY <1>1 DEF NumOK

\* What is asked for and not answered.
LEMMA Balance ==
  ASSUME NEW a \in Nat, NEW b \in Nat, NEW p \in Nat, NEW q \in Nat, NEW l \in Nat, NEW c \in Nat,
         l + 2 * p <= c + 2 * a, q + a <= p + b
  PROVE  l + 2 * q <= c + 2 * b
  OBVIOUS

\* A step that makes no stream keeps the account of ids.
LEMMA QuietIds ==
  ASSUME TypeInv, TypeInv', IdInv, ObjIds, MgrCalm, AppCalm
  PROVE  IdInv'
  <1> SUFFICES ASSUME NEW e \in Ends
               PROVE  /\ app'[e].asked <= MaxOpens[e]
                      /\ mgr'[e].lastLocal + 2 * Len(app'[e].pending) <= Base(e) + 2 * app'[e].asked
                      /\ mgr'[e].lastLocal % 2 = Base(e)
                      /\ \A n \in DOMAIN obj'[e] :
                           LET opener == IF obj'[e][n].local THEN e ELSE Peer(e)
                           IN obj'[e][n].id % 2 = Base(opener)
                              /\ obj'[e][n].id <= mgr'[opener].lastLocal
                      /\ \A n, m \in DOMAIN obj'[e] : obj'[e][n].id = obj'[e][m].id => n = m
    BY DEF IdInv, Base, Peer
  <1>1. /\ app[e].asked <= MaxOpens[e]
        /\ mgr[e].lastLocal + 2 * Len(app[e].pending) <= Base(e) + 2 * app[e].asked
        /\ mgr[e].lastLocal % 2 = Base(e)
        /\ \A n, m \in DOMAIN obj[e] : obj[e][n].id = obj[e][m].id => n = m
    BY DEF IdInv
  <1>2. /\ app'[e].asked = app[e].asked \/ app'[e].asked <= MaxOpens[e]
        /\ Len(app'[e].pending) + app[e].asked <= Len(app[e].pending) + app'[e].asked
    BY DEF AppCalm
  <1>3. \A d \in Ends : mgr'[d].lastLocal = mgr[d].lastLocal
    BY DEF MgrCalm
  <1>4. /\ app[e].asked \in Nat /\ Len(app[e].pending) \in Nat /\ mgr[e].lastLocal \in Nat
        /\ app'[e].asked \in Nat /\ Len(app'[e].pending) \in Nat /\ Base(e) \in Nat
    BY Numbers, NumbersNext DEF Base
  <1>5. mgr[e].lastLocal + 2 * Len(app'[e].pending) <= Base(e) + 2 * app'[e].asked
    <2>1. PICK a, b, p, q, l, c : /\ a = app[e].asked /\ b = app'[e].asked
                                  /\ p = Len(app[e].pending) /\ q = Len(app'[e].pending)
                                  /\ l = mgr[e].lastLocal /\ c = Base(e)
      OBVIOUS
    <2>2. /\ a \in Nat /\ b \in Nat /\ p \in Nat /\ q \in Nat /\ l \in Nat /\ c \in Nat
          /\ l + 2 * p <= c + 2 * a /\ q + a <= p + b
      BY <1>1, <1>2, <1>4, <2>1
    <2>3. l + 2 * q <= c + 2 * b
      BY <2>2, Balance
    <2> QED
      BY <2>1, <2>3
  <1>6. app'[e].asked <= MaxOpens[e]
    BY <1>1, <1>2
  <1>7. DOMAIN obj'[e] = DOMAIN obj[e] /\ \A n \in DOMAIN obj[e] :
          obj'[e][n].id = obj[e][n].id /\ obj'[e][n].local = obj[e][n].local
    BY DEF ObjIds
  <1>8. ASSUME NEW n \in DOMAIN obj[e], NEW o \in Ends, o = IF obj[e][n].local THEN e ELSE Peer(e)
        PROVE  obj'[e][n].id % 2 = Base(o) /\ obj'[e][n].id <= mgr'[o].lastLocal
    BY <1>3, <1>7, <1>8 DEF IdInv
  <1>9. \A n \in DOMAIN obj'[e] :
          LET opener == IF obj'[e][n].local THEN e ELSE Peer(e)
          IN obj'[e][n].id % 2 = Base(opener) /\ obj'[e][n].id <= mgr'[opener].lastLocal
    BY <1>7, <1>8, TwoEnds
  <1> QED
    BY <1>1, <1>3, <1>5, <1>6, <1>7, <1>9

\* A step that leaves the map alone keeps the handles.
LEMMA QuietHandles ==
  ASSUME TypeInv, IdInv, HandleInv, ObjIds, MgrCalm
  PROVE  HandleInv'
  <1> SUFFICES ASSUME NEW e \in Ends
               PROVE  /\ \A i \in Ids : mgr'[e].streams[i] # 0 => obj'[e][mgr'[e].streams[i]].id = i
                      /\ ~mgr'[e].gone => \A n \in mgr'[e].tasks : mgr'[e].streams[obj'[e][n].id] = n
    BY DEF HandleInv
  <1>1. /\ \A i \in Ids : mgr[e].streams[i] # 0 => mgr[e].streams[i] \in DOMAIN obj[e]
        /\ mgr[e].tasks \subseteq DOMAIN obj[e]
        /\ \A n \in DOMAIN obj[e] : obj[e][n].id \in Ids
    BY Parts, At DEF MgrOK, Objects
  <1>2. DOMAIN obj'[e] = DOMAIN obj[e] /\ \A n \in DOMAIN obj[e] : obj'[e][n].id = obj[e][n].id
    BY DEF ObjIds
  <1>3. ASSUME NEW i \in Ids, mgr'[e].streams[i] # 0 PROVE obj'[e][mgr'[e].streams[i]].id = i
    <2>1. mgr'[e].streams[i] = mgr[e].streams[i]
      BY <1>3 DEF MgrCalm
    <2>2. mgr[e].streams[i] \in DOMAIN obj[e] /\ obj[e][mgr[e].streams[i]].id = i
      BY <1>1, <1>3, <2>1 DEF HandleInv
    <2> QED
      BY <1>2, <2>1, <2>2
  <1>4. ASSUME ~mgr'[e].gone, NEW n \in mgr'[e].tasks PROVE mgr'[e].streams[obj'[e][n].id] = n
    <2>1. CASE mgr'[e] = mgr[e]
      BY <1>1, <1>2, <1>4, <2>1 DEF HandleInv
    <2>2. CASE mgr'[e] # mgr[e]
      <3>1. PICK k \in DOMAIN obj[e] :
              /\ mgr'[e].gone = mgr[e].gone /\ mgr'[e].tasks = mgr[e].tasks \ {k}
              /\ \A i \in Ids : i # obj[e][k].id => mgr'[e].streams[i] = mgr[e].streams[i]
        BY <1>4, <2>2 DEF MgrCalm
      <3>2. n \in mgr[e].tasks /\ n # k /\ n \in DOMAIN obj[e] /\ ~mgr[e].gone
        BY <1>1, <1>4, <3>1
      <3>3. obj[e][n].id # obj[e][k].id
        BY <3>2 DEF IdInv
      <3>4. mgr[e].streams[obj[e][n].id] = n
        BY <3>2 DEF HandleInv
      <3> QED
        BY <1>1, <1>2, <3>1, <3>2, <3>3, <3>4
    <2> QED
      BY <2>1, <2>2
  <1> QED
    BY <1>3, <1>4

\* A step that delivers nothing keeps who was heard.
LEMMA QuietFrom ==
  ASSUME FromInv, ObjIds, \A e \in Ends : \A n \in DOMAIN obj[e] : obj'[e][n].from = obj[e][n].from
  PROVE  FromInv'
  <1> SUFFICES ASSUME NEW e \in Ends, NEW n \in DOMAIN obj'[e], NEW m \in obj'[e][n].from
               PROVE  m \in DOMAIN obj'[Peer(e)] /\ obj'[Peer(e)][m].id = obj'[e][n].id
    BY DEF FromInv, Peer
  <1>1. n \in DOMAIN obj[e] /\ m \in obj[e][n].from /\ Peer(e) \in Ends
    BY TwoEnds DEF ObjIds
  <1>2. m \in DOMAIN obj[Peer(e)] /\ obj[Peer(e)][m].id = obj[e][n].id
    BY <1>1 DEF FromInv
  <1> QED
    BY <1>1, <1>2 DEF ObjIds

\* A stream of the peer with the id of n is there after the step if it was before.
LEMMA SameArrived ==
  ASSUME ObjIds, NEW e \in Ends, NEW n \in DOMAIN obj[e]
  PROVE  Arrived(e, n)' <=> Arrived(e, n)
  <1>1. PICK p \in Ends : p = Peer(e)
    BY TwoEnds
  <1>2. Arrived(e, n)' <=> \E m \in DOMAIN obj'[p] : obj'[p][m].id = obj'[e][n].id
    BY <1>1 DEF Arrived, Peer
  <1> QED
    BY <1>1, <1>2 DEF Arrived, ObjIds

\* A step that sends and reads no first frame keeps them.
LEMMA QuietSyn ==
  ASSUME SynInv, ObjCalm, WireCalm, ObjIds
  PROVE  SynInv'
  <1> SUFFICES ASSUME NEW e \in Ends
               PROVE  /\ Once(wire'[e])
                      /\ \A n \in DOMAIN obj'[e] :
                           /\ obj'[e][n].needsSyn => obj'[e][n].out = <<>>
                           /\ \A i \in DOMAIN obj'[e][n].out : obj'[e][n].out[i].syn => i = 1
                           /\ Unsent(e, n)' \/ Carried(e, n)' => obj'[e][n].local /\ ~Arrived(e, n)'
                           /\ ~(Unsent(e, n)' /\ Carried(e, n)')
    BY DEF SynInv, Once
  <1>1. Once(wire'[e])
    BY DEF SynInv, WireCalm
  <1>2. ASSUME NEW n \in DOMAIN obj'[e]
        PROVE  /\ obj'[e][n].needsSyn => obj'[e][n].out = <<>>
               /\ \A i \in DOMAIN obj'[e][n].out : obj'[e][n].out[i].syn => i = 1
               /\ Unsent(e, n)' \/ Carried(e, n)' => obj'[e][n].local /\ ~Arrived(e, n)'
               /\ ~(Unsent(e, n)' /\ Carried(e, n)')
    <2>1. n \in DOMAIN obj[e] /\ obj'[e][n].local = obj[e][n].local
          /\ obj'[e][n].needsSyn = obj[e][n].needsSyn
          /\ (obj'[e][n].out = obj[e][n].out \/ obj'[e][n].out = <<>>)
      BY <1>2 DEF ObjCalm
    <2>2. /\ obj[e][n].needsSyn => obj[e][n].out = <<>>
          /\ \A i \in DOMAIN obj[e][n].out : obj[e][n].out[i].syn => i = 1
          /\ Unsent(e, n) \/ Carried(e, n) => obj[e][n].local /\ ~Arrived(e, n)
          /\ ~(Unsent(e, n) /\ Carried(e, n))
      BY <2>1 DEF SynInv
    <2>3. Carried(e, n)' => Carried(e, n)
      BY <2>1 DEF WireCalm
    <2>4. Arrived(e, n)' <=> Arrived(e, n)
      BY <2>1, SameArrived
    <2>5. Unsent(e, n)' => Unsent(e, n)
      BY <2>1 DEF Unsent
    <2>6. \A i \in DOMAIN obj'[e][n].out : obj'[e][n].out[i].syn => i = 1
      BY <2>1, <2>2
    <2> QED
      BY <2>1, <2>2, <2>3, <2>4, <2>5, <2>6
  <1> QED
    BY <1>1, <1>2

\* A calm step keeps streams apart.
LEMMA QuietApart ==
  ASSUME TypeInv, TypeInv', ApartInv, Calm
  PROVE  ApartInv'
  <1>1. ObjIds /\ \A e \in Ends : \A n \in DOMAIN obj[e] : obj'[e][n].from = obj[e][n].from
    BY DEF Calm, ObjCalm, ObjIds
  <1> QED
    BY <1>1, QuietIds, QuietHandles, QuietFrom, QuietSyn DEF ApartInv, Calm

\* Only the stream n of e has other frames to send, or another SYN on the connection.
LEMMA SynBut ==
  ASSUME SynInv, NEW e \in Ends, NEW n \in DOMAIN obj[e], ObjBut(e, n),
         obj'[e][n].needsSyn => obj'[e][n].out = <<>>,
         \A i \in DOMAIN obj'[e][n].out : obj'[e][n].out[i].syn => i = 1,
         Unsent(e, n)' \/ Carried(e, n)' => Unsent(e, n) \/ Carried(e, n),
         ~(Unsent(e, n)' /\ Carried(e, n)'),
         \A d \in Ends : Once(wire'[d]),
         \A d \in Ends : \A m \in DOMAIN obj[d] :
           d # e \/ m # n => (Carried(d, m)' => Carried(d, m))
  PROVE  SynInv'
  <1>1. ObjIds
    BY SameIds
  <1> SUFFICES ASSUME NEW d \in Ends, NEW m \in DOMAIN obj'[d]
               PROVE  /\ obj'[d][m].needsSyn => obj'[d][m].out = <<>>
                      /\ \A i \in DOMAIN obj'[d][m].out : obj'[d][m].out[i].syn => i = 1
                      /\ Unsent(d, m)' \/ Carried(d, m)' => obj'[d][m].local /\ ~Arrived(d, m)'
                      /\ ~(Unsent(d, m)' /\ Carried(d, m)')
    BY DEF SynInv, Once
  <1>2. m \in DOMAIN obj[d] /\ obj'[d][m].local = obj[d][m].local
    BY <1>1 DEF ObjIds
  <1>3. /\ obj[d][m].needsSyn => obj[d][m].out = <<>>
        /\ \A i \in DOMAIN obj[d][m].out : obj[d][m].out[i].syn => i = 1
        /\ Unsent(d, m) \/ Carried(d, m) => obj[d][m].local /\ ~Arrived(d, m)
        /\ ~(Unsent(d, m) /\ Carried(d, m))
    BY <1>2 DEF SynInv
  <1>4. Arrived(d, m)' <=> Arrived(d, m)
    BY <1>1, <1>2, SameArrived
  <1>5. CASE d = e /\ m = n
    BY <1>2, <1>3, <1>4, <1>5
  <1>6. CASE d # e \/ m # n
    <2>1. obj'[d][m] = obj[d][m]
      BY <1>2, <1>6 DEF ObjBut
    <2>2. Unsent(d, m)' <=> Unsent(d, m)
      BY <2>1 DEF Unsent
    <2>3. Carried(d, m)' => Carried(d, m)
      BY <1>2, <1>6
    <2> QED
      BY <1>2, <1>3, <1>4, <2>1, <2>2, <2>3
  <1> QED
    BY <1>5, <1>6

\* The first frame of a stream is its SYN.
LEMMA WriteApart ==
  ASSUME TypeInv, ApartInv, NEW e \in Ends, NEW n \in DOMAIN obj[e], Write(e, n)
  PROVE  ApartInv'
  <1>1. /\ TypeInv' /\ MgrCalm /\ AppCalm /\ WireCalm /\ ObjBut(e, n)
        /\ ~obj'[e][n].needsSyn /\ obj'[e][n].from = obj[e][n].from
    BY WriteOK
  <1>2. PICK f \in Frames : obj'[e][n].out = Append(obj[e][n].out, f) /\ f.syn = obj[e][n].needsSyn
    BY WriteOK
  <1>3. ObjIds /\ \A d \in Ends : \A m \in DOMAIN obj[d] : obj'[d][m].from = obj[d][m].from
    <2>1. ASSUME NEW d \in Ends, NEW m \in DOMAIN obj[d] PROVE obj'[d][m].from = obj[d][m].from
      <3>1. CASE d = e /\ m = n
        BY <1>1, <3>1
      <3>2. CASE d # e \/ m # n
        BY <1>1, <3>2 DEF ObjBut
      <3> QED
        BY <3>1, <3>2
    <2> QED
      BY <1>1, <2>1, SameIds
  <1>4. IdInv' /\ HandleInv' /\ FromInv'
    BY <1>1, <1>3, QuietIds, QuietHandles, QuietFrom DEF ApartInv
  <1>5. PICK q : q = obj[e][n].out /\ q \in Seq(Frames)
    BY At DEF Objects
  <1>6. /\ obj[e][n].needsSyn => q = <<>>
        /\ \A i \in DOMAIN q : q[i].syn => i = 1
        /\ ~(Unsent(e, n) /\ Carried(e, n))
    BY <1>5 DEF ApartInv, SynInv
  <1>7. \A i \in DOMAIN Append(q, f) :
          Append(q, f)[i].syn => i = 1 /\ (f.syn \/ (i \in DOMAIN q /\ q[i].syn))
    <2>1. CASE f.syn
      <3>1. q = <<>>
        BY <1>2, <1>6, <2>1
      <3> QED
        BY <2>1, <3>1
    <2>2. CASE ~f.syn
      BY <1>5, <1>6, <2>2
    <2> QED
      BY <2>1, <2>2
  <1>8. Unsent(e, n)' => Unsent(e, n)
    BY <1>1, <1>2, <1>5, <1>7 DEF Unsent
  <1>9. Carried(e, n)' => Carried(e, n)
    BY <1>1 DEF WireCalm
  <1>10. SynInv'
    <2>1. \A i \in DOMAIN obj'[e][n].out : obj'[e][n].out[i].syn => i = 1
      BY <1>2, <1>5, <1>7
    <2>2. \A d \in Ends : Once(wire'[d])
      BY <1>1 DEF WireCalm, ApartInv, SynInv
    <2>3. \A d \in Ends : \A m \in DOMAIN obj[d] : Carried(d, m)' => Carried(d, m)
      BY <1>1 DEF WireCalm
    <2>4. SynInv
      BY DEF ApartInv
    <2> QED
      BY <1>1, <1>6, <1>8, <1>9, <2>1, <2>2, <2>3, <2>4, SynBut
  <1> QED
    BY <1>4, <1>10 DEF ApartInv

\* The SYN leaves the stream for the connection.
LEMMA SendApart ==
  ASSUME TypeInv, ApartInv, NEW e \in Ends, NEW n \in DOMAIN obj[e], TakeFrame(e, n)
  PROVE  ApartInv'
  <1>1. /\ TypeInv' /\ MgrCalm /\ AppCalm /\ ObjBut(e, n) /\ obj[e][n].out # <<>>
        /\ obj'[e][n].needsSyn = obj[e][n].needsSyn /\ obj'[e][n].from = obj[e][n].from
        /\ obj'[e][n].out = Tail(obj[e][n].out)
        /\ wire'[e] = wire[e] \/ wire'[e] = Append(wire[e], Head(obj[e][n].out))
        /\ \A d \in Ends : d # e => wire'[d] = wire[d]
    BY TakeFrameOK
  <1>2. ObjIds /\ \A d \in Ends : \A m \in DOMAIN obj[d] : obj'[d][m].from = obj[d][m].from
    <2>1. ASSUME NEW d \in Ends, NEW m \in DOMAIN obj[d] PROVE obj'[d][m].from = obj[d][m].from
      <3>1. CASE d = e /\ m = n
        BY <1>1, <3>1
      <3>2. CASE d # e \/ m # n
        BY <1>1, <3>2 DEF ObjBut
      <3> QED
        BY <3>1, <3>2
    <2> QED
      BY <1>1, <2>1, SameIds
  <1>3. IdInv' /\ HandleInv' /\ FromInv'
    BY <1>1, <1>2, QuietIds, QuietHandles, QuietFrom DEF ApartInv
  <1>4. PICK q, f, w : q = obj[e][n].out /\ f = Head(q) /\ w = wire[e] /\ w \in Seq(Frames)
    BY At
  <1>5. /\ f \in Frames /\ f = q[1] /\ 1 \in DOMAIN q /\ f.src = n
        /\ \A i \in DOMAIN Tail(q) : i \in Nat /\ i # 0 /\ i + 1 \in DOMAIN q /\ Tail(q)[i] = q[i + 1]
    BY <1>1, <1>4, OutLess
  <1>6. /\ obj[e][n].needsSyn => q = <<>>
        /\ \A i \in DOMAIN q : q[i].syn => i = 1
        /\ ~(Unsent(e, n) /\ Carried(e, n)) /\ Once(w)
    BY <1>4 DEF ApartInv, SynInv
  <1>7. ~Unsent(e, n)'
    <2>1. \A i \in DOMAIN Tail(q) : ~Tail(q)[i].syn
      BY <1>5, <1>6
    <2>2. ~obj'[e][n].needsSyn
      BY <1>1, <1>4, <1>6
    <2> QED
      BY <1>1, <1>4, <2>1, <2>2 DEF Unsent
  <1>8. f.syn => Unsent(e, n)
    BY <1>4, <1>5 DEF Unsent
  <1>9. \A i \in DOMAIN wire'[e] : \/ i \in DOMAIN w /\ wire'[e][i] = w[i]
                                   \/ i = Len(w) + 1 /\ wire'[e][i] = f
    BY <1>1, <1>4, <1>5
  <1>10. Carried(e, n)' => Unsent(e, n) \/ Carried(e, n)
    BY <1>4, <1>8, <1>9 DEF Carried
  <1>11. ASSUME NEW d \in Ends, NEW m \in DOMAIN obj[d], d # e \/ m # n, Carried(d, m)'
         PROVE  Carried(d, m)
    <2>1. CASE d = e
      BY <1>4, <1>5, <1>9, <1>11, <2>1 DEF Carried
    <2>2. CASE d # e
      BY <1>1, <1>11, <2>2 DEF Carried
    <2> QED
      BY <2>1, <2>2
  <1>12. Once(wire'[e])
    <2> SUFFICES ASSUME NEW i \in DOMAIN wire'[e], NEW j \in DOMAIN wire'[e],
                        wire'[e][i].syn, wire'[e][j].syn, wire'[e][i].src = wire'[e][j].src
                 PROVE  i = j
      BY DEF Once
    <2>1. CASE i \in DOMAIN w /\ wire'[e][i] = w[i] /\ j \in DOMAIN w /\ wire'[e][j] = w[j]
      BY <1>6, <2>1 DEF Once
    <2>2. CASE i \in DOMAIN w /\ wire'[e][i] = w[i] /\ j = Len(w) + 1 /\ wire'[e][j] = f
      <3>1. Carried(e, n) /\ f.syn
        BY <1>4, <1>5, <2>2 DEF Carried
      <3> QED
        BY <1>6, <1>8, <3>1
    <2>3. CASE j \in DOMAIN w /\ wire'[e][j] = w[j] /\ i = Len(w) + 1 /\ wire'[e][i] = f
      <3>1. Carried(e, n) /\ f.syn
        BY <1>4, <1>5, <2>3 DEF Carried
      <3> QED
        BY <1>6, <1>8, <3>1
    <2>4. CASE i = Len(w) + 1 /\ j = Len(w) + 1
      BY <2>4
    <2> QED
      BY <1>9, <2>1, <2>2, <2>3, <2>4
  <1>13. SynInv'
    <2>1. \A i \in DOMAIN obj'[e][n].out : obj'[e][n].out[i].syn => i = 1
      BY <1>7 DEF Unsent
    <2>2. \A d \in Ends : Once(wire'[d])
      BY <1>1, <1>12 DEF ApartInv, SynInv
    <2>3. obj'[e][n].needsSyn => obj'[e][n].out = <<>>
      BY <1>7 DEF Unsent
    <2>4. SynInv
      BY DEF ApartInv
    <2> QED
      BY <1>1, <1>7, <1>10, <1>11, <2>1, <2>2, <2>3, <2>4, SynBut
  <1> QED
    BY <1>3, <1>13 DEF ApartInv

\* A stream receives from the stream of the peer that has its id.
LEMMA DataApart ==
  ASSUME TypeInv, ApartInv, NEW e \in Ends, ReadData(e)
  PROVE  ApartInv'
  <1>1. PICK p, f, n : p = Peer(e) /\ p \in Ends /\ p # e /\ f = wire[p][1] /\ n = mgr[e].streams[f.id]
    BY TwoEnds
  <1>2. /\ TypeInv' /\ MgrCalm /\ AppCalm /\ WireCalm
        /\ Genuine(p, f) /\ f.typ = "data" /\ f.id \in Ids
        /\ n # 0 /\ n \in DOMAIN obj[e] /\ ObjBut(e, n)
        /\ obj'[e][n].needsSyn = obj[e][n].needsSyn /\ obj'[e][n].out = obj[e][n].out
        /\ obj'[e][n].from = obj[e][n].from \cup {f.src}
    BY <1>1, ReadDataOK
  <1>3. ObjIds
    BY <1>2, SameIds
  <1>4. IdInv' /\ HandleInv'
    BY <1>2, <1>3, QuietIds, QuietHandles DEF ApartInv
  <1>5. FromInv'
    <2> SUFFICES ASSUME NEW d \in Ends, NEW k \in DOMAIN obj'[d], NEW m \in obj'[d][k].from
                 PROVE  m \in DOMAIN obj'[Peer(d)] /\ obj'[Peer(d)][m].id = obj'[d][k].id
      BY DEF FromInv, Peer
    <2>1. Peer(d) \in Ends /\ k \in DOMAIN obj[d]
      BY <1>3, TwoEnds DEF ObjIds
    <2>2. m \in DOMAIN obj[Peer(d)] /\ obj[Peer(d)][m].id = obj[d][k].id
      <3>1. CASE d = e /\ k = n /\ m = f.src
        <4>1. m \in DOMAIN obj[p] /\ f.id = obj[p][m].id
          BY <1>2, <3>1 DEF Genuine
        <4>2. obj[e][n].id = f.id
          BY <1>1, <1>2 DEF ApartInv, HandleInv
        <4> QED
          BY <1>1, <3>1, <4>1, <4>2
      <3>2. CASE m \in obj[d][k].from
        BY <2>1, <3>2 DEF ApartInv, FromInv
      <3>3. CASE d # e \/ k # n
        <4>1. obj'[d][k] = obj[d][k]
          BY <1>2, <2>1, <3>3 DEF ObjBut
        <4> QED
          BY <3>2, <4>1
      <3> QED
        BY <1>2, <3>1, <3>2, <3>3
    <2> QED
      BY <1>3, <2>1, <2>2 DEF ObjIds
  <1>6. SynInv'
    <2>1. Unsent(e, n)' <=> Unsent(e, n)
      BY <1>2 DEF Unsent
    <2>2. \A d \in Ends : \A m \in DOMAIN obj[d] : Carried(d, m)' => Carried(d, m)
      BY <1>2 DEF WireCalm
    <2>3. \A d \in Ends : Once(wire'[d])
      BY <1>2 DEF WireCalm, ApartInv, SynInv
    <2>4. /\ obj[e][n].needsSyn => obj[e][n].out = <<>>
          /\ \A i \in DOMAIN obj[e][n].out : obj[e][n].out[i].syn => i = 1
          /\ ~(Unsent(e, n) /\ Carried(e, n))
      BY <1>2 DEF ApartInv, SynInv
    <2>5. /\ obj'[e][n].needsSyn => obj'[e][n].out = <<>>
          /\ \A i \in DOMAIN obj'[e][n].out : obj'[e][n].out[i].syn => i = 1
      BY <1>2, <2>4
    <2>6. SynInv
      BY DEF ApartInv
    <2> QED
      BY <1>2, <2>1, <2>2, <2>3, <2>4, <2>5, <2>6, SynBut
  <1> QED
    BY <1>4, <1>5, <1>6 DEF ApartInv

\* A stream is made with an id that no stream of e has.
LEMMA MadeIds ==
  ASSUME TypeInv, TypeInv', IdInv, NEW e \in Ends, NEW id \in Ids, NEW local \in BOOLEAN,
         Created(e, id, local), \A m \in DOMAIN obj[e] : obj[e][m].id # id,
         NEW o \in Ends, local => o = e, ~local => o = Peer(e),
         id % 2 = Base(o), id <= mgr'[o].lastLocal,
         \A d \in Ends :
           /\ app'[d].asked <= MaxOpens[d]
           /\ mgr'[d].lastLocal + 2 * Len(app'[d].pending) <= Base(d) + 2 * app'[d].asked
           /\ mgr'[d].lastLocal % 2 = Base(d)
           /\ mgr[d].lastLocal <= mgr'[d].lastLocal
  PROVE  IdInv'
  <1>1. PICK n : n = Len(obj[e]) + 1
    OBVIOUS
  <1>2. /\ DOMAIN obj'[e] = 1..n
        /\ \A d \in Ends : d # e => obj'[d] = obj[d]
        /\ \A m \in DOMAIN obj[e] : obj'[e][m].id = obj[e][m].id /\ obj'[e][m].local = obj[e][m].local
        /\ obj'[e][n].id = id /\ obj'[e][n].local = local
    BY <1>1 DEF Created
  <1>3. DOMAIN obj[e] = 1..Len(obj[e]) /\ Len(obj[e]) \in Nat
    BY At
  <1>4. \A m \in DOMAIN obj'[e] : m = n \/ m \in DOMAIN obj[e]
    BY <1>1, <1>2, <1>3
  <1>5. ASSUME NEW d \in Ends, NEW m \in DOMAIN obj[d], NEW k \in Ends,
               obj[d][m].local => k = d, ~obj[d][m].local => k = Peer(d)
        PROVE  obj[d][m].id % 2 = Base(k) /\ obj[d][m].id <= mgr'[k].lastLocal
    <2>1. obj[d][m].id % 2 = Base(k) /\ obj[d][m].id <= mgr[k].lastLocal
      BY <1>5 DEF IdInv
    <2>2. obj[d][m].id \in Nat /\ mgr[k].lastLocal \in Nat /\ mgr'[k].lastLocal \in Nat
          /\ mgr[k].lastLocal <= mgr'[k].lastLocal
      BY Numbers, NumbersNext
    <2> QED
      BY <2>1, <2>2
  <1>6. ASSUME NEW d \in Ends, NEW m \in DOMAIN obj'[d], NEW k \in Ends,
               obj'[d][m].local => k = d, ~obj'[d][m].local => k = Peer(d)
        PROVE  obj'[d][m].id % 2 = Base(k) /\ obj'[d][m].id <= mgr'[k].lastLocal
    <2>1. CASE d = e /\ m = n
      <3>1. k = o
        BY <1>2, <1>6, <2>1
      <3> QED
        BY <1>2, <2>1, <3>1
    <2>2. CASE d = e /\ m # n
      <3>1. m \in DOMAIN obj[e]
        BY <1>4, <1>6, <2>2
      <3>2. obj'[e][m].id = obj[e][m].id /\ obj'[e][m].local = obj[e][m].local
        BY <1>2, <3>1
      <3>3. obj[d][m].local => k = d
        BY <1>6, <2>2, <3>2
      <3>4. ~obj[d][m].local => k = Peer(d)
        BY <1>6, <2>2, <3>2
      <3>5. obj[d][m].id % 2 = Base(k) /\ obj[d][m].id <= mgr'[k].lastLocal
        BY <1>5, <2>2, <3>1, <3>3, <3>4
      <3> QED
        BY <2>2, <3>2, <3>5
    <2>3. CASE d # e
      BY <1>2, <1>5, <1>6, <2>3
    <2> QED
      BY <2>1, <2>2, <2>3
  <1>7. ASSUME NEW d \in Ends, NEW m \in DOMAIN obj'[d], NEW k \in DOMAIN obj'[d],
               obj'[d][m].id = obj'[d][k].id
        PROVE  m = k
    <2>1. CASE d # e
      BY <1>2, <1>7, <2>1 DEF IdInv
    <2>2. CASE d = e
      <3>1. \A i, j \in DOMAIN obj[e] : obj[e][i].id = obj[e][j].id => i = j
        BY DEF IdInv
      <3>2. (m = n \/ m \in DOMAIN obj[e]) /\ (k = n \/ k \in DOMAIN obj[e])
        BY <1>4, <1>7, <2>2
      <3>3. obj'[e][m].id = obj'[e][k].id
        BY <1>7, <2>2
      <3>4. CASE m = n /\ k \in DOMAIN obj[e]
        BY <1>2, <3>3, <3>4
      <3>5. CASE k = n /\ m \in DOMAIN obj[e]
        BY <1>2, <3>3, <3>5
      <3>6. CASE m \in DOMAIN obj[e] /\ k \in DOMAIN obj[e]
        BY <1>2, <3>1, <3>3, <3>6
      <3> QED
        BY <3>2, <3>4, <3>5, <3>6
    <2> QED
      BY <2>1, <2>2
  <1>8. ASSUME NEW d \in Ends, NEW m \in DOMAIN obj'[d]
        PROVE  LET opener == IF obj'[d][m].local THEN d ELSE Peer(d)
               IN obj'[d][m].id % 2 = Base(opener) /\ obj'[d][m].id <= mgr'[opener].lastLocal
    BY <1>6, TwoEnds
  <1> QED
    BY <1>7, <1>8 DEF IdInv, Base, Peer

\* A new stream has a fresh id, and its handle.
LEMMA MadeHandles ==
  ASSUME TypeInv, HandleInv, NEW e \in Ends, NEW id \in Ids, NEW local \in BOOLEAN,
         Created(e, id, local), \A m \in DOMAIN obj[e] : obj[e][m].id # id
  PROVE  HandleInv'
  <1>1. PICK n : n = Len(obj[e]) + 1
    OBVIOUS
  <1>2. /\ \A d \in Ends : d # e => obj'[d] = obj[d] /\ mgr'[d] = mgr[d]
        /\ \A m \in DOMAIN obj[e] : obj'[e][m].id = obj[e][m].id
        /\ obj'[e][n].id = id
        /\ mgr'[e].gone = mgr[e].gone /\ mgr'[e].tasks = mgr[e].tasks \cup {n}
        /\ \A i \in Ids : mgr'[e].streams[i] = IF i = id THEN n ELSE mgr[e].streams[i]
    BY <1>1 DEF Created
  <1>3. /\ \A i \in Ids : mgr[e].streams[i] # 0 => mgr[e].streams[i] \in DOMAIN obj[e]
        /\ mgr[e].tasks \subseteq DOMAIN obj[e]
        /\ \A m \in DOMAIN obj[e] : obj[e][m].id \in Ids
    BY Parts, At DEF MgrOK, Objects
  <1> SUFFICES ASSUME NEW d \in Ends
               PROVE  /\ \A i \in Ids : mgr'[d].streams[i] # 0 => obj'[d][mgr'[d].streams[i]].id = i
                      /\ ~mgr'[d].gone => \A m \in mgr'[d].tasks : mgr'[d].streams[obj'[d][m].id] = m
    BY DEF HandleInv
  <1>4. CASE d # e
    BY <1>2, <1>4 DEF HandleInv
  <1>5. CASE d = e
    <2>1. ASSUME NEW i \in Ids, mgr'[e].streams[i] # 0 PROVE obj'[e][mgr'[e].streams[i]].id = i
      <3>1. CASE i = id
        BY <1>2, <3>1
      <3>2. CASE i # id
        <4>1. mgr'[e].streams[i] = mgr[e].streams[i] /\ mgr[e].streams[i] \in DOMAIN obj[e]
          BY <1>2, <1>3, <2>1, <3>2
        <4> QED
          BY <1>2, <2>1, <4>1 DEF HandleInv
      <3> QED
        BY <3>1, <3>2
    <2>2. ASSUME ~mgr'[e].gone, NEW m \in mgr'[e].tasks PROVE mgr'[e].streams[obj'[e][m].id] = m
      <3>1. CASE m = n
        BY <1>2, <3>1
      <3>2. CASE m # n
        <4>1. m \in mgr[e].tasks /\ m \in DOMAIN obj[e] /\ ~mgr[e].gone
          BY <1>2, <1>3, <2>2, <3>2
        <4>2. mgr[e].streams[obj[e][m].id] = m /\ obj[e][m].id # id /\ obj[e][m].id \in Ids
          BY <1>3, <4>1 DEF HandleInv
        <4> QED
          BY <1>2, <4>1, <4>2
      <3> QED
        BY <3>1, <3>2
    <2> QED
      BY <1>5, <2>1, <2>2
  <1> QED
    BY <1>4, <1>5

\* A new stream has heard nobody.
LEMMA MadeFrom ==
  ASSUME TypeInv, FromInv, NEW e \in Ends, NEW id \in Ids, NEW local \in BOOLEAN,
         Created(e, id, local)
  PROVE  FromInv'
  <1>1. PICK n : n = Len(obj[e]) + 1
    OBVIOUS
  <1>2. /\ DOMAIN obj'[e] = 1..n
        /\ \A d \in Ends : d # e => obj'[d] = obj[d]
        /\ \A m \in DOMAIN obj[e] : obj'[e][m].id = obj[e][m].id /\ obj'[e][m].from = obj[e][m].from
        /\ obj'[e][n].from = {}
    BY <1>1 DEF Created
  <1>3. DOMAIN obj[e] = 1..Len(obj[e]) /\ Len(obj[e]) \in Nat
    BY At
  <1>4. /\ \A m \in DOMAIN obj'[e] : m = n \/ m \in DOMAIN obj[e]
        /\ DOMAIN obj[e] \subseteq DOMAIN obj'[e]
    BY <1>1, <1>2, <1>3
  <1> SUFFICES ASSUME NEW d \in Ends, NEW k \in DOMAIN obj'[d], NEW m \in obj'[d][k].from
               PROVE  m \in DOMAIN obj'[Peer(d)] /\ obj'[Peer(d)][m].id = obj'[d][k].id
    BY DEF FromInv, Peer
  <1>5. PICK p \in Ends : p = Peer(d) /\ p # d
    BY TwoEnds
  <1>6. /\ k \in DOMAIN obj[d] /\ m \in obj[d][k].from /\ obj'[d][k].id = obj[d][k].id
    BY <1>2, <1>4
  <1>7. m \in DOMAIN obj[p] /\ obj[p][m].id = obj[d][k].id
    BY <1>5, <1>6 DEF FromInv
  <1>8. m \in DOMAIN obj'[p] /\ obj'[p][m].id = obj[p][m].id
    BY <1>2, <1>4, <1>7
  <1> QED
    BY <1>5, <1>6, <1>7, <1>8

\* A new stream has its first frame still to send, or was made from one.
LEMMA MadeSyn ==
  ASSUME TypeInv, SynInv, NEW e \in Ends, NEW id \in Ids, NEW local \in BOOLEAN,
         Created(e, id, local), \A d \in Ends : Once(wire'[d]),
         \A d \in Ends : \A m \in Nat : Carried(d, m)' => Carried(d, m),
         local => \A m \in DOMAIN obj[Peer(e)] : obj[Peer(e)][m].id # id,
         \A m \in DOMAIN obj[Peer(e)] :
           obj[Peer(e)][m].id = id => ~Unsent(Peer(e), m) /\ ~Carried(Peer(e), m)'
  PROVE  SynInv'
  <1>1. PICK n, p : n = Len(obj[e]) + 1 /\ p = Peer(e) /\ p \in Ends /\ p # e /\ Peer(p) = e
    BY TwoEnds
  <1>2. /\ DOMAIN obj'[e] = 1..n
        /\ obj'[p] = obj[p]
        /\ \A m \in DOMAIN obj[e] :
             /\ obj'[e][m].id = obj[e][m].id /\ obj'[e][m].local = obj[e][m].local
             /\ obj'[e][m].needsSyn = obj[e][m].needsSyn /\ obj'[e][m].out = obj[e][m].out
        /\ obj'[e][n].id = id /\ obj'[e][n].local = local
        /\ obj'[e][n].needsSyn = local /\ obj'[e][n].out = <<>>
    BY <1>1 DEF Created
  <1>3. DOMAIN obj[e] = 1..Len(obj[e]) /\ Len(obj[e]) \in Nat
    BY At
  <1>4. /\ \A m \in DOMAIN obj'[e] : m = n \/ m \in DOMAIN obj[e]
        /\ n \notin DOMAIN obj[e] /\ n \in Nat
    BY <1>1, <1>2, <1>3
  <1>5. ~Carried(e, n)
    <2>1. \A i \in DOMAIN wire[e] : Genuine(e, wire[e][i])
      BY Parts DEF WireOK
    <2> QED
      BY <1>4, <2>1 DEF Carried, Genuine
  <1>6. /\ \A m : Arrived(e, m)' <=> \E k \in DOMAIN obj[p] : obj[p][k].id = obj'[e][m].id
        /\ \A m : Arrived(e, m) <=> \E k \in DOMAIN obj[p] : obj[p][k].id = obj[e][m].id
        /\ \A m : Arrived(p, m)' <=> \E k \in DOMAIN obj'[e] : obj'[e][k].id = obj[p][m].id
        /\ \A m : Arrived(p, m) <=> \E k \in DOMAIN obj[e] : obj[e][k].id = obj[p][m].id
    <2>1. \A m : Arrived(e, m)' <=> \E k \in DOMAIN obj'[p] : obj'[p][k].id = obj'[e][m].id
      BY <1>1 DEF Arrived, Peer
    <2>2. \A m : Arrived(p, m)' <=> \E k \in DOMAIN obj'[e] : obj'[e][k].id = obj'[p][m].id
      BY <1>1 DEF Arrived, Peer
    <2> QED
      BY <1>1, <1>2, <2>1, <2>2 DEF Arrived
  <1>7. ASSUME NEW d \in Ends, NEW m \in DOMAIN obj'[d]
        PROVE  /\ obj'[d][m].needsSyn => obj'[d][m].out = <<>>
               /\ \A i \in DOMAIN obj'[d][m].out : obj'[d][m].out[i].syn => i = 1
               /\ Unsent(d, m)' \/ Carried(d, m)' => obj'[d][m].local /\ ~Arrived(d, m)'
               /\ ~(Unsent(d, m)' /\ Carried(d, m)')
    <2>1. CASE d = e /\ m = n
      <3>1. ~Carried(e, n)'
        BY <1>4, <1>5
      <3>2. Unsent(e, n)' => local
        BY <1>2 DEF Unsent
      <3>3. local => ~Arrived(e, n)'
        BY <1>1, <1>2, <1>6
      <3> QED
        BY <1>2, <2>1, <3>1, <3>2, <3>3
    <2>2. CASE d = e /\ m \in DOMAIN obj[e]
      <3>1. m \in Nat
        BY <2>2, At
      <3>2. /\ obj[e][m].needsSyn => obj[e][m].out = <<>>
            /\ \A i \in DOMAIN obj[e][m].out : obj[e][m].out[i].syn => i = 1
            /\ Unsent(e, m) \/ Carried(e, m) => obj[e][m].local /\ ~Arrived(e, m)
            /\ ~(Unsent(e, m) /\ Carried(e, m))
        BY <2>2 DEF SynInv
      <3>3. Carried(e, m)' => Carried(e, m)
        BY <3>1
      <3>4. Unsent(e, m)' <=> Unsent(e, m)
        BY <1>2, <2>2 DEF Unsent
      <3>5. Arrived(e, m)' <=> Arrived(e, m)
        BY <1>2, <1>6, <2>2
      <3>6. /\ obj'[e][m].needsSyn => obj'[e][m].out = <<>>
            /\ \A i \in DOMAIN obj'[e][m].out : obj'[e][m].out[i].syn => i = 1
            /\ obj'[e][m].local = obj[e][m].local
        BY <1>2, <2>2, <3>2
      <3> QED
        BY <2>2, <3>2, <3>3, <3>4, <3>5, <3>6
    <2>3. CASE d = p
      <3>1. m \in DOMAIN obj[p] /\ m \in Nat
        BY <1>1, <1>2, <1>7, <2>3, At
      <3>2. /\ obj[p][m].needsSyn => obj[p][m].out = <<>>
            /\ \A i \in DOMAIN obj[p][m].out : obj[p][m].out[i].syn => i = 1
            /\ Unsent(p, m) \/ Carried(p, m) => obj[p][m].local /\ ~Arrived(p, m)
            /\ ~(Unsent(p, m) /\ Carried(p, m))
        BY <1>1, <3>1 DEF SynInv
      <3>3. Carried(p, m)' => Carried(p, m)
        BY <1>1, <3>1
      <3>4. Unsent(p, m)' <=> Unsent(p, m)
        BY <1>2 DEF Unsent
      <3>5. Unsent(p, m)' \/ Carried(p, m)' => ~Arrived(p, m)'
        BY <1>1, <1>2, <1>4, <1>6, <3>1, <3>2, <3>3, <3>4
      <3> QED
        BY <1>2, <2>3, <3>2, <3>3, <3>4, <3>5
    <2> QED
      BY <1>1, <1>4, <1>7, <2>1, <2>2, <2>3, TwoEnds
  <1> QED
    BY <1>7 DEF SynInv, Once

\* An end that has ids left gives one that neither end has used.
LEMMA NextIdFresh ==
  ASSUME EnoughIds, TypeInv, IdInv, NEW e \in Ends, Len(app[e].pending) > 0
  PROVE  /\ NextId(e) = mgr[e].lastLocal + 2 /\ NextId(e) % 2 = Base(e)
         /\ \A d \in Ends : \A m \in DOMAIN obj[d] : obj[d][m].id # NextId(e)
  <1>1. PICK l, k, a, b : /\ l = mgr[e].lastLocal /\ k = Len(app[e].pending) /\ a = app[e].asked
                          /\ b = Base(e)
    OBVIOUS
  <1>2. /\ l \in Nat /\ k \in Nat /\ a \in Nat /\ MaxId \in Nat /\ MaxOpens[e] \in Nat /\ b \in {0, 1}
    BY <1>1, Numbers, TwoEnds
  <1>3. /\ l + 2 * k <= b + 2 * a /\ a <= MaxOpens[e] /\ l % 2 = b /\ k > 0
    BY <1>1 DEF IdInv
  <1>4. 2 * MaxOpens[e] + 1 <= MaxId
    BY DEF EnoughIds
  <1>5. l + 2 <= MaxId
    BY <1>2, <1>3, <1>4
  <1>6. NextId(e) = l + 2
    BY <1>1, <1>5, NextIdType
  <1>7. (l + 2) % 2 = b
    BY <1>2, <1>3
  <1>8. ASSUME NEW d \in Ends, NEW m \in DOMAIN obj[d] PROVE obj[d][m].id # l + 2
    <2>1. PICK o \in Ends : obj[d][m].id % 2 = Base(o) /\ obj[d][m].id <= mgr[o].lastLocal
      BY TwoEnds DEF IdInv
    <2>2. obj[d][m].id \in Nat
      BY Numbers
    <2>3. CASE o = e
      BY <1>1, <1>2, <2>1, <2>2, <2>3
    <2>4. CASE o # e
      <3>1. Base(o) # b
        BY <1>1, <2>4, TwoEnds
      <3> QED
        BY <1>7, <2>1, <3>1
    <2> QED
      BY <2>3, <2>4
  <1> QED
    BY <1>1, <1>6, <1>7, <1>8

\* A stream is opened.
LEMMA OpenApart ==
  ASSUME EnoughIds, TypeInv, ApartInv, NEW e \in Ends, AnswerOpen(e), ~Calm
  PROVE  ApartInv'
  <1>1. PICK id : id = NextId(e)
    OBVIOUS
  <1>2. TypeInv' /\ Created(e, id, TRUE) /\ Answered(e) /\ wire' = wire /\ id \in Ids
    BY <1>1, AnswerOK, NextIdType
  <1>3. Len(app[e].pending) > 0
    <2>1. Len(app'[e].pending) = Len(app[e].pending) - 1
      BY <1>2 DEF Answered
    <2>2. Len(app[e].pending) \in Nat /\ Len(app'[e].pending) \in Nat
      BY <1>2, Numbers, NumbersNext
    <2> QED
      BY <2>1, <2>2
  <1>4. /\ id = mgr[e].lastLocal + 2 /\ id % 2 = Base(e)
        /\ \A d \in Ends : \A m \in DOMAIN obj[d] : obj[d][m].id # id
    BY <1>1, <1>3, NextIdFresh DEF ApartInv
  <1>5. mgr'[e].lastLocal = id /\ \A d \in Ends : d # e => mgr'[d] = mgr[d]
    BY <1>2 DEF Created
  <1>6. ASSUME NEW d \in Ends
        PROVE  /\ app'[d].asked <= MaxOpens[d]
               /\ mgr'[d].lastLocal + 2 * Len(app'[d].pending) <= Base(d) + 2 * app'[d].asked
               /\ mgr'[d].lastLocal % 2 = Base(d)
               /\ mgr[d].lastLocal <= mgr'[d].lastLocal
    <2>1. /\ app[d].asked <= MaxOpens[d]
          /\ mgr[d].lastLocal + 2 * Len(app[d].pending) <= Base(d) + 2 * app[d].asked
          /\ mgr[d].lastLocal % 2 = Base(d)
      BY DEF ApartInv, IdInv
    <2>2. mgr[d].lastLocal \in Nat /\ Len(app[d].pending) \in Nat /\ app[d].asked \in Nat
          /\ Base(d) \in Nat
      BY Numbers DEF Base
    <2>3. CASE d = e
      <3>1. Len(app'[e].pending) = Len(app[e].pending) - 1 /\ app'[e].asked = app[e].asked
        BY <1>2 DEF Answered
      <3>2. PICK l, k, c : l = mgr[e].lastLocal /\ k = Len(app[e].pending)
                           /\ c = Base(e) + 2 * app[e].asked
        OBVIOUS
      <3>3. l \in Nat /\ k \in Nat /\ c \in Nat /\ l + 2 * k <= c
        BY <2>1, <2>2, <2>3, <3>2
      <3>4. (l + 2) + 2 * (k - 1) <= c /\ l <= l + 2
        BY <3>3
      <3> QED
        BY <1>4, <1>5, <2>1, <2>3, <3>1, <3>2, <3>4
    <2>4. CASE d # e
      <3>1. app'[d] = app[d] /\ mgr'[d] = mgr[d]
        BY <1>2, <1>5, <2>4 DEF Answered
      <3> QED
        BY <2>1, <2>2, <3>1
    <2> QED
      BY <2>3, <2>4
  <1>7. IdInv'
    <2>1. id <= mgr'[e].lastLocal
      <3>1. id \in Nat /\ mgr'[e].lastLocal = id
        BY <1>2, <1>5, IdsNat
      <3> QED
        BY <3>1
    <2> QED
      BY <1>2, <1>4, <1>6, <2>1, MadeIds DEF ApartInv
  <1>8. HandleInv' /\ FromInv'
    BY <1>2, <1>4, MadeHandles, MadeFrom DEF ApartInv
  <1>9. SynInv'
    <2>1. \A d \in Ends : Once(wire'[d])
      BY <1>2 DEF ApartInv, SynInv
    <2>2. \A d \in Ends : \A m \in Nat : Carried(d, m)' => Carried(d, m)
      BY <1>2 DEF Carried
    <2>3. SynInv
      BY DEF ApartInv
    <2>4. \A m \in DOMAIN obj[Peer(e)] : obj[Peer(e)][m].id # id
      BY <1>4, TwoEnds
    <2> QED
      BY <1>2, <2>1, <2>2, <2>3, <2>4, MadeSyn
  <1> QED
    BY <1>7, <1>8, <1>9 DEF ApartInv

\* A SYN makes the stream of its id, once.
LEMMA SynApart ==
  ASSUME TypeInv, ApartInv, NEW e \in Ends, ReadSyn(e)
  PROVE  ApartInv'
  <1>1. PICK p, f, m, id : p = Peer(e) /\ f = wire[p][1] /\ m = f.src /\ id = Arriving(e).id
    OBVIOUS
  <1>2. p \in Ends /\ p # e /\ Peer(p) = e /\ \A d \in Ends : d = e \/ d = p
    BY <1>1, TwoEnds
  <1>3. /\ TypeInv' /\ Created(e, id, FALSE) /\ Opened(e) /\ app' = app
        /\ f.syn /\ f.typ = "data" /\ id \in Ids /\ id = f.id /\ Genuine(p, f)
    BY <1>1, ReadSynOK
  <1>4. m \in DOMAIN obj[p] /\ id = obj[p][m].id
    BY <1>1, <1>3 DEF Genuine
  <1>5. /\ DOMAIN wire'[p] = DOMAIN wire[p] /\ wire'[e] = wire[e] /\ 1 \in DOMAIN wire[p]
        /\ ~wire'[p][1].syn
        /\ \A i \in DOMAIN wire[p] : i # 1 => wire'[p][i] = wire[p][i]
    BY <1>1, <1>3 DEF Opened
  <1>6. Carried(p, m)
    BY <1>1, <1>3, <1>5 DEF Carried
  <1>7. obj[p][m].local /\ ~Arrived(p, m) /\ ~Unsent(p, m) /\ Once(wire[p])
    BY <1>2, <1>4, <1>6 DEF ApartInv, SynInv
  <1>8. \A k \in DOMAIN obj[e] : obj[e][k].id # id
    BY <1>2, <1>4, <1>7 DEF Arrived
  <1>9. id % 2 = Base(p) /\ id <= mgr[p].lastLocal
    BY <1>2, <1>4, <1>7 DEF ApartInv, IdInv
  <1>10. \A d \in Ends : mgr'[d].lastLocal = mgr[d].lastLocal
    <2>1. mgr'[e].lastLocal = mgr[e].lastLocal
      BY <1>3 DEF Created
    <2>2. \A d \in Ends : d # e => mgr'[d] = mgr[d]
      BY <1>3 DEF Created
    <2> QED
      BY <2>1, <2>2
  <1>11. IdInv'
    <2>1. ASSUME NEW d \in Ends
          PROVE  /\ app'[d].asked <= MaxOpens[d]
                 /\ mgr'[d].lastLocal + 2 * Len(app'[d].pending) <= Base(d) + 2 * app'[d].asked
                 /\ mgr'[d].lastLocal % 2 = Base(d)
                 /\ mgr[d].lastLocal <= mgr'[d].lastLocal
      <3>1. mgr[d].lastLocal \in Nat
        BY Numbers
      <3> QED
        BY <1>3, <1>10, <3>1 DEF ApartInv, IdInv
    <2>2. id <= mgr'[p].lastLocal
      BY <1>2, <1>9, <1>10
    <2>3. IdInv
      BY DEF ApartInv
    <2> QED
      BY <1>1, <1>2, <1>3, <1>8, <1>9, <2>1, <2>2, <2>3, MadeIds
  <1>12. HandleInv' /\ FromInv'
    BY <1>3, <1>8, MadeHandles, MadeFrom DEF ApartInv
  <1>13. \A i \in DOMAIN wire'[p] : wire'[p][i].syn =>
           i \in DOMAIN wire[p] /\ i # 1 /\ wire'[p][i] = wire[p][i]
    BY <1>5
  <1>14. ~Carried(p, m)'
    <2> SUFFICES ASSUME NEW i \in DOMAIN wire'[p], wire'[p][i].syn, wire'[p][i].src = m
                 PROVE  FALSE
      BY DEF Carried
    <2>1. i \in DOMAIN wire[p] /\ i # 1 /\ wire[p][i].syn /\ wire[p][i].src = wire[p][1].src
      BY <1>1, <1>13
    <2> QED
      BY <1>1, <1>3, <1>5, <1>7, <2>1 DEF Once
  <1>15. SynInv'
    <2>1. \A d \in Ends : Once(wire'[d])
      <3>1. Once(wire'[p])
        BY <1>7, <1>13 DEF Once
      <3>2. Once(wire'[e])
        BY <1>5 DEF ApartInv, SynInv
      <3> QED
        BY <1>2, <3>1, <3>2
    <2>2. \A d \in Ends : \A k \in Nat : Carried(d, k)' => Carried(d, k)
      <3>1. \A k \in Nat : Carried(p, k)' => Carried(p, k)
        BY <1>13 DEF Carried
      <3>2. \A k \in Nat : Carried(e, k)' => Carried(e, k)
        BY <1>5 DEF Carried
      <3> QED
        BY <1>2, <3>1, <3>2
    <2>3. ASSUME NEW k \in DOMAIN obj[p], obj[p][k].id = id
          PROVE  ~Unsent(p, k) /\ ~Carried(p, k)'
      <3>1. k = m
        BY <1>2, <1>4, <2>3 DEF ApartInv, IdInv
      <3> QED
        BY <1>7, <1>14, <3>1
    <2>4. SynInv
      BY DEF ApartInv
    <2> QED
      BY <1>1, <1>3, <2>1, <2>2, <2>3, <2>4, MadeSyn
  <1> QED
    BY <1>11, <1>12, <1>15 DEF ApartInv

\* No stream has been made yet.
LEMMA InitApart == Init => ApartInv
  <1> SUFFICES ASSUME Init PROVE ApartInv
    OBVIOUS
  <1>1. PICK c : c = <<>> /\ DOMAIN c = {} /\ Len(c) = 0
    OBVIOUS
  <1>2. ASSUME NEW e \in Ends
        PROVE  /\ obj[e] = c /\ wire[e] = c /\ mgr[e].lastLocal = Base(e) /\ mgr[e].tasks = {}
               /\ app[e].asked = 0 /\ app[e].pending = c /\ \A i \in Ids : mgr[e].streams[i] = 0
    BY <1>1, <1>2 DEF Init, Base
  <1>3. ASSUME NEW e \in Ends
        PROVE  /\ app[e].asked <= MaxOpens[e]
               /\ mgr[e].lastLocal + 2 * Len(app[e].pending) <= Base(e) + 2 * app[e].asked
               /\ mgr[e].lastLocal % 2 = Base(e)
    <2>1. MaxOpens[e] \in Nat
      BY SessionAssumption
    <2> QED
      BY <1>1, <1>2, <2>1 DEF Base
  <1>4. IdInv
    BY <1>1, <1>2, <1>3 DEF IdInv
  <1>5. SynInv /\ HandleInv /\ FromInv
    BY <1>1, <1>2 DEF SynInv, HandleInv, FromInv, Once
  <1> QED
    BY <1>4, <1>5 DEF ApartInv

\* Every step keeps the streams apart.
LEMMA NextApart == EnoughIds /\ TypeInv /\ ApartInv /\ [Next]_vars => ApartInv'
  <1> SUFFICES ASSUME EnoughIds, TypeInv, ApartInv, [Next]_vars PROVE ApartInv'
    OBVIOUS
  <1>1. TypeInv'
    BY NextType
  <1>2. CASE Calm
    BY <1>1, <1>2, QuietApart
  <1>3. CASE ~Calm /\ Next
    <2>1. \E e \in Ends : \/ AnswerOpen(e) \/ ReadSyn(e) \/ ReadData(e)
                          \/ \E n \in DOMAIN obj[e] : Write(e, n) \/ TakeFrame(e, n)
      BY <1>3, StepType
    <2> QED
      BY <1>3, <2>1, OpenApart, SynApart, DataApart, WriteApart, SendApart
  <1>4. CASE UNCHANGED vars
    <2>1. Calm
      BY <1>4, CalmSame DEF vars, Calm
    <2> QED
      BY <1>2, <2>1
  <1> QED
    BY <1>2, <1>3, <1>4

\* With ids enough, the two invariants hold together.
LEMMA ApartAlways ==
  ASSUME EnoughIds
  PROVE  Spec => [](TypeInv /\ ApartInv)
  <1>1. TypeInv /\ ApartInv /\ [Next]_vars => (TypeInv /\ ApartInv)'
    BY NextType, NextApart
  <1> QED
    BY <1>1, InitType, InitApart, PTL DEF Spec

(***************************************************************************)
(* The unreachable!() in StreamManager::poll_next is unreachable, for any  *)
(* number of streams and frames: a task the writer polls finds the handle  *)
(* of its stream, unless the ids run out and StreamID::clamp hands one out *)
(* twice.                                                                  *)
(***************************************************************************)
THEOREM FindsHandles ==
  ASSUME EnoughIds
  PROVE  Spec => []TasksHaveHandles
  <1>1. TypeInv /\ ApartInv => TasksHaveHandles
    <2> SUFFICES ASSUME TypeInv, ApartInv, NEW e \in Ends, Polling(e), NEW n \in mgr[e].tasks
                 PROVE  mgr[e].streams[obj[e][n].id] # 0
      BY DEF TasksHaveHandles
    <2>1. n \in DOMAIN obj[e] /\ n # 0
      BY Parts, At DEF MgrOK
    <2>2. mgr[e].streams[obj[e][n].id] = n
      BY DEF ApartInv, HandleInv, Polling
    <2> QED
      BY <2>1, <2>2
  <1> QED
    BY <1>1, ApartAlways, PTL

(***************************************************************************)
(* While ids last, a Stream receives only what one Stream of the peer      *)
(* sent, the one it was made with, whatever is opened, cancelled, refused, *)
(* reset and dropped at both ends: process_frame tells frames apart by     *)
(* their stream id alone.                                                  *)
(***************************************************************************)
THEOREM KeepsApart ==
  ASSUME EnoughIds
  PROVE  Spec => []StreamsDoNotMix
  <1>1. TypeInv /\ ApartInv => StreamsDoNotMix
    <2> SUFFICES ASSUME TypeInv, ApartInv, NEW e \in Ends, NEW n \in DOMAIN obj[e]
                 PROVE  /\ Cardinality(obj[e][n].from) <= 1
                        /\ \A m \in obj[e][n].from : obj[Peer(e)][m].local # obj[e][n].local
      BY DEF StreamsDoNotMix
    <2>1. PICK p \in Ends : p = Peer(e) /\ p # e /\ Peer(p) = e /\ Base(p) # Base(e)
      BY TwoEnds
    <2>2. \A m \in obj[e][n].from : m \in DOMAIN obj[p] /\ obj[p][m].id = obj[e][n].id
      BY <2>1 DEF ApartInv, FromInv
    <2>3. Cardinality(obj[e][n].from) <= 1
      <3>1. CASE obj[e][n].from = {}
        BY <3>1, FS_EmptySet
      <3>2. CASE obj[e][n].from # {}
        <4>1. PICK m : m \in obj[e][n].from
          BY <3>2
        <4>2. obj[e][n].from = {m}
          BY <2>2, <4>1 DEF ApartInv, IdInv
        <4> QED
          <5>1. Cardinality({m}) = 1
            BY FS_Singleton
          <5>2. Cardinality(obj[e][n].from) = 1
            BY <4>2, <5>1
          <5> QED
            BY <5>2
      <3> QED
        BY <3>1, <3>2
    <2>4. ASSUME NEW m \in obj[e][n].from PROVE obj[p][m].local # obj[e][n].local
      <3>1. m \in DOMAIN obj[p] /\ obj[p][m].id = obj[e][n].id
        BY <2>2
      <3>2. obj[p][m].local \in BOOLEAN /\ obj[e][n].local \in BOOLEAN
        BY <3>1, Numbers
      <3>3. obj[p][m].id % 2 = Base(IF obj[p][m].local THEN p ELSE e)
        BY <2>1, <3>1 DEF ApartInv, IdInv
      <3>4. obj[e][n].id % 2 = Base(IF obj[e][n].local THEN e ELSE p)
        BY <2>1 DEF ApartInv, IdInv
      <3>5. CASE obj[p][m].local
        BY <2>1, <3>1, <3>2, <3>3, <3>4, <3>5
      <3>6. CASE ~obj[p][m].local
        BY <2>1, <3>1, <3>2, <3>3, <3>4, <3>6
      <3> QED
        BY <3>5, <3>6
    <2> QED
      BY <2>1, <2>3, <2>4
  <1> QED
    BY <1>1, ApartAlways, PTL
----------------------------------------------------------------------------
(* What may cut a stream off.                                              *)

\* No SYN arrives where the stream limit is met: the reader would end at it.
LimitNotMet == \A e \in Ends : ~(Reading(e, "data") /\ Arriving(e).syn /\ AtLimit(e))

\* The session of e is over or ending.
Ending(e) == mgr[e].gone \/ ~app[e].held \/ lost \/ Stopped(Peer(e))

\* The stream o was ended or reset by the peer, or nobody has it.
Finished(o) == o.dataWriteClosed \/ o.sinkClosed \/ o.app = "dropped"

\* A stream that is held, or waits to be accepted, is cut off for a reason.
CutInv ==
  \A e \in Ends : \A n \in DOMAIN obj[e] :
    obj[e][n].cut => Finished(obj[e][n]) \/ Ending(e)

\* The queue of accept(), and the reader about to add to it, have streams that
\* nobody has had, each of them once.
QueueInv ==
  \A e \in Ends :
    /\ \A i \in DOMAIN acceptq[e] : obj[e][acceptq[e][i]].app = "queued"
    /\ \A i, j \in DOMAIN acceptq[e] : acceptq[e][i] = acceptq[e][j] => i = j
    /\ task[e].accepting # 0 => /\ obj[e][task[e].accepting].app = "queued"
                                /\ \A i \in DOMAIN acceptq[e] : acceptq[e][i] # task[e].accepting

\* What ends a session, or a stream, is final: the stream p is o after a step.
SessionsEnd ==
  /\ \A e \in Ends : /\ mgr[e].gone => mgr'[e].gone
                     /\ app'[e].held => app[e].held
                     /\ task[e].reader = "done" => task'[e].reader = "done"
                     /\ task[e].writer = "done" => task'[e].writer = "done"
  /\ lost => lost'
Follows(o, p) == Finished(p) => Finished(o)
Uncut(o, p) == Follows(o, p) /\ (o.cut => p.cut \/ Finished(o))

\* A stream that waits to be accepted still does.
Waits(o, p) == p.app = "queued" => o.app = "queued"
StillQueued == \A e \in Ends : \A n \in DOMAIN obj[e] :
                 n \in DOMAIN obj'[e] /\ Waits(obj'[e][n], obj[e][n])

\* Streams are cut off where their session ends, and otherwise when they are finished.
CutsWithCause ==
  \A e \in Ends : \A n \in DOMAIN obj'[e] :
    IF n \in DOMAIN obj[e]
    THEN Follows(obj'[e][n], obj[e][n]) /\ (Uncut(obj'[e][n], obj[e][n]) \/ Ending(e)')
    ELSE ~obj'[e][n].cut

\* An end that has come stays.
LEMMA EndingStays ==
  ASSUME SessionsEnd, NEW e \in Ends, Ending(e)
  PROVE  Ending(e)'
  <1>1. Peer(e) \in Ends
    BY TwoEnds
  <1> QED
    BY <1>1 DEF SessionsEnd, Ending, Stopped

\* Such a step keeps the invariant.
LEMMA CutKept ==
  ASSUME CutInv, SessionsEnd, CutsWithCause
  PROVE  CutInv'
  <1> SUFFICES ASSUME NEW e \in Ends, NEW n \in DOMAIN obj'[e], obj'[e][n].cut
               PROVE  Finished(obj'[e][n]) \/ Ending(e)'
    BY DEF CutInv
  <1>1. n \in DOMAIN obj[e]
    BY DEF CutsWithCause
  <1>2. Follows(obj'[e][n], obj[e][n]) /\ (Uncut(obj'[e][n], obj[e][n]) \/ Ending(e)')
    BY <1>1 DEF CutsWithCause
  <1> QED
    BY <1>1, <1>2, EndingStays DEF CutInv, Follows, Uncut
----------------------------------------------------------------------------
\* A step that leaves the streams alone cuts none off.
LEMMA NoCut ==
  ASSUME obj' = obj
  PROVE  CutsWithCause /\ StillQueued
  BY DEF CutsWithCause, Uncut, Follows, StillQueued, Waits

\* A step that changes one stream, and does not cut it off unless it is finished.
LEMMA OneCut ==
  ASSUME TypeInv, NEW e \in Ends, NEW n \in DOMAIN obj[e], NEW o, Uncut(o, obj[e][n]),
         NEW s, s = [obj[e] EXCEPT ![n] = o], obj' = [obj EXCEPT ![e] = s]
  PROVE  CutsWithCause /\ (Waits(o, obj[e][n]) => StillQueued)
  <1>1. obj \in [Ends -> Seq(Objects)] /\ obj[e] \in Seq(Objects)
    BY At DEF TypeInv, TypeOK
  <1>2. \A d \in Ends : obj'[d] = IF d = e THEN s ELSE obj[d]
    BY <1>1
  <1>3. DOMAIN s = DOMAIN obj[e] /\ \A m \in DOMAIN obj[e] : s[m] = IF m = n THEN o ELSE obj[e][m]
    BY <1>1
  <1>4. CutsWithCause
    BY <1>2, <1>3 DEF CutsWithCause, Uncut, Follows
  <1>5. Waits(o, obj[e][n]) => StillQueued
    BY <1>2, <1>3 DEF StillQueued, Waits
  <1> QED
    BY <1>4, <1>5

\* A step that changes the streams of one end.
LEMMA ManyCut ==
  ASSUME TypeInv, NEW e \in Ends, NEW s, obj' = [obj EXCEPT ![e] = s], DOMAIN s = DOMAIN obj[e],
         \A n \in DOMAIN obj[e] : Follows(s[n], obj[e][n]) /\ (Uncut(s[n], obj[e][n]) \/ Ending(e)')
  PROVE  CutsWithCause /\ ((\A n \in DOMAIN obj[e] : Waits(s[n], obj[e][n])) => StillQueued)
  <1>1. obj \in [Ends -> Seq(Objects)]
    BY DEF TypeInv, TypeOK
  <1>2. \A d \in Ends : obj'[d] = IF d = e THEN s ELSE obj[d]
    BY <1>1
  <1>3. CutsWithCause
    BY <1>2 DEF CutsWithCause, Uncut, Follows
  <1>4. (\A n \in DOMAIN obj[e] : Waits(s[n], obj[e][n])) => StillQueued
    BY <1>2 DEF StillQueued, Waits
  <1> QED
    BY <1>3, <1>4

\* The ends of sessions are final, whatever the step.
LEMMA WriterEndsEnd ==
  ASSUME TypeInv, NEW e \in Ends, WriterEnds(e)
  PROVE  \A d \in Ends : /\ app'[d].held = app[d].held
                         /\ task'[d].reader = task[d].reader
                         /\ task[d].writer = "done" => task'[d].writer = "done"
  <1>1. task \in [Ends -> Tasks] /\ app \in [Ends -> Apps]
    BY DEF TypeInv, TypeOK
  <1>2. task' = [task EXCEPT ![e].writer = "done"] /\ app' = [app EXCEPT ![e].pending = <<>>]
    BY DEF WriterEnds
  <1> QED
    BY <1>1, <1>2 DEF Tasks, Apps

LEMMA SendEnd ==
  ASSUME TypeInv, NEW e \in Ends, NEW f, Send(e, f)
  PROVE  \A d \in Ends : /\ app'[d].held = app[d].held
                         /\ task'[d].reader = task[d].reader
                         /\ task[d].writer = "done" => task'[d].writer = "done"
  <1>1. CASE WriterEnds(e)
    BY <1>1, WriterEndsEnd
  <1>2. CASE ~WriterEnds(e)
    <2>1. task' = task /\ app' = app
      BY <1>2 DEF Send
    <2> QED
      BY <2>1
  <1> QED
    BY <1>1, <1>2

\* A writer that sends or ends does not touch what the reader has in hand.
LEMMA WriterEndsAccepting ==
  ASSUME TypeInv, NEW e \in Ends, WriterEnds(e)
  PROVE  \A d \in Ends : task'[d].accepting = task[d].accepting
  <1>1. task \in [Ends -> Tasks]
    BY DEF TypeInv, TypeOK
  <1> QED
    BY <1>1 DEF WriterEnds, Tasks

LEMMA SendAccepting ==
  ASSUME TypeInv, NEW e \in Ends, NEW f, Send(e, f)
  PROVE  \A d \in Ends : task'[d].accepting = task[d].accepting
  <1>1. WriterEnds(e) \/ task' = task
    BY DEF Send
  <1> QED
    BY <1>1, WriterEndsAccepting

\* A stream that is drained keeps what had finished it.
LEMMA DrainedFollows ==
  ASSUME TypeInv, NEW e \in Ends, NEW b \in BOOLEAN, NEW n \in DOMAIN obj[e],
         NEW x, x = Drained(e, b)[n]
  PROVE  /\ x \in Objects /\ x.app = obj[e][n].app /\ x.dataWriteClosed = obj[e][n].dataWriteClosed
         /\ obj[e][n].sinkClosed => x.sinkClosed
  <1>1. obj[e][n] \in Objects
    BY At
  <1>2. PICK c : c = (obj[e][n].sinkClosed \/ b)
    OBVIOUS
  <1>3. c \in BOOLEAN /\ (obj[e][n].sinkClosed => c)
    BY <1>2
  <1>4. PICK o : o = [obj[e][n] EXCEPT !.cut = TRUE, !.sinkClosed = c]
    OBVIOUS
  <1>5. /\ o \in Objects /\ o.app = obj[e][n].app /\ o.dataWriteClosed = obj[e][n].dataWriteClosed
        /\ o.sinkClosed = c
    BY <1>1, <1>3, <1>4 DEF Objects
  <1>6. x = o \/ x = obj[e][n]
    BY <1>2, <1>4 DEF Drained
  <1> QED
    BY <1>1, <1>3, <1>5, <1>6

LEMMA ReaderEndsEnd ==
  ASSUME TypeInv, NEW e \in Ends, NEW s, ReaderEnds(e, s)
  PROVE  \A d \in Ends : /\ task[d].reader = "done" => task'[d].reader = "done"
                         /\ task'[d].writer = task[d].writer
  <1>1. task \in [Ends -> Tasks]
    BY DEF TypeInv, TypeOK
  <1>2. task' = [task EXCEPT ![e].reader = "done", ![e].accepting = 0]
    BY DEF ReaderEnds
  <1> QED
    BY <1>1, <1>2 DEF Tasks

\* Where nothing joins the queue and no stream in it is touched, it stays in order.
LEMMA QueueKept ==
  ASSUME TypeInv, QueueInv, StillQueued, acceptq' = acceptq,
         \A e \in Ends : task'[e].accepting = task[e].accepting \/ task'[e].accepting = 0
  PROVE  QueueInv'
  <1>1. PlaceInv
    BY DEF TypeInv
  <1> SUFFICES ASSUME NEW e \in Ends
               PROVE  /\ \A i \in DOMAIN acceptq[e] : obj'[e][acceptq[e][i]].app = "queued"
                      /\ \A i, j \in DOMAIN acceptq[e] : acceptq[e][i] = acceptq[e][j] => i = j
                      /\ task'[e].accepting # 0 =>
                           /\ obj'[e][task'[e].accepting].app = "queued"
                           /\ \A i \in DOMAIN acceptq[e] : acceptq[e][i] # task'[e].accepting
    BY DEF QueueInv
  <1>2. \A i \in DOMAIN acceptq[e] : acceptq[e][i] \in DOMAIN obj[e]
    BY <1>1 DEF PlaceInv
  <1>3. task[e].accepting # 0 => task[e].accepting \in DOMAIN obj[e]
    BY <1>1 DEF PlaceInv
  <1> QED
    BY <1>2, <1>3 DEF QueueInv, StillQueued, Waits
----------------------------------------------------------------------------
\* The application's calls on the session.
LEMMA CallsCut ==
  ASSUME TypeInv, QueueInv, NEW e \in Ends,
         CallOpen(e) \/ CancelOpen(e) \/ Close(e) \/ DropSession(e)
  PROVE  SessionsEnd /\ CutsWithCause /\ QueueInv'
  <1>1. /\ obj \in [Ends -> Seq(Objects)] /\ app \in [Ends -> Apps] /\ app[e] \in Apps
        /\ \A n \in DOMAIN obj[e] : obj[e][n] \in Objects
        /\ acceptq \in [Ends -> Seq(Nat)]
    BY At DEF TypeInv, TypeOK
  <1>2. mgr' = mgr /\ task' = task /\ lost' = lost
    BY DEF CallOpen, CancelOpen, Close, DropSession
  <1>3. \A d \in Ends : app'[d].held => app[d].held
    <2>1. CASE CallOpen(e) \/ CancelOpen(e)
      BY <1>1, <2>1 DEF CallOpen, CancelOpen, Apps
    <2>2. CASE Close(e) \/ DropSession(e)
      BY <1>1, <2>2 DEF Close, DropSession, Apps
    <2> QED
      BY <2>1, <2>2
  <1>4. SessionsEnd
    BY <1>2, <1>3 DEF SessionsEnd
  <1>5. CASE CallOpen(e) \/ CancelOpen(e) \/ Close(e)
    <2>1. obj' = obj /\ acceptq' = acceptq
      BY <1>5 DEF CallOpen, CancelOpen, Close
    <2>2. CutsWithCause /\ StillQueued
      BY <2>1, NoCut
    <2>3. QueueInv'
      BY <1>2, <2>1, <2>2, QueueKept
    <2> QED
      BY <1>4, <2>2, <2>3
  <1>6. CASE DropSession(e)
    <2>1. PICK s : s = [n \in DOMAIN obj[e] |->
                         IF \E i \in DOMAIN acceptq[e] : acceptq[e][i] = n
                         THEN [obj[e][n] EXCEPT !.app = "dropped"] ELSE obj[e][n]]
      OBVIOUS
    <2>2. obj' = [obj EXCEPT ![e] = s] /\ DOMAIN s = DOMAIN obj[e]
      BY <1>1, <1>6, <2>1 DEF DropSession
    <2>3. ASSUME NEW n \in DOMAIN obj[e] PROVE Uncut(s[n], obj[e][n])
      <3>1. PICK o : o = [obj[e][n] EXCEPT !.app = "dropped"]
        OBVIOUS
      <3>2. o.app = "dropped"
        BY <1>1, <3>1 DEF Objects
      <3>3. s[n] = o \/ s[n] = obj[e][n]
        BY <2>1, <3>1
      <3> QED
        BY <3>2, <3>3 DEF Uncut, Follows, Finished
    <2>4. CutsWithCause
      BY <2>2, <2>3, ManyCut DEF Uncut
    <2>5. acceptq' = [acceptq EXCEPT ![e] = <<>>]
      BY <1>6 DEF DropSession
    <2>6. DOMAIN acceptq'[e] = {} /\ \A d \in Ends : d # e => acceptq'[d] = acceptq[d] /\ obj'[d] = obj[d]
      BY <1>1, <2>2, <2>5
    <2>7. task[e].accepting # 0 => obj'[e][task[e].accepting] = obj[e][task[e].accepting]
      <3>1. task[e].accepting # 0 => /\ task[e].accepting \in DOMAIN obj[e]
                                     /\ \A i \in DOMAIN acceptq[e] : acceptq[e][i] # task[e].accepting
        BY DEF TypeInv, PlaceInv, QueueInv
      <3>2. obj'[e] = s
        BY <1>1, <2>2
      <3> QED
        BY <2>1, <3>1, <3>2
    <2>8. QueueInv'
      BY <1>2, <2>6, <2>7 DEF QueueInv
    <2> QED
      BY <1>4, <2>4, <2>8
  <1> QED
    BY <1>5, <1>6

\* The application's use of streams.
LEMMA UseCut ==
  ASSUME TypeInv, QueueInv, NEW e \in Ends, NEW n \in DOMAIN obj[e], Write(e, n) \/ DropStream(e, n)
  PROVE  SessionsEnd /\ CutsWithCause /\ QueueInv'
  <1>1. obj \in [Ends -> Seq(Objects)] /\ obj[e][n] \in Objects
    BY At DEF TypeInv, TypeOK
  <1>2. mgr' = mgr /\ task' = task /\ lost' = lost /\ app' = app /\ acceptq' = acceptq
    BY DEF Write, DropStream
  <1>3. SessionsEnd
    BY <1>2 DEF SessionsEnd
  <1>4. CASE Write(e, n)
    <2>1. PICK c, w : c = Append(obj[e][n].out, Data(obj[e][n].id, n, obj[e][n].needsSyn))
                      /\ w = obj[e][n].wrote + 1
      OBVIOUS
    <2>2. PICK o : o = [obj[e][n] EXCEPT !.out = c, !.needsSyn = FALSE, !.wrote = w]
      OBVIOUS
    <2>3. PICK s : s = [obj[e] EXCEPT ![n] = o]
      OBVIOUS
    <2>4. obj' = [obj EXCEPT ![e] = s]
      <3>1. obj' = [obj EXCEPT ![e][n].out = c, ![e][n].needsSyn = FALSE, ![e][n].wrote = w]
        BY <1>4, <2>1 DEF Write
      <3> QED
        BY <1>1, <2>2, <2>3, <3>1 DEF Objects
    <2>5. /\ o.dataWriteClosed = obj[e][n].dataWriteClosed /\ o.sinkClosed = obj[e][n].sinkClosed
          /\ o.cut = obj[e][n].cut /\ o.app = obj[e][n].app
      BY <1>1, <2>2 DEF Objects
    <2>6. Uncut(o, obj[e][n]) /\ Waits(o, obj[e][n])
      BY <2>5 DEF Uncut, Follows, Finished, Waits
    <2>7. CutsWithCause /\ StillQueued
      BY <2>3, <2>4, <2>6, OneCut
    <2> QED
      BY <1>2, <1>3, <2>7, QueueKept
  <1>5. CASE DropStream(e, n)
    <2>1. PICK o, s : o = [obj[e][n] EXCEPT !.app = "dropped"] /\ s = [obj[e] EXCEPT ![n] = o]
      OBVIOUS
    <2>2. obj' = [obj EXCEPT ![e] = s] /\ obj[e][n].app = "held"
      BY <1>1, <1>5, <2>1 DEF DropStream
    <2>3. Uncut(o, obj[e][n]) /\ Waits(o, obj[e][n])
      BY <1>1, <2>1, <2>2 DEF Objects, Uncut, Follows, Finished, Waits
    <2>4. CutsWithCause /\ StillQueued
      BY <2>1, <2>2, <2>3, OneCut
    <2> QED
      BY <1>2, <1>3, <2>4, QueueKept
  <1> QED
    BY <1>4, <1>5

\* accept() takes the first stream of the queue.
LEMMA AcceptCut ==
  ASSUME TypeInv, QueueInv, NEW e \in Ends, Accept(e)
  PROVE  SessionsEnd /\ CutsWithCause /\ QueueInv'
  <1>1. /\ obj \in [Ends -> Seq(Objects)] /\ acceptq \in [Ends -> Seq(Nat)] /\ acceptq[e] \in Seq(Nat)
        /\ PlaceInv
    BY At DEF TypeInv, TypeOK
  <1>2. mgr' = mgr /\ task' = task /\ lost' = lost /\ app' = app /\ acceptq[e] # <<>>
    BY DEF Accept
  <1>3. SessionsEnd
    BY <1>2 DEF SessionsEnd
  <1>4. PICK q, n : q = acceptq[e] /\ n = Head(q)
    OBVIOUS
  <1>5. /\ 1 \in DOMAIN q /\ n = q[1] /\ Tail(q) \in Seq(Nat)
        /\ \A i \in DOMAIN Tail(q) : i \in Nat /\ i # 0 /\ i + 1 \in DOMAIN q /\ Tail(q)[i] = q[i + 1]
    BY <1>1, <1>2, <1>4
  <1>6. n \in DOMAIN obj[e] /\ obj[e][n].app = "queued"
    BY <1>1, <1>4, <1>5 DEF PlaceInv, QueueInv
  <1>7. obj[e][n] \in Objects
    BY <1>6, At
  <1>8. PICK o, s : o = [obj[e][n] EXCEPT !.app = "held"] /\ s = [obj[e] EXCEPT ![n] = o]
    OBVIOUS
  <1>9. obj' = [obj EXCEPT ![e] = s]
    BY <1>1, <1>4, <1>8 DEF Accept
  <1>10. Uncut(o, obj[e][n])
    BY <1>6, <1>7, <1>8 DEF Objects, Uncut, Follows, Finished
  <1>11. CutsWithCause
    BY <1>6, <1>8, <1>9, <1>10, OneCut
  <1>12. /\ \A d \in Ends : d # e => obj'[d] = obj[d] /\ acceptq'[d] = acceptq[d]
         /\ acceptq'[e] = Tail(q)
         /\ \A m \in DOMAIN obj[e] : m # n => obj'[e][m] = obj[e][m]
    <2>1. acceptq' = [acceptq EXCEPT ![e] = Tail(q)]
      BY <1>1, <1>4 DEF Accept
    <2> QED
      BY <1>1, <1>8, <1>9, <2>1
  <1>13. \A i \in DOMAIN Tail(q) : Tail(q)[i] # n /\ Tail(q)[i] \in DOMAIN obj[e]
    BY <1>1, <1>4, <1>5 DEF QueueInv, PlaceInv
  <1>14. \A i, j \in DOMAIN Tail(q) : Tail(q)[i] = Tail(q)[j] => i = j
    <2>1. \A i, j \in DOMAIN q : q[i] = q[j] => i = j
      BY <1>4 DEF QueueInv
    <2> SUFFICES ASSUME NEW i \in DOMAIN Tail(q), NEW j \in DOMAIN Tail(q), Tail(q)[i] = Tail(q)[j]
                 PROVE  i = j
      OBVIOUS
    <2>2. i \in Nat /\ j \in Nat /\ i + 1 \in DOMAIN q /\ j + 1 \in DOMAIN q /\ q[i + 1] = q[j + 1]
      BY <1>5
    <2>3. i + 1 = j + 1
      BY <2>1, <2>2
    <2> QED
      BY <2>2, <2>3
  <1>15. /\ \A i \in DOMAIN Tail(q) : obj'[e][Tail(q)[i]].app = "queued"
         /\ task[e].accepting # 0 => /\ obj'[e][task[e].accepting].app = "queued"
                                     /\ \A i \in DOMAIN Tail(q) : Tail(q)[i] # task[e].accepting
    <2>1. \A i \in DOMAIN Tail(q) : obj[e][Tail(q)[i]].app = "queued"
      BY <1>4, <1>5 DEF QueueInv
    <2>2. task[e].accepting # 0 => /\ task[e].accepting \in DOMAIN obj[e] /\ task[e].accepting # n
                                   /\ obj[e][task[e].accepting].app = "queued"
                                   /\ \A i \in DOMAIN Tail(q) : Tail(q)[i] # task[e].accepting
      BY <1>1, <1>4, <1>5 DEF QueueInv, PlaceInv
    <2> QED
      BY <1>12, <1>13, <2>1, <2>2
  <1>16. PICK r : r = Tail(q)
    OBVIOUS
  <1>17. QueueInv'
    <2> SUFFICES ASSUME NEW d \in Ends
                 PROVE  /\ \A i \in DOMAIN acceptq'[d] : obj'[d][acceptq'[d][i]].app = "queued"
                        /\ \A i, j \in DOMAIN acceptq'[d] : acceptq'[d][i] = acceptq'[d][j] => i = j
                        /\ task[d].accepting # 0 =>
                             /\ obj'[d][task[d].accepting].app = "queued"
                             /\ \A i \in DOMAIN acceptq'[d] : acceptq'[d][i] # task[d].accepting
      BY <1>2 DEF QueueInv
    <2>1. CASE d = e
      <3>1. acceptq'[d] = r
        BY <1>12, <1>16, <2>1
      <3> QED
        BY <1>14, <1>15, <1>16, <2>1, <3>1
    <2>2. CASE d # e
      BY <1>12, <2>2 DEF QueueInv
    <2> QED
      BY <2>1, <2>2
  <1> QED
    BY <1>3, <1>11, <1>17
----------------------------------------------------------------------------
\* The connection is lost, or carries an unknown frame.
LEMMA NetworkCut ==
  ASSUME TypeInv, QueueInv, Network
  PROVE  SessionsEnd /\ CutsWithCause /\ QueueInv'
  <1>1. obj' = obj /\ mgr' = mgr /\ task' = task /\ app' = app /\ acceptq' = acceptq /\ (lost => lost')
    BY DEF Network, Lose, SendUnknown
  <1>2. SessionsEnd
    BY <1>1 DEF SessionsEnd
  <1> QED
    BY <1>1, <1>2, NoCut, QueueKept

\* The end of the writer touches no stream.
LEMMA StopCut ==
  ASSUME TypeInv, QueueInv, NEW e \in Ends, WriterCompletes(e) \/ CancelWriter(e)
  PROVE  SessionsEnd /\ CutsWithCause /\ QueueInv'
  <1>1. obj' = obj /\ mgr' = mgr /\ acceptq' = acceptq /\ lost' = lost /\ WriterEnds(e)
    BY DEF WriterCompletes, CancelWriter
  <1>2. SessionsEnd
    BY <1>1, WriterEndsEnd DEF SessionsEnd
  <1>3. \A d \in Ends : task'[d].accepting = task[d].accepting
    BY <1>1, WriterEndsAccepting
  <1> QED
    BY <1>1, <1>2, <1>3, NoCut, QueueKept

\* A GOAWAY is taken from the queue: the session ends here.  Other frames are sent.
LEMMA SysCut ==
  ASSUME TypeInv, QueueInv, NEW e \in Ends, TakeSys(e)
  PROVE  SessionsEnd /\ CutsWithCause /\ QueueInv'
  <1>1. /\ obj \in [Ends -> Seq(Objects)] /\ mgr \in [Ends -> Managers] /\ mgr[e] \in Managers
        /\ \A n \in DOMAIN obj[e] : obj[e][n] \in Objects
    BY At DEF TypeInv, TypeOK
  <1>2. acceptq' = acceptq /\ lost' = lost
    BY DEF TakeSys
  <1>3. PICK f : Send(e, f)
    BY DEF TakeSys
  <1>4. /\ \A d \in Ends : /\ app'[d].held = app[d].held
                           /\ task'[d].reader = task[d].reader
                           /\ task[d].writer = "done" => task'[d].writer = "done"
        /\ \A d \in Ends : task'[d].accepting = task[d].accepting
    BY <1>3, SendEnd, SendAccepting
  <1>5. CASE obj' = obj /\ mgr' = mgr
    <2>1. SessionsEnd
      BY <1>2, <1>4, <1>5 DEF SessionsEnd
    <2> QED
      BY <1>2, <1>4, <1>5, <2>1, NoCut, QueueKept
  <1>6. CASE ~(obj' = obj /\ mgr' = mgr)
    <2>1. /\ mgr' = [mgr EXCEPT ![e] = [GoneAway(e) EXCEPT !.tasks = {}]]
          /\ obj' = [obj EXCEPT ![e] = [n \in DOMAIN @ |-> [Drained(e, TRUE)[n] EXCEPT !.out = <<>>]]]
      BY <1>6 DEF TakeSys
    <2>2. mgr'[e].gone /\ \A d \in Ends : d # e => mgr'[d] = mgr[d]
      BY <1>1, <2>1 DEF GoneAway, Managers
    <2>3. SessionsEnd
      BY <1>2, <1>4, <2>2 DEF SessionsEnd
    <2>4. PICK c, s : c = <<>> /\ s = [n \in DOMAIN obj[e] |-> [Drained(e, TRUE)[n] EXCEPT !.out = c]]
      OBVIOUS
    <2>5. obj' = [obj EXCEPT ![e] = s] /\ DOMAIN s = DOMAIN obj[e]
      BY <1>1, <2>1, <2>4
    <2>6. ASSUME NEW n \in DOMAIN obj[e] PROVE Follows(s[n], obj[e][n]) /\ Waits(s[n], obj[e][n])
      <3>1. PICK x : x = Drained(e, TRUE)[n]
        OBVIOUS
      <3>2. /\ x \in Objects /\ x.app = obj[e][n].app /\ x.dataWriteClosed = obj[e][n].dataWriteClosed
            /\ obj[e][n].sinkClosed => x.sinkClosed
        BY <3>1, DrainedFollows
      <3>3. s[n] = [x EXCEPT !.out = c]
        BY <2>4, <3>1
      <3>4. /\ s[n].app = x.app /\ s[n].dataWriteClosed = x.dataWriteClosed /\ s[n].sinkClosed = x.sinkClosed
        BY <3>2, <3>3 DEF Objects
      <3> QED
        BY <3>2, <3>4 DEF Follows, Finished, Waits
    <2>7. Ending(e)'
      BY <2>2 DEF Ending
    <2>8. CutsWithCause /\ StillQueued
      BY <2>5, <2>6, <2>7, ManyCut
    <2> QED
      BY <1>2, <1>4, <2>3, <2>8, QueueKept
  <1> QED
    BY <1>5, <1>6

\* A frame of a stream is sent.
LEMMA FrameCut ==
  ASSUME TypeInv, QueueInv, NEW e \in Ends, NEW n \in DOMAIN obj[e], TakeFrame(e, n)
  PROVE  SessionsEnd /\ CutsWithCause /\ QueueInv'
  <1>1. obj \in [Ends -> Seq(Objects)] /\ obj[e][n] \in Objects
    BY At DEF TypeInv, TypeOK
  <1>2. mgr' = mgr /\ acceptq' = acceptq /\ lost' = lost /\ Send(e, Head(obj[e][n].out))
    BY DEF TakeFrame
  <1>3. /\ \A d \in Ends : /\ app'[d].held = app[d].held
                           /\ task'[d].reader = task[d].reader
                           /\ task[d].writer = "done" => task'[d].writer = "done"
        /\ \A d \in Ends : task'[d].accepting = task[d].accepting
    BY <1>2, SendEnd, SendAccepting
  <1>4. SessionsEnd
    BY <1>2, <1>3 DEF SessionsEnd
  <1>5. PICK q, o, s : /\ q = Tail(obj[e][n].out) /\ o = [obj[e][n] EXCEPT !.out = q]
                       /\ s = [obj[e] EXCEPT ![n] = o]
    OBVIOUS
  <1>6. obj' = [obj EXCEPT ![e] = s]
    BY <1>1, <1>5 DEF TakeFrame
  <1>7. Uncut(o, obj[e][n]) /\ Waits(o, obj[e][n])
    BY <1>1, <1>5 DEF Objects, Uncut, Follows, Finished, Waits
  <1>8. CutsWithCause /\ StillQueued
    BY <1>5, <1>6, <1>7, OneCut
  <1> QED
    BY <1>2, <1>3, <1>4, <1>8, QueueKept

\* The handle of a stream is removed from the map.
LEMMA RemoveEnd ==
  ASSUME TypeInv, NEW e \in Ends, NEW n, Remove(e, n)
  PROVE  \A d \in Ends : mgr'[d].gone = mgr[d].gone
  <1>1. mgr \in [Ends -> Managers]
    BY DEF TypeInv, TypeOK
  <1> QED
    BY <1>1 DEF Remove, Managers

\* A stream that was reset is removed.
LEMMA ResetCut ==
  ASSUME TypeInv, QueueInv, NEW e \in Ends, NEW n \in DOMAIN obj[e], TakeReset(e, n)
  PROVE  SessionsEnd /\ CutsWithCause /\ QueueInv'
  <1>1. /\ obj \in [Ends -> Seq(Objects)] /\ obj[e] \in Seq(Objects)
        /\ \A m \in DOMAIN obj[e] : obj[e][m] \in Objects
    BY At DEF TypeInv, TypeOK
  <1>2. /\ task' = task /\ app' = app /\ acceptq' = acceptq /\ lost' = lost /\ Remove(e, n)
        /\ Yielded(e, n)
    BY DEF TakeReset
  <1>3. SessionsEnd
    BY <1>2, RemoveEnd DEF SessionsEnd
  <1>4. PICK h, c : h = Owner(e, n) /\ c = <<>>
    OBVIOUS
  <1>5. h \in DOMAIN obj[e] /\ obj[e][h].sinkClosed
    BY <1>2, <1>4, OwnerOf DEF TakeReset
  <1>6. PICK x, s : /\ x = [obj[e] EXCEPT ![h] = [obj[e][h] EXCEPT !.cut = TRUE]]
                    /\ s = [x EXCEPT ![n] = [x[n] EXCEPT !.out = c]]
    OBVIOUS
  <1>7. obj' = [obj EXCEPT ![e] = s]
    <2>1. obj' = [obj EXCEPT ![e][h].cut = TRUE, ![e][n].out = c]
      BY <1>4 DEF TakeReset
    <2> QED
      BY <1>1, <1>5, <1>6, <2>1
  <1>8. ASSUME NEW m \in DOMAIN obj[e]
        PROVE  /\ x[m] \in Objects /\ x[m].app = obj[e][m].app
               /\ x[m].dataWriteClosed = obj[e][m].dataWriteClosed
               /\ x[m].sinkClosed = obj[e][m].sinkClosed
               /\ x[m].cut => obj[e][m].cut \/ obj[e][m].sinkClosed
    <2>1. PICK o : o = [obj[e][h] EXCEPT !.cut = TRUE]
      OBVIOUS
    <2>2. /\ o \in Objects /\ o.app = obj[e][h].app /\ o.dataWriteClosed = obj[e][h].dataWriteClosed
          /\ o.sinkClosed = obj[e][h].sinkClosed
      BY <1>1, <1>5, <2>1 DEF Objects
    <2>3. x[m] = IF m = h THEN o ELSE obj[e][m]
      BY <1>1, <1>6, <2>1
    <2> QED
      BY <1>1, <1>5, <2>2, <2>3
  <1>9. DOMAIN x = DOMAIN obj[e] /\ DOMAIN s = DOMAIN obj[e]
    BY <1>6
  <1>10. ASSUME NEW m \in DOMAIN obj[e]
         PROVE  Uncut(s[m], obj[e][m]) /\ Waits(s[m], obj[e][m])
    <2>1. PICK o : o = [x[m] EXCEPT !.out = c]
      OBVIOUS
    <2>2. /\ o.app = x[m].app /\ o.dataWriteClosed = x[m].dataWriteClosed
          /\ o.sinkClosed = x[m].sinkClosed /\ o.cut = x[m].cut
      BY <1>8, <2>1 DEF Objects
    <2>3. s[m] = x[m] \/ s[m] = o
      BY <1>6, <1>9, <2>1
    <2>4. /\ s[m].app = x[m].app /\ s[m].dataWriteClosed = x[m].dataWriteClosed
          /\ s[m].sinkClosed = x[m].sinkClosed /\ s[m].cut = x[m].cut
      BY <2>2, <2>3
    <2> QED
      BY <1>8, <2>4 DEF Uncut, Follows, Finished, Waits
  <1>11. CutsWithCause /\ StillQueued
    BY <1>7, <1>9, <1>10, ManyCut DEF Uncut
  <1> QED
    BY <1>2, <1>3, <1>11, QueueKept

\* The task of a dropped stream ends, and the handle removed is that stream's own.
LEMMA EndCut ==
  ASSUME TypeInv, ApartInv, QueueInv, NEW e \in Ends, NEW n \in DOMAIN obj[e], TakeEnd(e, n)
  PROVE  SessionsEnd /\ CutsWithCause /\ QueueInv'
  <1>1. obj \in [Ends -> Seq(Objects)] /\ obj[e] \in Seq(Objects) /\ obj[e][n] \in Objects
    BY At DEF TypeInv, TypeOK
  <1>2. acceptq' = acceptq /\ lost' = lost /\ Remove(e, n) /\ Yielded(e, n) /\ obj[e][n].out = <<>>
    BY DEF TakeEnd
  <1>3. Owner(e, n) = n
    BY <1>2 DEF Yielded, TaskReady, Polling, Owner, ApartInv, HandleInv
  <1>4. obj[e][n].app = "dropped"
    BY <1>2 DEF Yielded, TaskReady
  <1>5. /\ \A d \in Ends : /\ app'[d].held = app[d].held
                           /\ task'[d].reader = task[d].reader
                           /\ task[d].writer = "done" => task'[d].writer = "done"
        /\ \A d \in Ends : task'[d].accepting = task[d].accepting
    <2>1. (task' = task /\ app' = app) \/ \E f : Send(e, f)
      BY DEF TakeEnd
    <2> QED
      BY <2>1, SendEnd, SendAccepting
  <1>6. SessionsEnd
    BY <1>2, <1>5, RemoveEnd DEF SessionsEnd
  <1>7. PICK o, s : /\ o = [obj[e][n] EXCEPT !.cut = TRUE, !.needsFin = FALSE]
                    /\ s = [obj[e] EXCEPT ![n] = o]
    OBVIOUS
  <1>8. obj' = [obj EXCEPT ![e] = s]
    <2>1. obj' = [obj EXCEPT ![e][n].cut = TRUE, ![e][n].needsFin = FALSE]
      BY <1>3 DEF TakeEnd
    <2> QED
      BY <1>1, <1>7, <2>1 DEF Objects
  <1>9. o.app = "dropped"
    BY <1>1, <1>4, <1>7 DEF Objects
  <1>10. Uncut(o, obj[e][n]) /\ Waits(o, obj[e][n])
    BY <1>4, <1>9 DEF Uncut, Follows, Finished, Waits
  <1>11. CutsWithCause /\ StillQueued
    BY <1>7, <1>8, <1>10, OneCut
  <1> QED
    BY <1>2, <1>5, <1>6, <1>11, QueueKept
----------------------------------------------------------------------------
\* A stream is made under an id no stream of this end has: none is cut off.
LEMMA CreateCut ==
  ASSUME TypeInv, ApartInv, NEW e \in Ends, NEW id \in Ids, NEW local \in BOOLEAN,
         NEW holder \in {"queued", "held", "dropped"},
         \A k \in DOMAIN obj[e] : obj[e][k].id # id,
         CreateStream(e, id, local, holder)
  PROVE  /\ CutsWithCause /\ StillQueued
         /\ \A d \in Ends : mgr'[d].gone = mgr[d].gone
         /\ obj'[e][Len(obj[e]) + 1].app = holder
         /\ \A d \in Ends : d # e => obj'[d] = obj[d]
         /\ \A m \in DOMAIN obj[e] : m \in DOMAIN obj'[e] /\ obj'[e][m] = obj[e][m]
  <1>1. /\ obj \in [Ends -> Seq(Objects)] /\ mgr \in [Ends -> Managers] /\ MgrOK
        /\ obj[e] \in Seq(Objects) /\ Len(obj[e]) \in Nat /\ DOMAIN obj[e] = 1..Len(obj[e])
    BY At, Parts DEF ObjOK, MgrOK
  <1>2. mgr[e].streams[id] = 0
    BY <1>1 DEF MgrOK, ApartInv, HandleInv
  <1>3. PICK n, o, now, s :
          /\ n = Len(obj[e]) + 1 /\ o = NewObject(id, local, holder, task[e].reader = "done")
          /\ now = [m \in DOMAIN obj[e] |->
                      IF m = mgr[e].streams[id] THEN [obj[e][m] EXCEPT !.cut = TRUE] ELSE obj[e][m]]
          /\ s = Append(now, o)
    OBVIOUS
  <1>4. obj' = [obj EXCEPT ![e] = s]
    BY <1>3 DEF CreateStream
  <1>5. now = obj[e]
    <2>1. \A m \in DOMAIN obj[e] : m # 0
      BY <1>1
    <2>2. now = [m \in DOMAIN obj[e] |-> obj[e][m]]
      BY <1>2, <1>3, <2>1
    <2> QED
      BY <1>1, <2>2
  <1>6. s = Append(obj[e], o)
    BY <1>3, <1>5
  <1>7. /\ DOMAIN s = 1..n /\ s[n] = o /\ \A m \in DOMAIN obj[e] : m \in DOMAIN s /\ s[m] = obj[e][m]
    <2>1. PICK late : late = (task[e].reader = "done")
      OBVIOUS
    <2>2. late \in BOOLEAN /\ o = NewObject(id, local, holder, late)
      BY <1>3, <2>1
    <2>3. o \in Objects
      BY <2>2, NewType
    <2>4. PICK q : q = obj[e]
      OBVIOUS
    <2>5. /\ q \in Seq(Objects) /\ s = Append(q, o) /\ n = Len(q) + 1
      BY <1>1, <1>3, <1>6, <2>4
    <2>6. DOMAIN s = 1..n /\ s[n] = o /\ \A m \in DOMAIN q : m \in DOMAIN s /\ s[m] = q[m]
      BY <2>3, <2>5
    <2> QED
      BY <2>4, <2>6
  <1>8. obj'[e] = s /\ \A d \in Ends : d # e => obj'[d] = obj[d]
    BY <1>1, <1>4
  <1>9. o.app = holder /\ ~o.cut
    BY <1>3 DEF NewObject
  <1>10. CutsWithCause
    <2> SUFFICES ASSUME NEW d \in Ends, NEW m \in DOMAIN obj'[d]
                 PROVE  IF m \in DOMAIN obj[d]
                        THEN Follows(obj'[d][m], obj[d][m]) /\ (Uncut(obj'[d][m], obj[d][m]) \/ Ending(d)')
                        ELSE ~obj'[d][m].cut
      BY DEF CutsWithCause
    <2>1. CASE m \in DOMAIN obj[d]
      <3>1. obj'[d][m] = obj[d][m]
        BY <1>7, <1>8, <2>1
      <3> QED
        BY <2>1, <3>1 DEF Follows, Uncut
    <2>2. CASE m \notin DOMAIN obj[d]
      <3>1. d = e /\ m = n
        BY <1>1, <1>3, <1>7, <1>8, <2>2
      <3> QED
        BY <1>7, <1>8, <1>9, <2>2, <3>1
    <2> QED
      BY <2>1, <2>2
  <1>11. StillQueued
    BY <1>7, <1>8 DEF StillQueued, Waits
  <1>12. \A d \in Ends : mgr'[d].gone = mgr[d].gone
    <2>1. PICK t, l, r : mgr' = [mgr EXCEPT ![e].streams[id] = n, ![e].tasks = t,
                                            ![e].lastLocal = l, ![e].lastRemote = r]
      BY <1>3 DEF CreateStream
    <2> QED
      BY <1>1, <2>1 DEF Managers
  <1> QED
    BY <1>3, <1>7, <1>8, <1>9, <1>10, <1>11, <1>12

\* A request for a stream is answered.
LEMMA AnswerCut ==
  ASSUME EnoughIds, TypeInv, ApartInv, QueueInv, NEW e \in Ends, AnswerOpen(e)
  PROVE  SessionsEnd /\ CutsWithCause /\ QueueInv'
  <1>1. /\ task' = task /\ acceptq' = acceptq /\ lost' = lost /\ app[e].pending # <<>>
        /\ app' = [app EXCEPT ![e].pending = Tail(@)]
    BY DEF AnswerOpen
  <1>2. \A d \in Ends : app'[d].held = app[d].held
    <2>1. app \in [Ends -> Apps]
      BY DEF TypeInv, TypeOK
    <2> QED
      BY <1>1, <2>1 DEF Apps
  <1>3. CASE AtLimit(e)
    <2>1. obj' = obj /\ mgr' = mgr
      BY <1>3 DEF AnswerOpen
    <2>2. SessionsEnd
      BY <1>1, <1>2, <2>1 DEF SessionsEnd
    <2> QED
      BY <1>1, <2>1, <2>2, NoCut, QueueKept
  <1>4. CASE ~AtLimit(e)
    <2>1. PICK holder \in {"held", "dropped"} : CreateStream(e, NextId(e), TRUE, holder)
      BY <1>4 DEF AnswerOpen
    <2>2. Len(app[e].pending) > 0
      <3>1. app[e].pending \in Seq(BOOLEAN)
        BY At DEF Apps
      <3> QED
        BY <1>1, <3>1
    <2>3. NextId(e) \in Ids /\ \A k \in DOMAIN obj[e] : obj[e][k].id # NextId(e)
      BY <2>2, NextIdType, NextIdFresh DEF ApartInv
    <2>4. CutsWithCause /\ StillQueued /\ \A d \in Ends : mgr'[d].gone = mgr[d].gone
      BY <2>1, <2>3, CreateCut
    <2>5. SessionsEnd
      BY <1>1, <1>2, <2>4 DEF SessionsEnd
    <2> QED
      BY <1>1, <2>4, <2>5, QueueKept
  <1> QED
    BY <1>3, <1>4

\* The stream a SYN makes is not there yet.
LEMMA SynIsNew ==
  ASSUME TypeInv, ApartInv, NEW e \in Ends, Reading(e, "data"), Arriving(e).syn
  PROVE  Arriving(e).id \in Ids /\ \A k \in DOMAIN obj[e] : obj[e][k].id # Arriving(e).id
  <1>1. PICK p, f : p = Peer(e) /\ f = wire[p][1]
    OBVIOUS
  <1>2. p \in Ends /\ Peer(p) = e
    BY <1>1, TwoEnds
  <1>3. Arriving(e) = f /\ f.typ = "data" /\ Genuine(p, f) /\ f.id \in Ids /\ 1 \in DOMAIN wire[p]
    BY <1>1, ArrivingIs
  <1>4. f.src \in DOMAIN obj[p] /\ f.id = obj[p][f.src].id
    BY <1>3 DEF Genuine
  <1>5. Carried(p, f.src)
    BY <1>1, <1>3 DEF Carried
  <1>6. ~Arrived(p, f.src)
    BY <1>2, <1>4, <1>5 DEF ApartInv, SynInv
  <1> QED
    BY <1>2, <1>3, <1>4, <1>6 DEF Arrived

\* A SYN makes a stream, which the reader then queues.
LEMMA SynCut ==
  ASSUME TypeInv, ApartInv, QueueInv, NEW e \in Ends, ReadSyn(e)
  PROVE  SessionsEnd /\ CutsWithCause /\ QueueInv'
  <1>1. /\ Reading(e, "data") /\ Arriving(e).syn /\ app' = app /\ acceptq' = acceptq /\ lost' = lost
        /\ CreateStream(e, Arriving(e).id, FALSE, "queued")
        /\ task' = [task EXCEPT ![e].accepting = Len(obj[e]) + 1]
    BY DEF ReadSyn
  <1>2. Arriving(e).id \in Ids /\ \A k \in DOMAIN obj[e] : obj[e][k].id # Arriving(e).id
    BY <1>1, SynIsNew
  <1>3. PICK n : n = Len(obj[e]) + 1
    OBVIOUS
  <1>4. /\ CutsWithCause /\ StillQueued
        /\ \A d \in Ends : mgr'[d].gone = mgr[d].gone
        /\ obj'[e][n].app = "queued"
    BY <1>1, <1>2, <1>3, CreateCut
  <1>5. /\ \A d \in Ends : task'[d].reader = task[d].reader /\ task'[d].writer = task[d].writer
        /\ task'[e].accepting = n /\ \A d \in Ends : d # e => task'[d].accepting = task[d].accepting
    <2>1. task \in [Ends -> Tasks]
      BY DEF TypeInv, TypeOK
    <2> QED
      BY <1>1, <1>3, <2>1 DEF Tasks
  <1>6. SessionsEnd
    BY <1>1, <1>4, <1>5 DEF SessionsEnd
  <1>7. \A d \in Ends : \A i \in DOMAIN acceptq[d] : acceptq[d][i] \in DOMAIN obj[d]
    BY DEF TypeInv, PlaceInv
  <1>8. n \notin DOMAIN obj[e]
    BY <1>3, At
  <1>9. \A d \in Ends : task[d].accepting # 0 => task[d].accepting \in DOMAIN obj[d]
    BY DEF TypeInv, PlaceInv
  <1>10. QueueInv'
    <2> SUFFICES ASSUME NEW d \in Ends
                 PROVE  /\ \A i \in DOMAIN acceptq[d] : obj'[d][acceptq[d][i]].app = "queued"
                        /\ \A i, j \in DOMAIN acceptq[d] : acceptq[d][i] = acceptq[d][j] => i = j
                        /\ task'[d].accepting # 0 =>
                             /\ obj'[d][task'[d].accepting].app = "queued"
                             /\ \A i \in DOMAIN acceptq[d] : acceptq[d][i] # task'[d].accepting
      BY <1>1 DEF QueueInv
    <2>1. \A i \in DOMAIN acceptq[d] : obj'[d][acceptq[d][i]].app = "queued"
      BY <1>4, <1>7 DEF QueueInv, StillQueued, Waits
    <2>2. CASE d = e
      BY <1>4, <1>5, <1>7, <1>8, <2>1, <2>2 DEF QueueInv
    <2>3. CASE d # e
      <3>1. task'[d].accepting = task[d].accepting
        BY <1>5, <2>3
      <3> QED
        BY <1>4, <1>9, <2>1, <3>1 DEF QueueInv, StillQueued, Waits
    <2> QED
      BY <2>2, <2>3
  <1> QED
    BY <1>4, <1>6, <1>10

\* A frame for one stream: what it does is to finish it.
LEMMA DataCut ==
  ASSUME TypeInv, QueueInv, NEW e \in Ends, ReadData(e) \/ IgnoreFin(e) \/ RefuseData(e) \/ ReadRst(e)
  PROVE  SessionsEnd /\ CutsWithCause /\ QueueInv'
  <1>1. /\ mgr' = mgr /\ task' = task /\ app' = app /\ acceptq' = acceptq /\ lost' = lost
        /\ Reading(e, "data") \/ Reading(e, "rst")
    BY DEF ReadData, IgnoreFin, RefuseData, ReadRst
  <1>2. SessionsEnd
    BY <1>1 DEF SessionsEnd
  <1>3. obj \in [Ends -> Seq(Objects)] /\ \A m \in DOMAIN obj[e] : obj[e][m] \in Objects
    BY At DEF TypeInv, TypeOK
  <1>4. PICK n, f : f = Arriving(e) /\ n = mgr[e].streams[f.id]
    OBVIOUS
  <1>5. n # 0 => n \in DOMAIN obj[e]
    BY <1>1, <1>4, ArrivingIs
  <1>6. CASE obj' = obj
    BY <1>1, <1>2, <1>6, NoCut, QueueKept
  <1>7. CASE n # 0 /\ obj' # obj
    <2>1. obj[e][n] \in Objects
      BY <1>3, <1>5, <1>7
    <2>2. \E o : /\ obj' = [obj EXCEPT ![e] = [obj[e] EXCEPT ![n] = o]]
                 /\ Uncut(o, obj[e][n]) /\ Waits(o, obj[e][n])
      <3>1. CASE ReadData(e)
        <4>1. PICK c, b : c = obj[e][n].from \cup {f.src} /\ b = (obj[e][n].dataWriteClosed \/ f.fin)
          OBVIOUS
        <4>2. obj' = [obj EXCEPT ![e][n].from = c, ![e][n].dataWriteClosed = b]
          BY <1>4, <3>1, <4>1 DEF ReadData
        <4>3. PICK o : o = [obj[e][n] EXCEPT !.from = c, !.dataWriteClosed = b]
          OBVIOUS
        <4>4. obj' = [obj EXCEPT ![e] = [obj[e] EXCEPT ![n] = o]]
          BY <1>3, <1>5, <1>7, <2>1, <4>2, <4>3 DEF Objects
        <4>5. o.cut = obj[e][n].cut /\ o.app = obj[e][n].app /\ o.sinkClosed = obj[e][n].sinkClosed
              /\ o.dataWriteClosed = b
          BY <2>1, <4>3 DEF Objects
        <4> QED
          BY <4>1, <4>4, <4>5 DEF Uncut, Follows, Finished, Waits
      <3>2. CASE IgnoreFin(e)
        <4>1. obj' = [obj EXCEPT ![e][n].dataWriteClosed = TRUE]
          BY <1>4, <1>7, <3>2 DEF IgnoreFin
        <4>2. PICK o : o = [obj[e][n] EXCEPT !.dataWriteClosed = TRUE]
          OBVIOUS
        <4>3. obj' = [obj EXCEPT ![e] = [obj[e] EXCEPT ![n] = o]]
          BY <1>3, <1>5, <1>7, <4>1, <4>2
        <4>4. o.dataWriteClosed /\ o.app = obj[e][n].app
          BY <2>1, <4>2 DEF Objects
        <4> QED
          BY <4>3, <4>4 DEF Uncut, Follows, Finished, Waits
      <3>3. CASE RefuseData(e) \/ ReadRst(e)
        <4>1. obj' = [obj EXCEPT ![e][n].dataWriteClosed = TRUE, ![e][n].sinkClosed = TRUE,
                                 ![e][n].needsFin = FALSE]
          BY <1>4, <1>7, <3>3 DEF RefuseData, ReadRst
        <4>2. PICK o : o = [obj[e][n] EXCEPT !.dataWriteClosed = TRUE, !.sinkClosed = TRUE,
                                             !.needsFin = FALSE]
          OBVIOUS
        <4>3. obj' = [obj EXCEPT ![e] = [obj[e] EXCEPT ![n] = o]]
          BY <1>3, <1>5, <1>7, <2>1, <4>1, <4>2 DEF Objects
        <4>4. o.dataWriteClosed /\ o.app = obj[e][n].app
          BY <2>1, <4>2 DEF Objects
        <4> QED
          BY <4>3, <4>4 DEF Uncut, Follows, Finished, Waits
      <3> QED
        BY <3>1, <3>2, <3>3
    <2>3. CutsWithCause /\ StillQueued
      BY <1>5, <1>7, <2>2, OneCut
    <2> QED
      BY <1>1, <1>2, <2>3, QueueKept
  <1>8. CASE n = 0
    BY <1>4, <1>6, <1>8 DEF ReadData, IgnoreFin, RefuseData, ReadRst, Takes
  <1> QED
    BY <1>6, <1>7, <1>8

----------------------------------------------------------------------------
\* Closing the senders cuts streams off and does nothing else.
LEMMA SendersFollow ==
  ASSUME TypeInv, NEW e \in Ends, NEW s, s = SendersClosed(e)
  PROVE  /\ DOMAIN s = DOMAIN obj[e]
         /\ \A n \in DOMAIN obj[e] : s[n] \in Objects /\ Follows(s[n], obj[e][n]) /\ Waits(s[n], obj[e][n])
  <1>1. \A n \in DOMAIN obj[e] : obj[e][n] \in Objects
    BY At
  <1>2. ASSUME NEW n \in DOMAIN obj[e]
        PROVE  s[n] \in Objects /\ Follows(s[n], obj[e][n]) /\ Waits(s[n], obj[e][n])
    <2>1. PICK o : o = [obj[e][n] EXCEPT !.cut = TRUE]
      OBVIOUS
    <2>2. /\ o \in Objects /\ o.app = obj[e][n].app /\ o.dataWriteClosed = obj[e][n].dataWriteClosed
          /\ o.sinkClosed = obj[e][n].sinkClosed
      BY <1>1, <2>1 DEF Objects
    <2>3. s[n] = o \/ s[n] = obj[e][n]
      BY <2>1 DEF SendersClosed
    <2> QED
      BY <1>1, <2>2, <2>3 DEF Follows, Finished, Waits
  <1>3. DOMAIN s = DOMAIN obj[e]
    BY DEF SendersClosed
  <1> QED
    BY <1>2, <1>3

\* What the end of a reader does to the tasks.
LEMMA ReaderEndsAccepting ==
  ASSUME TypeInv, NEW e \in Ends, NEW s, ReaderEnds(e, s)
  PROVE  task'[e].accepting = 0 /\ \A d \in Ends : d # e => task'[d].accepting = task[d].accepting
  <1>1. task \in [Ends -> Tasks]
    BY DEF TypeInv, TypeOK
  <1> QED
    BY <1>1 DEF ReaderEnds, Tasks

\* The reader drops the stream it was about to queue: the queue does not have it.
LEMMA QueueLess ==
  ASSUME TypeInv, QueueInv, NEW e \in Ends, acceptq' = acceptq, task'[e].accepting = 0,
         \A d \in Ends : d # e => task'[d].accepting = task[d].accepting /\ obj'[d] = obj[d],
         \A m \in DOMAIN obj[e] : m # task[e].accepting =>
           m \in DOMAIN obj'[e] /\ Waits(obj'[e][m], obj[e][m]),
         task[e].accepting # 0
  PROVE  QueueInv'
  <1> SUFFICES ASSUME NEW d \in Ends
               PROVE  /\ \A i \in DOMAIN acceptq[d] : obj'[d][acceptq[d][i]].app = "queued"
                      /\ \A i, j \in DOMAIN acceptq[d] : acceptq[d][i] = acceptq[d][j] => i = j
                      /\ task'[d].accepting # 0 =>
                           /\ obj'[d][task'[d].accepting].app = "queued"
                           /\ \A i \in DOMAIN acceptq[d] : acceptq[d][i] # task'[d].accepting
    BY DEF QueueInv
  <1>1. \A i \in DOMAIN acceptq[d] : acceptq[d][i] \in DOMAIN obj[d]
    BY DEF TypeInv, PlaceInv
  <1>2. CASE d = e
    BY <1>1, <1>2 DEF QueueInv, Waits
  <1>3. CASE d # e
    BY <1>3 DEF QueueInv
  <1> QED
    BY <1>2, <1>3

\* A stream is queued; where nobody accepts any more, the reader ends.
LEMMA QueueCut ==
  ASSUME TypeInv, QueueInv, NEW e \in Ends, QueueAccept(e)
  PROVE  SessionsEnd /\ CutsWithCause /\ QueueInv'
  <1>1. mgr' = mgr /\ app' = app /\ lost' = lost /\ task[e].accepting # 0
    BY DEF QueueAccept
  <1>2. /\ obj \in [Ends -> Seq(Objects)] /\ task \in [Ends -> Tasks] /\ acceptq \in [Ends -> Seq(Nat)]
        /\ acceptq[e] \in Seq(Nat)
    BY At DEF TypeInv, TypeOK
  <1>3. PICK n : n = task[e].accepting
    OBVIOUS
  <1>4. n \in DOMAIN obj[e] /\ n \in Nat
    BY <1>1, <1>3, At DEF TypeInv, PlaceInv
  <1>5. CASE app[e].held
    <2>1. /\ obj' = obj /\ acceptq' = [acceptq EXCEPT ![e] = Append(@, n)]
          /\ task' = [task EXCEPT ![e].accepting = 0]
      BY <1>3, <1>5 DEF QueueAccept
    <2>2. /\ \A d \in Ends : task'[d].reader = task[d].reader /\ task'[d].writer = task[d].writer
          /\ task'[e].accepting = 0 /\ \A d \in Ends : d # e => task'[d].accepting = task[d].accepting
      BY <1>2, <2>1 DEF Tasks
    <2>3. SessionsEnd
      BY <1>1, <2>2 DEF SessionsEnd
    <2>4. PICK q, r : q = acceptq[e] /\ r = Append(q, n)
      OBVIOUS
    <2>5. /\ DOMAIN r = DOMAIN q \cup {Len(q) + 1} /\ Len(q) + 1 \notin DOMAIN q
          /\ r[Len(q) + 1] = n /\ \A i \in DOMAIN q : r[i] = q[i]
      BY <1>2, <1>4, <2>4
    <2>6. acceptq'[e] = r /\ \A d \in Ends : d # e => acceptq'[d] = acceptq[d]
      BY <1>2, <2>1, <2>4
    <2>7. \A i \in DOMAIN q : obj[e][q[i]].app = "queued" /\ q[i] # n
      BY <1>1, <1>3, <2>4 DEF QueueInv
    <2>8. \A i \in DOMAIN r : obj[e][r[i]].app = "queued"
      BY <1>1, <1>3, <2>5, <2>7 DEF QueueInv
    <2>9. \A i, j \in DOMAIN r : r[i] = r[j] => i = j
      <3>1. \A i, j \in DOMAIN q : q[i] = q[j] => i = j
        BY <2>4 DEF QueueInv
      <3> QED
        BY <2>5, <2>7, <3>1
    <2>10. QueueInv'
      <3> SUFFICES ASSUME NEW d \in Ends
                   PROVE  /\ \A i \in DOMAIN acceptq'[d] : obj[d][acceptq'[d][i]].app = "queued"
                          /\ \A i, j \in DOMAIN acceptq'[d] : acceptq'[d][i] = acceptq'[d][j] => i = j
                          /\ task'[d].accepting # 0 =>
                               /\ obj[d][task'[d].accepting].app = "queued"
                               /\ \A i \in DOMAIN acceptq'[d] : acceptq'[d][i] # task'[d].accepting
        BY <2>1 DEF QueueInv
      <3>1. CASE d = e
        BY <2>2, <2>6, <2>8, <2>9, <3>1
      <3>2. CASE d # e
        BY <2>2, <2>6, <3>2 DEF QueueInv
      <3> QED
        BY <3>1, <3>2
    <2> QED
      BY <2>1, <2>3, <2>10, NoCut
  <1>6. CASE ~app[e].held
    <2>1. PICK x, s : x = SendersClosed(e) /\ s = [x EXCEPT ![n].app = "dropped"]
      OBVIOUS
    <2>2. ReaderEnds(e, s) /\ acceptq' = acceptq
      <3>1. /\ ReaderEnds(e, [SendersClosed(e) EXCEPT ![task[e].accepting].app = "dropped"])
            /\ acceptq' = acceptq
        BY <1>6 DEF QueueAccept
      <3> QED
        BY <1>3, <2>1, <3>1
    <2>3. SessionsEnd
      BY <1>1, <2>2, ReaderEndsEnd DEF SessionsEnd
    <2>4. /\ DOMAIN x = DOMAIN obj[e]
          /\ \A m \in DOMAIN obj[e] : x[m] \in Objects /\ Follows(x[m], obj[e][m]) /\ Waits(x[m], obj[e][m])
      BY <2>1, SendersFollow
    <2>5. s[n].app = "dropped" /\ DOMAIN s = DOMAIN obj[e]
      <3>1. PICK o : o = [x[n] EXCEPT !.app = "dropped"]
        OBVIOUS
      <3>2. o.app = "dropped"
        BY <1>4, <2>4, <3>1 DEF Objects
      <3> QED
        BY <1>4, <2>1, <2>4, <3>1, <3>2
    <2>6. \A m \in DOMAIN obj[e] : m # n => s[m] = x[m]
      BY <2>1, <2>4
    <2>7. \A m \in DOMAIN obj[e] : Follows(s[m], obj[e][m])
      <3>1. Follows(s[n], obj[e][n])
        BY <2>5 DEF Follows, Finished
      <3> QED
        BY <2>4, <2>6, <3>1
    <2>8. Ending(e)'
      BY <1>1, <1>6 DEF Ending
    <2>9. obj' = [obj EXCEPT ![e] = s]
      BY <2>2 DEF ReaderEnds
    <2>10. CutsWithCause
      BY <2>5, <2>7, <2>8, <2>9, ManyCut
    <2>11. obj'[e] = s /\ \A d \in Ends : d # e => obj'[d] = obj[d]
      BY <1>2, <2>9
    <2>12. QueueInv'
      BY <1>1, <1>3, <2>2, <2>4, <2>5, <2>6, <2>11, ReaderEndsAccepting, QueueLess
    <2> QED
      BY <2>3, <2>10, <2>12
  <1> QED
    BY <1>5, <1>6

\* A GOAWAY arrives: the session is over here.
LEMMA GoAwayCut ==
  ASSUME TypeInv, QueueInv, NEW e \in Ends, ReadGoAway(e)
  PROVE  SessionsEnd /\ CutsWithCause /\ QueueInv'
  <1>1. /\ Reading(e, "goaway") /\ app' = app /\ acceptq' = acceptq /\ lost' = lost
        /\ mgr' = [mgr EXCEPT ![e] = [GoneAway(e) EXCEPT !.terminated = TRUE]]
    BY DEF ReadGoAway
  <1>2. PICK b, s : b = Arriving(e).fatal /\ s = Drained(e, b)
    OBVIOUS
  <1>3. ReaderEnds(e, s)
    BY <1>2 DEF ReadGoAway
  <1>4. b \in BOOLEAN
    BY <1>1, <1>2, ArrivingIs DEF Frames
  <1>5. mgr'[e].gone /\ \A d \in Ends : d # e => mgr'[d] = mgr[d]
    <2>1. mgr \in [Ends -> Managers] /\ mgr[e] \in Managers
      BY DEF TypeInv, TypeOK
    <2> QED
      BY <1>1, <2>1 DEF GoneAway, Managers
  <1>6. SessionsEnd
    BY <1>1, <1>3, <1>5, ReaderEndsEnd DEF SessionsEnd
  <1>7. ASSUME NEW n \in DOMAIN obj[e] PROVE Follows(s[n], obj[e][n]) /\ Waits(s[n], obj[e][n])
    <2>1. PICK x : x = Drained(e, b)[n]
      OBVIOUS
    <2>2. /\ x.app = obj[e][n].app /\ x.dataWriteClosed = obj[e][n].dataWriteClosed
          /\ obj[e][n].sinkClosed => x.sinkClosed
      BY <1>4, <2>1, DrainedFollows
    <2> QED
      BY <1>2, <2>1, <2>2 DEF Follows, Finished, Waits
  <1>8. DOMAIN s = DOMAIN obj[e] /\ obj' = [obj EXCEPT ![e] = s]
    BY <1>2, <1>3 DEF Drained, ReaderEnds
  <1>9. Ending(e)'
    BY <1>5 DEF Ending
  <1>10. CutsWithCause /\ StillQueued
    BY <1>7, <1>8, <1>9, ManyCut
  <1>11. \A d \in Ends : task'[d].accepting = task[d].accepting \/ task'[d].accepting = 0
    BY <1>3, ReaderEndsAccepting
  <1> QED
    BY <1>1, <1>6, <1>10, <1>11, QueueKept

\* The connection has ended: the reader closes the senders.
LEMMA ReadEndCut ==
  ASSUME TypeInv, QueueInv, NEW e \in Ends, ReadEnd(e)
  PROVE  SessionsEnd /\ CutsWithCause /\ QueueInv'
  <1>1. /\ mgr' = mgr /\ app' = app /\ acceptq' = acceptq /\ lost' = lost
        /\ lost \/ Stopped(Peer(e))
    BY DEF ReadEnd
  <1>2. PICK s : s = SendersClosed(e)
    OBVIOUS
  <1>3. ReaderEnds(e, s)
    BY <1>2 DEF ReadEnd
  <1>4. SessionsEnd
    BY <1>1, <1>3, ReaderEndsEnd DEF SessionsEnd
  <1>5. /\ DOMAIN s = DOMAIN obj[e]
        /\ \A n \in DOMAIN obj[e] : Follows(s[n], obj[e][n]) /\ Waits(s[n], obj[e][n])
    BY <1>2, SendersFollow
  <1>6. Ending(e)'
    <2>1. Ending(e)
      BY <1>1 DEF Ending
    <2> QED
      BY <1>4, <2>1, EndingStays
  <1>7. obj' = [obj EXCEPT ![e] = s]
    BY <1>3 DEF ReaderEnds
  <1>8. CutsWithCause /\ StillQueued
    BY <1>5, <1>6, <1>7, ManyCut
  <1>9. \A d \in Ends : task'[d].accepting = task[d].accepting \/ task'[d].accepting = 0
    BY <1>3, ReaderEndsAccepting
  <1> QED
    BY <1>1, <1>4, <1>8, <1>9, QueueKept

\* The reader is cancelled, with the stream it was about to queue.
LEMMA CancelCut ==
  ASSUME TypeInv, QueueInv, NEW e \in Ends, CancelReader(e)
  PROVE  SessionsEnd /\ CutsWithCause /\ QueueInv'
  <1>1. mgr' = mgr /\ app' = app /\ acceptq' = acceptq /\ lost' = lost
    BY DEF CancelReader
  <1>2. PICK s : s = IF task[e].accepting = 0 THEN obj[e]
                     ELSE [obj[e] EXCEPT ![task[e].accepting].app = "dropped"]
    OBVIOUS
  <1>3. ReaderEnds(e, s)
    BY <1>2 DEF CancelReader
  <1>4. SessionsEnd
    BY <1>1, <1>3, ReaderEndsEnd DEF SessionsEnd
  <1>5. obj' = [obj EXCEPT ![e] = s] /\ obj \in [Ends -> Seq(Objects)]
    BY <1>3 DEF ReaderEnds, TypeInv, TypeOK
  <1>6. CASE task[e].accepting = 0
    <2>1. obj' = obj
      BY <1>2, <1>5, <1>6
    <2>2. \A d \in Ends : task'[d].accepting = task[d].accepting \/ task'[d].accepting = 0
      BY <1>3, ReaderEndsAccepting
    <2> QED
      BY <1>1, <1>4, <2>1, <2>2, NoCut, QueueKept
  <1>7. CASE task[e].accepting # 0
    <2>1. PICK n, o : n = task[e].accepting /\ o = [obj[e][n] EXCEPT !.app = "dropped"]
      OBVIOUS
    <2>2. n \in DOMAIN obj[e] /\ obj[e][n] \in Objects
      BY <1>7, <2>1, At DEF TypeInv, PlaceInv
    <2>3. s = [obj[e] EXCEPT ![n] = o]
      BY <1>2, <1>7, <2>1
    <2>4. Uncut(o, obj[e][n])
      BY <2>1, <2>2 DEF Objects, Uncut, Follows, Finished
    <2>5. CutsWithCause
      BY <1>5, <2>2, <2>3, <2>4, OneCut
    <2>6. /\ \A d \in Ends : d # e => obj'[d] = obj[d]
          /\ \A m \in DOMAIN obj[e] : m # n => m \in DOMAIN obj'[e] /\ obj'[e][m] = obj[e][m]
      BY <1>5, <2>3
    <2>7. QueueInv'
      BY <1>1, <1>3, <1>7, <2>1, <2>6, ReaderEndsAccepting, QueueLess DEF Waits
    <2> QED
      BY <1>4, <2>5, <2>7
  <1> QED
    BY <1>6, <1>7

\* Every step but that of a reader at the limit.
LEMMA NextCut ==
  EnoughIds /\ TypeInv /\ ApartInv /\ LimitNotMet /\ CutInv /\ QueueInv /\ [Next]_vars
    => (CutInv /\ QueueInv)'
  <1> SUFFICES ASSUME EnoughIds, TypeInv, ApartInv, LimitNotMet, CutInv, QueueInv, [Next]_vars
               PROVE  SessionsEnd /\ CutsWithCause /\ QueueInv'
    BY CutKept
  <1>1. CASE Network
    BY <1>1, NetworkCut
  <1>2. ASSUME NEW e \in Ends, AppStep(e) \/ Accept(e) PROVE SessionsEnd /\ CutsWithCause /\ QueueInv'
    BY <1>2, CallsCut, UseCut, AcceptCut DEF AppStep
  <1>3. ASSUME NEW e \in Ends, WriterTask(e) PROVE SessionsEnd /\ CutsWithCause /\ QueueInv'
    BY <1>3, SysCut, AnswerCut, StopCut, ResetCut, FrameCut, EndCut DEF WriterTask
  <1>4. ASSUME NEW e \in Ends, ReaderTask(e) PROVE SessionsEnd /\ CutsWithCause /\ QueueInv'
    <2>1. ~ReadSynAtLimit(e)
      BY DEF LimitNotMet, ReadSynAtLimit
    <2>2. CASE ReadInvalid(e)
      <3>1. obj' = obj /\ mgr' = mgr /\ task' = task /\ app' = app /\ acceptq' = acceptq /\ lost' = lost
        BY <2>2 DEF ReadInvalid
      <3>2. SessionsEnd
        BY <3>1 DEF SessionsEnd
      <3> QED
        BY <3>1, <3>2, NoCut, QueueKept
    <2> QED
      BY <1>4, <2>1, <2>2, SynCut, QueueCut, DataCut, GoAwayCut, ReadEndCut, CancelCut DEF ReaderTask
  <1>5. CASE UNCHANGED vars
    <2>1. obj' = obj /\ mgr' = mgr /\ task' = task /\ app' = app /\ acceptq' = acceptq /\ lost' = lost
      BY <1>5 DEF vars
    <2>2. SessionsEnd
      BY <2>1 DEF SessionsEnd
    <2> QED
      BY <2>1, <2>2, NoCut, QueueKept
  <1> QED
    BY <1>1, <1>2, <1>3, <1>4, <1>5 DEF Next

LEMMA InitCut == Init => CutInv /\ QueueInv
  <1> SUFFICES ASSUME Init PROVE CutInv /\ QueueInv
    OBVIOUS
  <1>1. \A e \in Ends : obj[e] = <<>> /\ acceptq[e] = <<>> /\ task[e].accepting = 0
    BY DEF Init
  <1> QED
    BY <1>1 DEF CutInv, QueueInv

(***************************************************************************)
(* Where no SYN arrives at the stream limit, a Stream that somebody holds  *)
(* is cut off only if the peer ended or reset it, or the session was       *)
(* closed, dropped or lost: for any number of streams and whatever their   *)
(* ends do.  At the limit create_stream fails, the error ends the reader   *)
(* task and close_senders cuts off every stream of the session.            *)
(***************************************************************************)
THEOREM CutsForCause ==
  ASSUME EnoughIds
  PROVE  Spec /\ []LimitNotMet => []CutHasCause
  <1>1. CutInv => CutHasCause
    BY DEF CutInv, CutHasCause, Finished, Ending
  <1>2. TypeInv /\ ApartInv /\ LimitNotMet /\ CutInv /\ QueueInv /\ [Next]_vars => (CutInv /\ QueueInv)'
    BY NextCut
  <1> QED
    BY <1>1, <1>2, InitCut, ApartAlways, PTL DEF Spec
=============================================================================
