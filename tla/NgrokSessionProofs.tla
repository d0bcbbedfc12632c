------------------------- MODULE NgrokSessionProofs -------------------------
(***************************************************************************)
(* Proofs about NgrokSession, for any number of tunnels, connections and   *)
(* requests, whatever the application and the service do and when.         *)
(***************************************************************************)
EXTENDS NgrokSession, TLAPS

\* At most one id for each tunnel.
OneEach(ids) == \A i, j \in ids : i.of = j.of => i = j

\* Tunnel t is in the map of the connection in use.
Mapped(t) == \E id \in inner[gen].tunnels : id.of = t

\* The loop is about to put something in the channel of t.
Handed(t) == acc.pc \in {"send", "stop", "drain"} /\ \E id \in acc.ids : id.of = t

\* Where a call or the loop is, with the SessionInners it uses.
PlaceInv ==
  /\ acc.pc = "rebind" => Len(inner) = gen + 1 /\ gen < MaxGen
  /\ acc.pc \notin {"rebind", "done"} => Len(inner) = gen
  /\ acc.pc = "request" => \A i, j \in acc.ids : i = j
  /\ sess.g <= gen
  /\ \A t \in Tunnels :
       /\ tun[t].g <= gen
       /\ tun[t].call \in {"listen", "insert"} => tun[t].owner = "none"

\* A tunnel nobody has yet, or that was told of its end, is out of reach of the
\* loop: not in the map and not about to be sent to.
TellInv ==
  /\ OneEach(inner[gen].tunnels) /\ OneEach(acc.ids)
  /\ \A t \in Tunnels :
       /\ tun[t].owner = "none" => ~tun[t].told
       /\ tun[t].owner = "none" \/ tun[t].told => ~Mapped(t) /\ ~Handed(t)
       /\ acc.pc \in {"stop", "drain"} => ~(Handed(t) /\ Mapped(t))

\* As long as the service stopped none, what is in the map of a live connection is
\* bound there, until the call that unbound it reaches the map.
ServeInv ==
  stops = MaxStops =>
    /\ inner[gen].up => \A id \in inner[gen].tunnels :
         \/ id \in srv[gen]
         \/ /\ tun[id.of].call = "remove" /\ tun[id.of].g = gen
            /\ tun[id.of].id = id.at
    /\ \A t \in Tunnels : tun[t].call = "insert" /\ inner[tun[t].g].up =>
         IdOn(t, tun[t].id) \in srv[tun[t].g]

\* The inductive invariant.
SessionInv == TypeOK /\ PlaceInv /\ TellInv /\ ServeInv
----------------------------------------------------------------------------
(* What the proofs use again and again.                                    *)

\* The types, in the form in which the steps use them.
LEMMA Facts ==
  ASSUME TypeOK
  PROVE  /\ gen \in Nat /\ gen \in 1..MaxGen /\ MaxGen \in Nat
         /\ Len(inner) \in Nat /\ DOMAIN inner = 1..Len(inner) /\ gen \in DOMAIN inner
         /\ \A g \in DOMAIN inner : inner[g] \in Inners
         /\ \A t \in Tunnels : tun[t] \in TunnelStates
         /\ inner \in Seq(Inners) /\ acc \in Accepts
  BY NgrokAssumption DEF TypeOK, Gens

\* Tunnel t is in the state s now.
LEMMA TunAt ==
  ASSUME TypeOK, NEW t \in Tunnels, NEW s, tun' = [tun EXCEPT ![t] = s]
  PROVE  tun'[t] = s /\ \A u \in Tunnels : u # t => tun'[u] = tun[u]
  BY DEF TypeOK

\* SessionInner g is v now.
LEMMA InnerAt ==
  ASSUME TypeOK, NEW g \in DOMAIN inner, NEW v \in Inners, inner' = [inner EXCEPT ![g] = v]
  PROVE  /\ inner' \in Seq(Inners) /\ Len(inner') = Len(inner) /\ DOMAIN inner' = DOMAIN inner
         /\ inner'[g] = v /\ \A h \in DOMAIN inner : h # g => inner'[h] = inner[h]
  <1>1. inner \in Seq(Inners)
    BY DEF TypeOK
  <1> QED
    BY <1>1

\* A step that leaves the tunnels' bonds to the loop alone, or loosens them.
LEMMA TellKept ==
  ASSUME TellInv, OneEach(inner'[gen'].tunnels), OneEach(acc'.ids),
         \A u \in Tunnels : /\ Mapped(u)' => Mapped(u)
                            /\ Handed(u)' => Handed(u)
                            /\ tun'[u].told => tun[u].told
                            /\ tun'[u].owner = "none" => tun[u].owner = "none",
         acc'.pc \in {"stop", "drain"} => acc.pc \in {"stop", "drain"}
  PROVE  TellInv'
  <1>1. OneEach(inner[gen].tunnels)' /\ OneEach(acc.ids)'
    BY DEF OneEach
  <1>2. ASSUME NEW t \in Tunnels
        PROVE  /\ tun'[t].owner = "none" => ~tun'[t].told
               /\ tun'[t].owner = "none" \/ tun'[t].told => ~Mapped(t)' /\ ~Handed(t)'
               /\ acc'.pc \in {"stop", "drain"} => ~(Handed(t)' /\ Mapped(t)')
    BY DEF TellInv
  <1> QED
    BY <1>1, <1>2 DEF TellInv

\* The same when the loop and the maps are as they were.
LEMMA TellSame ==
  ASSUME TellInv, acc' = acc, gen' = gen, inner'[gen].tunnels = inner[gen].tunnels,
         \A u \in Tunnels : /\ tun'[u].told => tun[u].told
                            /\ tun'[u].owner = "none" => tun[u].owner = "none"
  PROVE  TellInv'
  <1>1. OneEach(inner'[gen'].tunnels) /\ OneEach(acc'.ids)
    BY DEF TellInv, OneEach
  <1>2. \A u \in Tunnels : (Mapped(u)' => Mapped(u)) /\ (Handed(u)' => Handed(u))
    BY DEF Mapped, Handed
  <1> QED
    BY <1>1, <1>2, TellKept
----------------------------------------------------------------------------
(* Calls of the application.                                               *)

\* A step of one call that touches nothing but the state of its tunnel.
LEMMA CallStep ==
  ASSUME SessionInv, NEW t \in Tunnels, NEW s \in TunnelStates,
         UNCHANGED <<inner, gen, srv, acc, sess, conns, stops>>,
         tun' = [tun EXCEPT ![t] = s],
         Len(s.chan) <= ChanCap, s.g <= gen,
         s.owner = "none" => tun[t].owner = "none",
         s.told = tun[t].told,
         s.call = "listen" => s.owner = "none",
         s.call # "insert", tun[t].call \notin {"insert", "remove"}
  PROVE  SessionInv'
  <1>1. tun'[t] = s /\ \A u \in Tunnels : u # t => tun'[u] = tun[u]
    BY TunAt DEF SessionInv
  <1>2. TypeOK'
    <2>1. tun' \in [Tunnels -> TunnelStates]
      BY DEF SessionInv, TypeOK
    <2>2. \A u \in Tunnels : Len(tun'[u].chan) <= ChanCap
      BY <1>1 DEF SessionInv, TypeOK
    <2>3. ASSUME NEW g \in DOMAIN inner, inner[g].client # "free"
          PROVE  tun'[inner[g].client].call = "insert" /\ tun'[inner[g].client].g = g
      <3>1. inner[g].client \in Tunnels
        BY <2>3, Facts DEF SessionInv, Inners
      <3>2. tun[inner[g].client].call = "insert" /\ tun[inner[g].client].g = g
        BY <2>3 DEF SessionInv, TypeOK
      <3> QED
        BY <1>1, <3>1, <3>2
    <2> QED
      BY <2>1, <2>2, <2>3 DEF SessionInv, TypeOK
  <1>3. PlaceInv'
    <2>1. \A u \in Tunnels : /\ tun'[u].g <= gen
                             /\ tun'[u].call \in {"listen", "insert"} => tun'[u].owner = "none"
      BY <1>1 DEF SessionInv, PlaceInv
    <2> QED
      BY <2>1 DEF SessionInv, PlaceInv
  <1>4. TellInv'
    BY <1>1, TellSame DEF SessionInv
  <1>5. ServeInv'
    <2> SUFFICES ASSUME stops = MaxStops
                 PROVE  /\ inner[gen].up => \A id \in inner[gen].tunnels :
                             \/ id \in srv[gen]
                             \/ /\ tun'[id.of].call = "remove" /\ tun'[id.of].g = gen
                                /\ tun'[id.of].id = id.at
                        /\ \A u \in Tunnels : tun'[u].call = "insert" /\ inner[tun'[u].g].up =>
                             IdOn(u, tun'[u].id) \in srv[tun'[u].g]
      BY DEF ServeInv
    <2>1. ASSUME inner[gen].up, NEW id \in inner[gen].tunnels, id \notin srv[gen]
          PROVE  tun'[id.of].call = "remove" /\ tun'[id.of].g = gen /\ tun'[id.of].id = id.at
      <3>1. tun[id.of].call = "remove" /\ tun[id.of].g = gen /\ tun[id.of].id = id.at
        BY <2>1 DEF SessionInv, ServeInv
      <3>2. id.of \in Tunnels /\ id.of # t
        BY <2>1, <3>1, Facts DEF SessionInv, Inners, Ids
      <3> QED
        BY <1>1, <3>1, <3>2
    <2>2. ASSUME NEW u \in Tunnels, tun'[u].call = "insert", inner[tun'[u].g].up
          PROVE  IdOn(u, tun'[u].id) \in srv[tun'[u].g]
      BY <1>1, <2>2 DEF SessionInv, ServeInv
    <2> QED
      BY <2>1, <2>2
  <1> QED
    BY <1>2, <1>3, <1>4, <1>5 DEF SessionInv

\* The steps of that kind.
LEMMA PlainCalls ==
  ASSUME SessionInv, NEW t \in Tunnels,
         StartTunnel(t) \/ ListenFails(t) \/ Receive(t) \/ CloseTunnel(t) \/ DropTunnel(t)
           \/ RunClose(t) \/ UnlistenFails(t)
  PROVE  SessionInv'
  <1>1. /\ tun[t] \in TunnelStates /\ gen \in Gens /\ gen \in Nat /\ tun[t].g <= gen
        /\ Len(tun[t].chan) <= ChanCap /\ ChanCap \in Nat /\ gen <= gen
    BY Facts, NgrokAssumption DEF SessionInv, TypeOK, PlaceInv
  <1>2. UNCHANGED <<inner, gen, srv, acc, sess, conns, stops>>
    BY DEF StartTunnel, ListenFails, Receive, CloseTunnel, DropTunnel, RunClose, UnlistenFails
  <1>3. CASE StartTunnel(t)
    <2>1. PICK s : s = [tun[t] EXCEPT !.call = "listen", !.g = gen]
      OBVIOUS
    <2>2. s \in TunnelStates /\ s.chan = tun[t].chan /\ s.g = gen /\ s.owner = tun[t].owner
          /\ s.told = tun[t].told /\ s.call = "listen"
      BY <1>1, <2>1 DEF TunnelStates
    <2>3. tun' = [tun EXCEPT ![t] = s] /\ tun[t].owner = "none" /\ tun[t].call = "none"
      BY <1>3, <2>1 DEF StartTunnel
    <2> QED
      BY <1>1, <1>2, <2>2, <2>3, CallStep
  <1>4. CASE ListenFails(t) \/ UnlistenFails(t)
    <2>1. PICK s : s = [tun[t] EXCEPT !.call = "none"]
      OBVIOUS
    <2>2. s \in TunnelStates /\ s.chan = tun[t].chan /\ s.g = tun[t].g /\ s.owner = tun[t].owner
          /\ s.told = tun[t].told /\ s.call = "none"
      BY <1>1, <2>1 DEF TunnelStates
    <2>3. tun' = [tun EXCEPT ![t] = s] /\ tun[t].call \in {"listen", "unlisten"}
      BY <1>4, <2>1 DEF ListenFails, UnlistenFails
    <2> QED
      BY <1>1, <1>2, <2>2, <2>3, CallStep
  <1>5. CASE Receive(t)
    <2>1. PICK s : s = [tun[t] EXCEPT !.chan = Tail(tun[t].chan)]
      OBVIOUS
    <2>2. tun[t].chan # <<>> /\ tun[t].chan \in Seq({"conn", "error"})
      BY <1>1, <1>5 DEF TunnelStates, Receive
    <2>3. Tail(tun[t].chan) \in Seq({"conn", "error"}) /\ Len(Tail(tun[t].chan)) <= ChanCap
      BY <1>1, <2>2
    <2>4. s \in TunnelStates /\ s.chan = Tail(tun[t].chan) /\ s.g = tun[t].g /\ s.owner = tun[t].owner
          /\ s.told = tun[t].told /\ s.call = tun[t].call
      BY <1>1, <2>1, <2>3 DEF TunnelStates
    <2>5. tun' = [tun EXCEPT ![t] = s] /\ tun[t].call = "none"
      BY <1>5, <2>1 DEF Receive
    <2> QED
      BY <1>1, <1>2, <2>3, <2>4, <2>5, CallStep
  <1>6. CASE CloseTunnel(t) \/ RunClose(t)
    <2>1. PICK s : s = [tun[t] EXCEPT !.call = "unlisten", !.g = gen]
      OBVIOUS
    <2>2. s \in TunnelStates /\ s.chan = tun[t].chan /\ s.g = gen /\ s.owner = tun[t].owner
          /\ s.told = tun[t].told /\ s.call = "unlisten"
      BY <1>1, <2>1 DEF TunnelStates
    <2>3. tun' = [tun EXCEPT ![t] = s] /\ tun[t].call \in {"none", "spawned"}
      BY <1>6, <2>1 DEF CloseTunnel, RunClose
    <2> QED
      BY <1>1, <1>2, <2>2, <2>3, CallStep
  <1>7. CASE DropTunnel(t)
    <2>1. PICK s : s = [tun[t] EXCEPT !.owner = "dropped", !.chan = <<>>, !.call = "spawned"]
      OBVIOUS
    <2>2. s \in TunnelStates /\ s.chan = <<>> /\ s.g = tun[t].g /\ s.owner = "dropped"
          /\ s.told = tun[t].told /\ s.call = "spawned"
      <3>1. PICK c : c = <<>>
        OBVIOUS
      <3>2. c \in Seq({"conn", "error"}) /\ s = [tun[t] EXCEPT !.owner = "dropped", !.chan = c, !.call = "spawned"]
        BY <2>1, <3>1
      <3>3. s \in TunnelStates /\ s.chan = c /\ s.g = tun[t].g /\ s.owner = "dropped"
            /\ s.told = tun[t].told /\ s.call = "spawned"
        BY <1>1, <3>2 DEF TunnelStates
      <3> QED
        BY <3>1, <3>3
    <2>3. tun' = [tun EXCEPT ![t] = s] /\ tun[t].call = "none"
      BY <1>7, <2>1 DEF DropTunnel
    <2>4. Len(s.chan) <= ChanCap
      BY <1>1, <2>2
    <2> QED
      BY <1>1, <1>2, <2>2, <2>3, <2>4, CallStep
  <1> QED
    BY <1>3, <1>4, <1>5, <1>6, <1>7

\* An id is the tunnel and the connection it names.
LEMMA IdIs ==
  /\ \A t \in Tunnels, g \in Gens : IdOn(t, g) \in Ids /\ IdOn(t, g).of = t /\ IdOn(t, g).at = g
  /\ \A id \in Ids : id.of \in Tunnels /\ id.at \in Gens /\ id = IdOn(id.of, id.at)
  BY DEF Ids, IdOn

\* What a call that awaits something has loaded.
LEMMA CallAt ==
  ASSUME SessionInv, NEW t \in Tunnels
  PROVE  /\ tun[t] \in TunnelStates /\ tun[t].g \in Gens /\ tun[t].g \in DOMAIN inner
         /\ tun[t].id \in Gens /\ IdOn(t, tun[t].id) \in Ids
         /\ inner[tun[t].g] \in Inners
  <1>1. tun[t] \in TunnelStates /\ tun[t].g <= gen
    BY Facts DEF SessionInv, PlaceInv
  <1>2. tun[t].g \in Gens /\ tun[t].id \in Gens
    BY <1>1 DEF TunnelStates
  <1>3. tun[t].g \in DOMAIN inner
    BY <1>1, <1>2, Facts DEF SessionInv, Gens
  <1> QED
    BY <1>1, <1>2, <1>3, Facts, IdIs DEF SessionInv

\* The map holds ids.
LEMMA MapIds ==
  ASSUME TypeOK, NEW g \in DOMAIN inner, NEW id \in inner[g].tunnels
  PROVE  id \in Ids /\ id.of \in Tunnels
  BY Facts, IdIs DEF Inners

\* The service answers a listen.
LEMMA ListenInv ==
  ASSUME SessionInv, NEW t \in Tunnels, Listen(t)
  PROVE  SessionInv'
  <1>1. PICK g, v, s : /\ g = tun[t].g /\ v = [inner[g] EXCEPT !.client = t]
                       /\ s = [tun[t] EXCEPT !.call = "insert", !.id = g]
    OBVIOUS
  <1>2. /\ tun[t].call = "listen" /\ UNCHANGED <<gen, acc, sess, conns, stops>>
        /\ srv' = [srv EXCEPT ![g] = @ \cup {IdOn(t, g)}]
        /\ inner' = [inner EXCEPT ![g] = v]
        /\ tun' = [tun EXCEPT ![t] = s]
    BY <1>1 DEF Listen
  <1>3. g \in DOMAIN inner /\ g \in Gens /\ inner[g] \in Inners /\ tun[t] \in TunnelStates /\ TypeOK
    BY <1>1, CallAt DEF SessionInv
  <1>4. /\ v \in Inners /\ v.tunnels = inner[g].tunnels /\ v.up = inner[g].up /\ v.client = t
    BY <1>1, <1>3 DEF Inners
  <1>5. /\ s \in TunnelStates /\ s.call = "insert" /\ s.id = g /\ s.g = g /\ s.owner = tun[t].owner
        /\ s.told = tun[t].told /\ s.chan = tun[t].chan
    BY <1>1, <1>3 DEF TunnelStates
  <1>6. tun'[t] = s /\ \A u \in Tunnels : u # t => tun'[u] = tun[u]
    BY <1>2, <1>3, TunAt
  <1>7. /\ inner' \in Seq(Inners) /\ Len(inner') = Len(inner) /\ DOMAIN inner' = DOMAIN inner
        /\ inner'[g] = v /\ \A h \in DOMAIN inner : h # g => inner'[h] = inner[h]
    BY <1>2, <1>3, <1>4, InnerAt
  <1>8. /\ \A h \in DOMAIN inner : inner'[h].tunnels = inner[h].tunnels /\ inner'[h].up = inner[h].up
        /\ gen \in DOMAIN inner
    BY <1>3, <1>4, <1>7, Facts
  <1>9. /\ srv' \in [Gens -> SUBSET Ids] /\ IdOn(t, g) \in srv'[g]
        /\ \A h \in Gens : srv[h] \subseteq srv'[h]
    BY <1>2, <1>3, IdIs DEF TypeOK
  <1>10. TypeOK'
    <2>1. tun' \in [Tunnels -> TunnelStates] /\ \A u \in Tunnels : Len(tun'[u].chan) <= ChanCap
      BY <1>2, <1>3, <1>5, <1>6 DEF TypeOK
    <2>2. ASSUME NEW h \in DOMAIN inner, inner'[h].client # "free"
          PROVE  tun'[inner'[h].client].call = "insert" /\ tun'[inner'[h].client].g = h
      <3>1. CASE h = g
        BY <1>4, <1>5, <1>6, <1>7, <3>1
      <3>2. CASE h # g
        <4>1. inner'[h].client = inner[h].client /\ inner[h].client \in Tunnels
          BY <1>3, <1>7, <2>2, <3>2, Facts DEF Inners
        <4>2. tun[inner[h].client].call = "insert" /\ tun[inner[h].client].g = h
          BY <1>3, <2>2, <4>1 DEF TypeOK
        <4> QED
          BY <1>2, <1>6, <4>1, <4>2
      <3> QED
        BY <3>1, <3>2
    <2> QED
      BY <1>2, <1>3, <1>7, <1>9, <2>1, <2>2 DEF TypeOK
  <1>11. PlaceInv'
    <2>1. \A u \in Tunnels : /\ tun'[u].g <= gen
                             /\ tun'[u].call \in {"listen", "insert"} => tun'[u].owner = "none"
      BY <1>1, <1>2, <1>5, <1>6 DEF SessionInv, PlaceInv
    <2> QED
      BY <1>2, <1>7, <2>1 DEF SessionInv, PlaceInv
  <1>12. TellInv'
    BY <1>2, <1>5, <1>6, <1>8, TellSame DEF SessionInv
  <1>13. ServeInv'
    <2> SUFFICES ASSUME stops = MaxStops
                 PROVE  /\ inner'[gen].up => \A id \in inner'[gen].tunnels :
                             \/ id \in srv'[gen]
                             \/ /\ tun'[id.of].call = "remove" /\ tun'[id.of].g = gen
                                /\ tun'[id.of].id = id.at
                        /\ \A u \in Tunnels : tun'[u].call = "insert" /\ inner'[tun'[u].g].up =>
                             IdOn(u, tun'[u].id) \in srv'[tun'[u].g]
      BY <1>2 DEF ServeInv
    <2>1. ASSUME inner'[gen].up, NEW id \in inner'[gen].tunnels, id \notin srv'[gen]
          PROVE  tun'[id.of].call = "remove" /\ tun'[id.of].g = gen /\ tun'[id.of].id = id.at
      <3>1. inner[gen].up /\ id \in inner[gen].tunnels /\ id \notin srv[gen]
        BY <1>3, <1>8, <1>9, <2>1 DEF TypeOK
      <3>2. tun[id.of].call = "remove" /\ tun[id.of].g = gen /\ tun[id.of].id = id.at
        BY <3>1 DEF SessionInv, ServeInv
      <3>3. id.of \in Tunnels /\ id.of # t
        BY <1>2, <1>3, <1>8, <3>1, <3>2, MapIds
      <3> QED
        BY <1>6, <3>2, <3>3
    <2>2. ASSUME NEW u \in Tunnels, tun'[u].call = "insert", inner'[tun'[u].g].up
          PROVE  IdOn(u, tun'[u].id) \in srv'[tun'[u].g]
      <3>1. CASE u = t
        BY <1>5, <1>6, <1>9, <3>1
      <3>2. CASE u # t
        <4>1. tun'[u] = tun[u] /\ tun[u].g \in DOMAIN inner /\ tun[u].g \in Gens
          BY <1>6, <3>2, CallAt
        <4> QED
          BY <1>8, <1>9, <2>2, <4>1 DEF SessionInv, ServeInv
      <3> QED
        BY <3>1, <3>2
    <2> QED
      BY <2>1, <2>2
  <1> QED
    BY <1>10, <1>11, <1>12, <1>13 DEF SessionInv

\* The tunnel gets its place in the map.
LEMMA InsertInv ==
  ASSUME SessionInv, NEW t \in Tunnels, Insert(t)
  PROVE  SessionInv'
  <1>1. PICK g, v, s, n : /\ g = tun[t].g /\ n = IdOn(t, tun[t].id)
                          /\ v = [inner[g] EXCEPT !.tunnels = @ \cup {n}, !.client = "free"]
                          /\ s = [tun[t] EXCEPT !.call = "none", !.owner = "held"]
    OBVIOUS
  <1>2. /\ tun[t].call = "insert" /\ ~MapBusy(g) /\ UNCHANGED <<gen, srv, acc, sess, conns, stops>>
        /\ inner' = [inner EXCEPT ![g] = v]
        /\ tun' = [tun EXCEPT ![t] = s]
    BY <1>1 DEF Insert
  <1>3. g \in DOMAIN inner /\ g \in Gens /\ inner[g] \in Inners /\ tun[t] \in TunnelStates /\ TypeOK
        /\ n \in Ids /\ n.of = t
    BY <1>1, CallAt, IdIs DEF SessionInv
  <1>4. /\ v \in Inners /\ v.tunnels = inner[g].tunnels \cup {n} /\ v.up = inner[g].up /\ v.client = "free"
    BY <1>1, <1>3 DEF Inners
  <1>5. /\ s \in TunnelStates /\ s.call = "none" /\ s.id = tun[t].id /\ s.g = g /\ s.owner = "held"
        /\ s.told = tun[t].told /\ s.chan = tun[t].chan
    BY <1>1, <1>3 DEF TunnelStates
  <1>6. tun'[t] = s /\ \A u \in Tunnels : u # t => tun'[u] = tun[u]
    BY <1>2, <1>3, TunAt
  <1>7. /\ inner' \in Seq(Inners) /\ Len(inner') = Len(inner) /\ DOMAIN inner' = DOMAIN inner
        /\ inner'[g] = v /\ \A h \in DOMAIN inner : h # g => inner'[h] = inner[h]
    BY <1>2, <1>3, <1>4, InnerAt
  <1>8. gen \in DOMAIN inner /\ \A h \in DOMAIN inner : inner'[h].up = inner[h].up
    BY <1>3, <1>4, <1>7, Facts
  <1>9. TypeOK'
    <2>1. tun' \in [Tunnels -> TunnelStates] /\ \A u \in Tunnels : Len(tun'[u].chan) <= ChanCap
      BY <1>2, <1>3, <1>5, <1>6 DEF TypeOK
    <2>2. ASSUME NEW h \in DOMAIN inner, inner'[h].client # "free"
          PROVE  tun'[inner'[h].client].call = "insert" /\ tun'[inner'[h].client].g = h
      <3>1. h # g
        BY <1>4, <1>7, <2>2
      <3>2. inner'[h].client = inner[h].client /\ inner[h].client \in Tunnels
        BY <1>3, <1>7, <2>2, <3>1, Facts DEF Inners
      <3>3. tun[inner[h].client].call = "insert" /\ tun[inner[h].client].g = h
        BY <1>3, <2>2, <3>2 DEF TypeOK
      <3> QED
        BY <1>1, <1>6, <3>1, <3>2, <3>3
    <2> QED
      BY <1>2, <1>3, <1>7, <2>1, <2>2 DEF TypeOK
  <1>10. PlaceInv'
    <2>1. \A u \in Tunnels : /\ tun'[u].g <= gen
                             /\ tun'[u].call \in {"listen", "insert"} => tun'[u].owner = "none"
      BY <1>1, <1>2, <1>5, <1>6 DEF SessionInv, PlaceInv
    <2> QED
      BY <1>2, <1>7, <2>1 DEF SessionInv, PlaceInv
  <1>11. tun[t].owner = "none" /\ ~tun[t].told /\ ~Mapped(t)
    BY <1>2 DEF SessionInv, PlaceInv, TellInv
  <1>12. TellInv'
    <2>1. CASE g # gen
      BY <1>2, <1>5, <1>6, <1>7, <1>8, <2>1, TellSame DEF SessionInv
    <2>2. CASE g = gen
      <3>1. acc.pc \notin {"send", "stop", "drain"} /\ inner'[gen].tunnels = inner[gen].tunnels \cup {n}
        BY <1>2, <1>4, <1>7, <2>2 DEF MapBusy
      <3>2. \A u \in Tunnels : ~Handed(u)' /\ (Mapped(u)' => Mapped(u) \/ u = t)
        BY <1>2, <1>3, <3>1 DEF Handed, Mapped
      <3>3. OneEach(inner[gen].tunnels)'
        BY <1>2, <1>3, <1>11, <3>1 DEF SessionInv, TellInv, OneEach, Mapped
      <3>4. OneEach(acc.ids)'
        BY <1>2 DEF SessionInv, TellInv, OneEach
      <3>5. ASSUME NEW u \in Tunnels
            PROVE  /\ tun'[u].owner = "none" => ~tun'[u].told
                   /\ tun'[u].owner = "none" \/ tun'[u].told => ~Mapped(u)'
        <4>1. CASE u = t
          BY <1>5, <1>6, <1>11, <4>1
        <4>2. CASE u # t
          BY <1>6, <3>2, <4>2 DEF SessionInv, TellInv
        <4> QED
          BY <4>1, <4>2
      <3> QED
        BY <3>2, <3>3, <3>4, <3>5 DEF TellInv
    <2> QED
      BY <2>1, <2>2
  <1>13. ServeInv'
    <2> SUFFICES ASSUME stops = MaxStops
                 PROVE  /\ inner'[gen].up => \A id \in inner'[gen].tunnels :
                             \/ id \in srv[gen]
                             \/ /\ tun'[id.of].call = "remove" /\ tun'[id.of].g = gen
                                /\ tun'[id.of].id = id.at
                        /\ \A u \in Tunnels : tun'[u].call = "insert" /\ inner'[tun'[u].g].up =>
                             IdOn(u, tun'[u].id) \in srv[tun'[u].g]
      BY <1>2 DEF ServeInv
    <2>1. ASSUME inner'[gen].up, NEW id \in inner'[gen].tunnels, id \notin srv[gen]
          PROVE  tun'[id.of].call = "remove" /\ tun'[id.of].g = gen /\ tun'[id.of].id = id.at
      <3>1. g = gen /\ inner[g].up => n \in srv[gen]
        BY <1>1, <1>2 DEF SessionInv, ServeInv
      <3>2. inner[gen].up /\ id \in inner[gen].tunnels
        BY <1>4, <1>7, <1>8, <2>1, <3>1
      <3>3. tun[id.of].call = "remove" /\ tun[id.of].g = gen /\ tun[id.of].id = id.at
        BY <2>1, <3>2 DEF SessionInv, ServeInv
      <3>4. id.of \in Tunnels /\ id.of # t
        BY <1>2, <1>3, <1>8, <3>2, <3>3, MapIds
      <3> QED
        BY <1>6, <3>3, <3>4
    <2>2. ASSUME NEW u \in Tunnels, tun'[u].call = "insert", inner'[tun'[u].g].up
          PROVE  IdOn(u, tun'[u].id) \in srv[tun'[u].g]
      <3>1. u # t /\ tun'[u] = tun[u] /\ tun[u].g \in DOMAIN inner
        BY <1>5, <1>6, <2>2, CallAt
      <3> QED
        BY <1>8, <2>2, <3>1 DEF SessionInv, ServeInv
    <2> QED
      BY <2>1, <2>2
  <1> QED
    BY <1>9, <1>10, <1>12, <1>13 DEF SessionInv

\* The service forgets the tunnel.
LEMMA UnlistenInv ==
  ASSUME SessionInv, NEW t \in Tunnels, Unlisten(t)
  PROVE  SessionInv'
  <1>1. PICK g, s, n : /\ g = tun[t].g /\ n = IdOn(t, tun[t].id)
                       /\ s = [tun[t] EXCEPT !.call = "remove"]
    OBVIOUS
  <1>2. /\ tun[t].call = "unlisten" /\ UNCHANGED <<inner, gen, acc, sess, conns, stops>>
        /\ srv' = [srv EXCEPT ![g] = @ \ {n}]
        /\ tun' = [tun EXCEPT ![t] = s]
    BY <1>1 DEF Unlisten
  <1>3. g \in DOMAIN inner /\ g \in Gens /\ tun[t] \in TunnelStates /\ TypeOK /\ n \in Ids /\ n.of = t
        /\ n.at = tun[t].id
    BY <1>1, CallAt, IdIs DEF SessionInv
  <1>4. /\ s \in TunnelStates /\ s.call = "remove" /\ s.id = tun[t].id /\ s.g = g
        /\ s.owner = tun[t].owner /\ s.told = tun[t].told /\ s.chan = tun[t].chan
    BY <1>1, <1>3 DEF TunnelStates
  <1>5. tun'[t] = s /\ \A u \in Tunnels : u # t => tun'[u] = tun[u]
    BY <1>2, <1>3, TunAt
  <1>6. /\ srv' \in [Gens -> SUBSET Ids]
        /\ \A h \in Gens, id \in Ids : id \in srv[h] => id \in srv'[h] \/ (h = g /\ id = n)
    BY <1>2, <1>3 DEF TypeOK
  <1>7. TypeOK'
    <2>1. tun' \in [Tunnels -> TunnelStates] /\ \A u \in Tunnels : Len(tun'[u].chan) <= ChanCap
      BY <1>2, <1>3, <1>4, <1>5 DEF TypeOK
    <2>2. ASSUME NEW h \in DOMAIN inner, inner[h].client # "free"
          PROVE  tun'[inner[h].client].call = "insert" /\ tun'[inner[h].client].g = h
      <3>1. inner[h].client \in Tunnels
        BY <1>3, <2>2, Facts DEF Inners
      <3>2. tun[inner[h].client].call = "insert" /\ tun[inner[h].client].g = h
        BY <1>3, <2>2 DEF TypeOK
      <3> QED
        BY <1>2, <1>5, <3>1, <3>2
    <2> QED
      BY <1>2, <1>3, <1>6, <2>1, <2>2 DEF TypeOK
  <1>8. PlaceInv'
    <2>1. \A u \in Tunnels : /\ tun'[u].g <= gen
                             /\ tun'[u].call \in {"listen", "insert"} => tun'[u].owner = "none"
      BY <1>1, <1>2, <1>4, <1>5 DEF SessionInv, PlaceInv
    <2> QED
      BY <1>2, <2>1 DEF SessionInv, PlaceInv
  <1>9. TellInv'
    BY <1>2, <1>4, <1>5, TellSame DEF SessionInv
  <1>10. ServeInv'
    <2> SUFFICES ASSUME stops = MaxStops
                 PROVE  /\ inner[gen].up => \A id \in inner[gen].tunnels :
                             \/ id \in srv'[gen]
                             \/ /\ tun'[id.of].call = "remove" /\ tun'[id.of].g = gen
                                /\ tun'[id.of].id = id.at
                        /\ \A u \in Tunnels : tun'[u].call = "insert" /\ inner[tun'[u].g].up =>
                             IdOn(u, tun'[u].id) \in srv'[tun'[u].g]
      BY <1>2 DEF ServeInv
    <2>1. ASSUME inner[gen].up, NEW id \in inner[gen].tunnels, id \notin srv'[gen]
          PROVE  tun'[id.of].call = "remove" /\ tun'[id.of].g = gen /\ tun'[id.of].id = id.at
      <3>1. id \in Ids /\ id.of \in Tunnels /\ gen \in Gens
        BY <1>3, Facts, MapIds DEF TypeOK
      <3>2. CASE id \in srv[gen]
        BY <1>3, <1>4, <1>5, <1>6, <2>1, <3>1, <3>2
      <3>3. CASE id \notin srv[gen]
        <4>1. tun[id.of].call = "remove" /\ tun[id.of].g = gen /\ tun[id.of].id = id.at
          BY <2>1, <3>3 DEF SessionInv, ServeInv
        <4> QED
          BY <1>2, <1>5, <3>1, <4>1
      <3> QED
        BY <3>2, <3>3
    <2>2. ASSUME NEW u \in Tunnels, tun'[u].call = "insert", inner[tun'[u].g].up
          PROVE  IdOn(u, tun'[u].id) \in srv'[tun'[u].g]
      <3>1. u # t /\ tun'[u] = tun[u] /\ tun[u].g \in Gens /\ tun[u].id \in Gens
        BY <1>4, <1>5, <2>2, CallAt
      <3>2. IdOn(u, tun[u].id) \in srv[tun[u].g]
        BY <2>2, <3>1 DEF SessionInv, ServeInv
      <3>3. IdOn(u, tun[u].id) \in Ids /\ IdOn(u, tun[u].id).of = u
        BY <3>1, IdIs
      <3> QED
        BY <1>3, <1>6, <3>1, <3>2, <3>3
    <2> QED
      BY <2>1, <2>2
  <1> QED
    BY <1>7, <1>8, <1>9, <1>10 DEF SessionInv

\* The tunnel leaves the map.
LEMMA RemoveInv ==
  ASSUME SessionInv, NEW t \in Tunnels, Remove(t)
  PROVE  SessionInv'
  <1>1. PICK g, v, o, s, n : /\ g = tun[t].g /\ n = IdOn(t, tun[t].id)
                             /\ v = [inner[g] EXCEPT !.tunnels = @ \ {n}]
                             /\ o = IF tun[t].owner = "held" THEN "closed" ELSE tun[t].owner
                             /\ s = [tun[t] EXCEPT !.call = "none", !.owner = o]
    OBVIOUS
  <1>2. /\ tun[t].call = "remove" /\ UNCHANGED <<gen, srv, acc, sess, conns, stops>>
        /\ inner' = [inner EXCEPT ![g] = v]
        /\ tun' = [tun EXCEPT ![t] = s]
    BY <1>1 DEF Remove
  <1>3. g \in DOMAIN inner /\ g \in Gens /\ inner[g] \in Inners /\ tun[t] \in TunnelStates /\ TypeOK
    BY <1>1, CallAt DEF SessionInv
  <1>4. v \in Inners /\ v.tunnels = inner[g].tunnels \ {n} /\ v.up = inner[g].up /\ v.client = inner[g].client
    BY <1>1, <1>3 DEF Inners
  <1>5. /\ s \in TunnelStates /\ s.call = "none" /\ s.g = g /\ s.owner = o
        /\ s.told = tun[t].told /\ s.chan = tun[t].chan
    BY <1>1, <1>3 DEF TunnelStates
  <1>6. tun'[t] = s /\ \A u \in Tunnels : u # t => tun'[u] = tun[u]
    BY <1>2, <1>3, TunAt
  <1>7. /\ inner' \in Seq(Inners) /\ Len(inner') = Len(inner) /\ DOMAIN inner' = DOMAIN inner
        /\ inner'[g] = v /\ \A h \in DOMAIN inner : h # g => inner'[h] = inner[h]
    BY <1>2, <1>3, <1>4, InnerAt
  <1>8. /\ gen \in DOMAIN inner
        /\ \A h \in DOMAIN inner : /\ inner'[h].up = inner[h].up /\ inner'[h].client = inner[h].client
                                   /\ inner'[h].tunnels \subseteq inner[h].tunnels
    BY <1>3, <1>4, <1>7, Facts
  <1>9. TypeOK'
    <2>1. tun' \in [Tunnels -> TunnelStates] /\ \A u \in Tunnels : Len(tun'[u].chan) <= ChanCap
      BY <1>2, <1>3, <1>5, <1>6 DEF TypeOK
    <2>2. ASSUME NEW h \in DOMAIN inner, inner'[h].client # "free"
          PROVE  tun'[inner'[h].client].call = "insert" /\ tun'[inner'[h].client].g = h
      <3>1. inner'[h].client = inner[h].client /\ inner[h].client \in Tunnels
        BY <1>3, <1>8, <2>2, Facts DEF Inners
      <3>2. tun[inner[h].client].call = "insert" /\ tun[inner[h].client].g = h
        BY <1>3, <2>2, <3>1 DEF TypeOK
      <3> QED
        BY <1>2, <1>6, <3>1, <3>2
    <2> QED
      BY <1>2, <1>3, <1>7, <2>1, <2>2 DEF TypeOK
  <1>10. PlaceInv'
    <2>1. \A u \in Tunnels : /\ tun'[u].g <= gen
                             /\ tun'[u].call \in {"listen", "insert"} => tun'[u].owner = "none"
      BY <1>1, <1>2, <1>5, <1>6 DEF SessionInv, PlaceInv
    <2> QED
      BY <1>2, <1>7, <2>1 DEF SessionInv, PlaceInv
  <1>11. TellInv'
    <2>1. OneEach(inner'[gen'].tunnels) /\ OneEach(acc'.ids)
      BY <1>2, <1>8 DEF SessionInv, TellInv, OneEach
    <2>2. \A u \in Tunnels : (Mapped(u)' => Mapped(u)) /\ (Handed(u)' => Handed(u))
      BY <1>2, <1>8 DEF Mapped, Handed
    <2>3. \A u \in Tunnels : /\ tun'[u].told => tun[u].told
                             /\ tun'[u].owner = "none" => tun[u].owner = "none"
      BY <1>1, <1>5, <1>6
    <2> QED
      BY <1>2, <2>1, <2>2, <2>3, TellKept DEF SessionInv
  <1>12. ServeInv'
    <2> SUFFICES ASSUME stops = MaxStops
                 PROVE  /\ inner'[gen].up => \A id \in inner'[gen].tunnels :
                             \/ id \in srv[gen]
                             \/ /\ tun'[id.of].call = "remove" /\ tun'[id.of].g = gen
                                /\ tun'[id.of].id = id.at
                        /\ \A u \in Tunnels : tun'[u].call = "insert" /\ inner'[tun'[u].g].up =>
                             IdOn(u, tun'[u].id) \in srv[tun'[u].g]
      BY <1>2 DEF ServeInv
    <2>1. ASSUME inner'[gen].up, NEW id \in inner'[gen].tunnels, id \notin srv[gen]
          PROVE  tun'[id.of].call = "remove" /\ tun'[id.of].g = gen /\ tun'[id.of].id = id.at
      <3>1. inner[gen].up /\ id \in inner[gen].tunnels
        BY <1>8, <2>1
      <3>2. tun[id.of].call = "remove" /\ tun[id.of].g = gen /\ tun[id.of].id = id.at
        BY <2>1, <3>1 DEF SessionInv, ServeInv
      <3>3. id \in Ids /\ id.of \in Tunnels /\ id = IdOn(id.of, id.at)
        BY <1>3, <1>8, <3>1, MapIds, IdIs
      <3>4. id.of # t
        <4> SUFFICES ASSUME id.of = t PROVE FALSE
          OBVIOUS
        <4>1. g = gen /\ id = n
          BY <1>1, <3>2, <3>3, Zenon
        <4>2. id \in inner[g].tunnels \ {n}
          BY <1>4, <1>7, <2>1, <4>1
        <4> QED
          BY <4>1, <4>2
      <3> QED
        BY <1>6, <3>2, <3>3, <3>4
    <2>2. ASSUME NEW u \in Tunnels, tun'[u].call = "insert", inner'[tun'[u].g].up
          PROVE  IdOn(u, tun'[u].id) \in srv[tun'[u].g]
      <3>1. u # t /\ tun'[u] = tun[u] /\ tun[u].g \in DOMAIN inner
        BY <1>5, <1>6, <2>2, CallAt
      <3> QED
        BY <1>8, <2>2, <3>1 DEF SessionInv, ServeInv
    <2> QED
      BY <2>1, <2>2
  <1> QED
    BY <1>9, <1>10, <1>11, <1>12 DEF SessionInv
----------------------------------------------------------------------------
(* The Session and the connection.                                         *)

\* The tunnels stay as they are, and so do the maps, while connections are closed or
\* lost; what the service has bound on a lost one is forgotten.
LEMMA LinkStep ==
  ASSUME SessionInv, UNCHANGED <<gen, tun, conns, stops>>,
         inner' \in Seq(Inners), Len(inner') = Len(inner),
         \A g \in DOMAIN inner : /\ inner'[g].tunnels = inner[g].tunnels
                                 /\ inner'[g].client = inner[g].client
                                 /\ inner'[g].up => inner[g].up /\ (g \in Gens => srv'[g] = srv[g]),
         srv' \in [Gens -> SUBSET Ids], sess' \in [held : BOOLEAN, call : {"none", "close", "closed"}, g : Gens],
         sess'.g <= gen,
         \/ acc' = acc
         \/ acc' = [acc EXCEPT !.pc = "done", !.ids = {}]
  PROVE  SessionInv'
  <1>1. TypeOK /\ gen \in DOMAIN inner /\ DOMAIN inner' = DOMAIN inner /\ acc \in Accepts
    BY Facts DEF SessionInv
  <1>2. /\ acc' \in Accepts
        /\ acc' = acc \/ (acc'.pc = "done" /\ acc'.ids = {})
    <2>1. PICK e : e = {}
      OBVIOUS
    <2>2. acc' = acc \/ acc' = [acc EXCEPT !.pc = "done", !.ids = e]
      BY <2>1
    <2>3. e \in SUBSET Ids
      BY <2>1
    <2>4. acc' = acc \/ (acc'.pc = "done" /\ acc'.ids = e /\ acc' \in Accepts)
      BY <1>1, <2>2, <2>3 DEF Accepts
    <2> QED
      BY <1>1, <2>1, <2>4
  <1>3. TypeOK'
    <2>1. \A g \in DOMAIN inner' : inner'[g].client # "free" =>
            tun'[inner'[g].client].call = "insert" /\ tun'[inner'[g].client].g = g
      BY <1>1 DEF TypeOK
    <2>2. gen' \in Gens /\ Len(inner') \in {gen', (gen + 1)'}
      BY <1>1 DEF TypeOK
    <2> QED
      BY <1>1, <1>2, <2>1, <2>2 DEF TypeOK
  <1>4. PlaceInv'
    BY <1>2 DEF SessionInv, PlaceInv
  <1>5. TellInv'
    <2>1. OneEach(inner'[gen'].tunnels) /\ OneEach(acc'.ids)
      BY <1>1, <1>2 DEF SessionInv, TellInv, OneEach
    <2>2. \A u \in Tunnels : (Mapped(u)' => Mapped(u)) /\ (Handed(u)' => Handed(u))
      BY <1>1, <1>2 DEF Mapped, Handed
    <2>3. acc'.pc \in {"stop", "drain"} => acc.pc \in {"stop", "drain"}
      BY <1>2
    <2> QED
      BY <2>1, <2>2, <2>3, TellKept DEF SessionInv
  <1>6. ServeInv'
    <2>1. gen \in Gens /\ \A u \in Tunnels : tun[u].g \in DOMAIN inner /\ tun[u].g \in Gens
      BY <1>1, CallAt DEF TypeOK
    <2> QED
      BY <1>1, <2>1 DEF SessionInv, ServeInv
  <1> QED
    BY <1>3, <1>4, <1>5, <1>6 DEF SessionInv

\* The owner closes or drops the Session, the connection is lost, or the loop is
\* cancelled.
LEMMA LinkSteps ==
  ASSUME SessionInv,
         CloseSession \/ CloseDone \/ DropSession \/ CancelAccept
           \/ \E g \in DOMAIN inner : Disconnect(g)
  PROVE  SessionInv'
  <1>1. /\ TypeOK /\ gen \in DOMAIN inner /\ gen \in Gens /\ gen <= gen
        /\ sess \in [held : BOOLEAN, call : {"none", "close", "closed"}, g : Gens]
        /\ sess.g <= gen /\ srv \in [Gens -> SUBSET Ids] /\ inner \in Seq(Inners)
        /\ \A g \in DOMAIN inner : inner[g] \in Inners
    BY Facts DEF SessionInv, TypeOK, PlaceInv
  <1>2. CASE CloseSession
    <2>1. UNCHANGED <<inner, gen, srv, tun, acc, conns, stops>> /\ sess' = [sess EXCEPT !.call = "close", !.g = gen]
      BY <1>2 DEF CloseSession
    <2>2. sess' \in [held : BOOLEAN, call : {"none", "close", "closed"}, g : Gens] /\ sess'.g = gen
      BY <1>1, <2>1
    <2> QED
      BY <1>1, <2>1, <2>2, LinkStep
  <1>3. CASE DropSession
    <2>1. UNCHANGED <<inner, gen, srv, tun, acc, conns, stops>> /\ sess' = [sess EXCEPT !.held = FALSE]
      BY <1>3 DEF DropSession
    <2>2. sess' \in [held : BOOLEAN, call : {"none", "close", "closed"}, g : Gens] /\ sess'.g = sess.g
      BY <1>1, <2>1
    <2> QED
      BY <1>1, <2>1, <2>2, LinkStep
  <1>4. CASE CloseDone
    <2>1. PICK v : v = [inner[sess.g] EXCEPT !.closed = TRUE]
      OBVIOUS
    <2>2. /\ UNCHANGED <<gen, srv, tun, acc, conns, stops>> /\ sess' = [sess EXCEPT !.call = "closed"]
          /\ inner' = [inner EXCEPT ![sess.g] = v]
      BY <1>4, <2>1 DEF CloseDone
    <2>3. sess' \in [held : BOOLEAN, call : {"none", "close", "closed"}, g : Gens] /\ sess'.g = sess.g
      BY <1>1, <2>2
    <2>4. sess.g \in DOMAIN inner
      BY <1>1, Facts DEF Gens
    <2>5. /\ v \in Inners /\ v.tunnels = inner[sess.g].tunnels /\ v.client = inner[sess.g].client
          /\ v.up = inner[sess.g].up
      BY <1>1, <2>1, <2>4 DEF Inners
    <2>6. /\ inner' \in Seq(Inners) /\ Len(inner') = Len(inner)
          /\ \A g \in DOMAIN inner : /\ inner'[g].tunnels = inner[g].tunnels
                                     /\ inner'[g].client = inner[g].client
                                     /\ inner'[g].up = inner[g].up
      BY <1>1, <2>2, <2>4, <2>5, InnerAt
    <2> QED
      BY <1>1, <2>2, <2>3, <2>6, LinkStep
  <1>5. ASSUME NEW g \in DOMAIN inner, Disconnect(g) PROVE SessionInv'
    <2>1. PICK v : v = [inner[g] EXCEPT !.up = FALSE]
      OBVIOUS
    <2>2. /\ UNCHANGED <<gen, tun, acc, sess, conns, stops>>
          /\ inner' = [inner EXCEPT ![g] = v] /\ srv' = [srv EXCEPT ![g] = {}]
      BY <1>5, <2>1 DEF Disconnect
    <2>3. /\ v \in Inners /\ v.tunnels = inner[g].tunnels /\ v.client = inner[g].client /\ v.up = FALSE
      BY <1>1, <2>1 DEF Inners
    <2>4. /\ inner' \in Seq(Inners) /\ Len(inner') = Len(inner)
          /\ \A h \in DOMAIN inner : /\ inner'[h].tunnels = inner[h].tunnels
                                     /\ inner'[h].client = inner[h].client
                                     /\ h = g => ~inner'[h].up
                                     /\ h # g => inner'[h].up = inner[h].up
      BY <1>1, <2>2, <2>3, InnerAt
    <2>5. srv' \in [Gens -> SUBSET Ids] /\ \A h \in Gens : h # g => srv'[h] = srv[h]
      BY <1>1, <2>2
    <2> QED
      BY <1>1, <2>2, <2>4, <2>5, LinkStep
  <1>6. CASE CancelAccept
    <2>1. /\ UNCHANGED <<gen, tun, sess, conns, stops>>
          /\ acc' = [acc EXCEPT !.pc = "done", !.ids = {}]
          /\ inner' = [g \in DOMAIN inner |-> [inner[g] EXCEPT !.up = FALSE]]
          /\ srv' = [g \in Gens |-> {}]
      BY <1>6 DEF CancelAccept
    <2>2. \A g \in DOMAIN inner : /\ inner'[g] \in Inners
                                  /\ inner'[g].tunnels = inner[g].tunnels
                                  /\ inner'[g].client = inner[g].client
                                  /\ ~inner'[g].up
      BY <1>1, <2>1 DEF Inners
    <2>3. Len(inner) \in Nat /\ DOMAIN inner = 1..Len(inner) /\ DOMAIN inner' = 1..Len(inner)
      BY <1>1, <2>1
    <2>4. inner' \in [1..Len(inner) -> Inners]
      BY <2>1, <2>2, <2>3
    <2>5. inner' \in Seq(Inners) /\ Len(inner') = Len(inner)
      BY <2>3, <2>4
    <2>6. srv' \in [Gens -> SUBSET Ids]
      BY <2>1
    <2> QED
      BY <1>1, <2>1, <2>2, <2>5, <2>6, LinkStep
  <1> QED
    BY <1>2, <1>3, <1>4, <1>5, <1>6
----------------------------------------------------------------------------
(* The accept loop.                                                        *)

\* The calls in progress are where they were.
CallsSame ==
  \A u \in Tunnels : /\ tun'[u].owner = tun[u].owner /\ tun'[u].call = tun[u].call
                     /\ tun'[u].g = tun[u].g /\ tun'[u].id = tun[u].id

\* Something is put in the channel of one tunnel, if anybody listens.
LEMMA SentAt ==
  ASSUME SessionInv, NEW t \in Tunnels, NEW item \in {"conn", "error"}, Sent(t, item)
  PROVE  /\ tun' \in [Tunnels -> TunnelStates] /\ CallsSame
         /\ \A u \in Tunnels : Len(tun'[u].chan) <= ChanCap
         /\ \A u \in Tunnels : u # t => tun'[u] = tun[u]
         /\ tun'[t].told => tun[t].told \/ item = "error"
  <1>1. tun[t] \in TunnelStates /\ ChanCap \in Nat /\ TypeOK
    BY Facts, NgrokAssumption DEF SessionInv
  <1>2. CASE UNCHANGED tun
    BY <1>1, <1>2 DEF TypeOK, CallsSame
  <1>3. CASE ~UNCHANGED tun
    <2>1. PICK c, b, s : /\ c = Append(tun[t].chan, item) /\ b = (tun[t].told \/ item = "error")
                         /\ s = [tun[t] EXCEPT !.chan = c, !.told = b]
      OBVIOUS
    <2>2. tun' = [tun EXCEPT ![t] = s] /\ Len(tun[t].chan) < ChanCap
      BY <1>3, <2>1 DEF Sent
    <2>3. c \in Seq({"conn", "error"}) /\ Len(c) <= ChanCap /\ b \in BOOLEAN
      <3>1. tun[t].chan \in Seq({"conn", "error"}) /\ tun[t].told \in BOOLEAN
        BY <1>1 DEF TunnelStates
      <3> QED
        BY <1>1, <2>1, <2>2, <3>1
    <2>4. /\ s \in TunnelStates /\ s.owner = tun[t].owner /\ s.call = tun[t].call /\ s.g = tun[t].g
          /\ s.id = tun[t].id /\ s.chan = c /\ s.told = b
      BY <1>1, <2>1, <2>3 DEF TunnelStates
    <2>5. tun'[t] = s /\ \A u \in Tunnels : u # t => tun'[u] = tun[u]
      BY <1>1, <2>2, TunAt
    <2>6. tun' \in [Tunnels -> TunnelStates]
      BY <1>1, <2>2, <2>4 DEF TypeOK
    <2>7. \A u \in Tunnels : Len(tun'[u].chan) <= ChanCap
      BY <1>1, <2>3, <2>4, <2>5 DEF TypeOK
    <2> QED
      BY <2>1, <2>4, <2>5, <2>6, <2>7 DEF CallsSame
  <1> QED
    BY <1>2, <1>3

\* A step of the loop on its connection.
LEMMA LoopStep ==
  ASSUME SessionInv, UNCHANGED <<gen, sess>>,
         tun' \in [Tunnels -> TunnelStates], CallsSame,
         \A u \in Tunnels : Len(tun'[u].chan) <= ChanCap,
         inner' \in Seq(Inners), Len(inner') = Len(inner),
         \A g \in DOMAIN inner : /\ inner'[g].client = inner[g].client
                                 /\ inner'[g].tunnels \subseteq inner[g].tunnels
                                 /\ inner'[g].up = inner[g].up,
         srv' \in [Gens -> SUBSET Ids], conns' \in 0..MaxConns, stops' \in 0..MaxStops,
         stops' = MaxStops => stops = MaxStops /\ srv' = srv,
         acc' \in Accepts, acc.pc \notin {"rebind", "done"}, acc'.pc # "rebind",
         acc'.pc = "request" => \A i, j \in acc'.ids : i = j,
         TellInv'
  PROVE  SessionInv'
  <1>1. TypeOK /\ gen \in DOMAIN inner /\ DOMAIN inner' = DOMAIN inner /\ gen \in Gens
    BY Facts DEF SessionInv, TypeOK
  <1>2. TypeOK'
    <2>1. ASSUME NEW g \in DOMAIN inner, inner'[g].client # "free"
          PROVE  tun'[inner'[g].client].call = "insert" /\ tun'[inner'[g].client].g = g
      <3>1. inner[g].client # "free" /\ inner[g].client \in Tunnels
        BY <1>1, <2>1, Facts DEF Inners
      <3> QED
        BY <1>1, <3>1 DEF TypeOK, CallsSame
    <2>2. gen' \in Gens /\ Len(inner') \in {gen', (gen + 1)'}
      BY <1>1 DEF TypeOK
    <2> QED
      BY <1>1, <2>1, <2>2 DEF TypeOK
  <1>3. PlaceInv'
    BY DEF SessionInv, PlaceInv, CallsSame
  <1>4. ServeInv'
    <2> SUFFICES ASSUME stops' = MaxStops
                 PROVE  /\ inner'[gen].up => \A id \in inner'[gen].tunnels :
                             \/ id \in srv[gen]
                             \/ /\ tun'[id.of].call = "remove" /\ tun'[id.of].g = gen
                                /\ tun'[id.of].id = id.at
                        /\ \A u \in Tunnels : tun'[u].call = "insert" /\ inner'[tun'[u].g].up =>
                             IdOn(u, tun'[u].id) \in srv[tun'[u].g]
      BY DEF ServeInv
    <2>1. ASSUME inner'[gen].up, NEW id \in inner'[gen].tunnels, id \notin srv[gen]
          PROVE  tun'[id.of].call = "remove" /\ tun'[id.of].g = gen /\ tun'[id.of].id = id.at
      <3>1. inner[gen].up /\ id \in inner[gen].tunnels
        BY <1>1, <2>1
      <3>2. tun[id.of].call = "remove" /\ tun[id.of].g = gen /\ tun[id.of].id = id.at
        BY <2>1, <3>1 DEF SessionInv, ServeInv
      <3>3. id.of \in Tunnels
        BY <1>1, <3>1, MapIds
      <3> QED
        BY <3>2, <3>3 DEF CallsSame
    <2>2. ASSUME NEW u \in Tunnels, tun'[u].call = "insert", inner'[tun'[u].g].up
          PROVE  IdOn(u, tun'[u].id) \in srv[tun'[u].g]
      <3>1. tun[u].g \in DOMAIN inner
        BY CallAt
      <3> QED
        BY <2>2, <3>1 DEF SessionInv, ServeInv, CallsSame
    <2> QED
      BY <2>1, <2>2
  <1> QED
    BY <1>2, <1>3, <1>4 DEF SessionInv

\* A connection arrives for a tunnel.
LEMMA AcceptConnInv ==
  ASSUME SessionInv, NEW id \in Ids, AcceptConn(id)
  PROVE  SessionInv'
  <1>1. TypeOK /\ gen \in DOMAIN inner /\ inner \in Seq(Inners) /\ acc \in Accepts
    BY Facts DEF SessionInv
  <1>2. /\ UNCHANGED <<inner, gen, srv, tun, sess, stops>> /\ acc.pc = "accept"
        /\ conns' = conns - 1 /\ conns > 0
        /\ \/ acc' = acc
           \/ id \in inner[gen].tunnels /\ acc' = [acc EXCEPT !.pc = "send", !.ids = {id}]
    BY DEF AcceptConn, Accepting
  <1>3. conns' \in 0..MaxConns
    BY <1>1, <1>2, NgrokAssumption DEF TypeOK
  <1>4. /\ acc' \in Accepts
        /\ acc' = acc \/ (id \in inner[gen].tunnels /\ acc'.pc = "send" /\ acc'.ids = {id})
    <2>1. PICK s, p : s = {id} /\ p = "send"
      OBVIOUS
    <2>2. s \in SUBSET Ids
      BY <2>1
    <2>3. /\ [acc EXCEPT !.pc = p, !.ids = s] \in Accepts
          /\ [acc EXCEPT !.pc = p, !.ids = s].pc = p
          /\ [acc EXCEPT !.pc = p, !.ids = s].ids = s
      BY <1>1, <2>1, <2>2 DEF Accepts
    <2> QED
      BY <1>1, <1>2, <2>1, <2>3
  <1>5. TellInv'
    <2>1. CASE acc' = acc
      BY <1>2, <2>1, TellSame DEF SessionInv
    <2>2. CASE id \in inner[gen].tunnels /\ acc'.pc = "send" /\ acc'.ids = {id}
      <3>1. OneEach(inner[gen].tunnels)' /\ OneEach(acc.ids)'
        BY <1>2, <2>2 DEF SessionInv, TellInv, OneEach
      <3>2. \A u \in Tunnels : (Mapped(u)' => Mapped(u)) /\ (Handed(u)' => Mapped(u))
        BY <1>2, <2>2 DEF Mapped, Handed
      <3> QED
        BY <1>2, <2>2, <3>1, <3>2 DEF SessionInv, TellInv
    <2> QED
      BY <1>4, <2>1, <2>2
  <1>6. CallsSame /\ tun' \in [Tunnels -> TunnelStates] /\ \A u \in Tunnels : Len(tun'[u].chan) <= ChanCap
    BY <1>1, <1>2 DEF CallsSame, TypeOK
  <1>7. srv' \in [Gens -> SUBSET Ids] /\ stops' \in 0..MaxStops
    BY <1>1, <1>2 DEF TypeOK
  <1>8. acc'.pc \in {"accept", "send"}
    BY <1>2, <1>4
  <1> QED
    BY <1>1, <1>2, <1>3, <1>4, <1>5, <1>6, <1>7, <1>8, LoopStep

\* It is handed over.
LEMMA SendConnInv ==
  ASSUME SessionInv, SendConn
  PROVE  SessionInv'
  <1>1. TypeOK /\ gen \in DOMAIN inner /\ inner \in Seq(Inners) /\ acc \in Accepts
    BY Facts DEF SessionInv
  <1>2. PICK id \in acc.ids : /\ Sent(id.of, "conn")
                              /\ inner' = IF Listening(id.of) THEN inner
                                          ELSE [inner EXCEPT ![gen].tunnels = @ \ {id}]
    BY DEF SendConn
  <1>3. /\ UNCHANGED <<gen, srv, sess, conns, stops>> /\ acc.pc = "send"
        /\ acc' = [acc EXCEPT !.pc = "accept", !.ids = {}]
    BY DEF SendConn
  <1>4. id \in Ids /\ id.of \in Tunnels
    BY <1>1, IdIs DEF Accepts
  <1>5. /\ tun' \in [Tunnels -> TunnelStates] /\ CallsSame
        /\ \A u \in Tunnels : Len(tun'[u].chan) <= ChanCap
        /\ \A u \in Tunnels : tun'[u].told => tun[u].told
    BY <1>2, <1>4, SentAt
  <1>6. /\ inner' \in Seq(Inners) /\ Len(inner') = Len(inner)
        /\ \A g \in DOMAIN inner : /\ inner'[g].client = inner[g].client
                                   /\ inner'[g].tunnels \subseteq inner[g].tunnels
                                   /\ inner'[g].up = inner[g].up
    <2>1. CASE inner' = inner
      BY <1>1, <2>1
    <2>2. CASE inner' # inner
      <3>1. PICK v : v = [inner[gen] EXCEPT !.tunnels = @ \ {id}]
        OBVIOUS
      <3>2. inner' = [inner EXCEPT ![gen] = v]
        BY <1>2, <2>2, <3>1
      <3>3. /\ v \in Inners /\ v.client = inner[gen].client /\ v.up = inner[gen].up
            /\ v.tunnels = inner[gen].tunnels \ {id}
        <4>1. inner[gen] \in Inners
          BY <1>1, Facts
        <4> QED
          BY <3>1, <4>1 DEF Inners
      <3> QED
        BY <1>1, <3>2, <3>3, InnerAt
    <2> QED
      BY <2>1, <2>2
  <1>7. acc' \in Accepts /\ acc'.pc = "accept" /\ acc'.ids = {}
    <2>1. PICK s, p : s = {} /\ p = "accept"
      OBVIOUS
    <2>2. s \in SUBSET Ids
      BY <2>1
    <2>3. /\ [acc EXCEPT !.pc = p, !.ids = s] \in Accepts
          /\ [acc EXCEPT !.pc = p, !.ids = s].pc = p
          /\ [acc EXCEPT !.pc = p, !.ids = s].ids = s
      BY <1>1, <2>1, <2>2 DEF Accepts
    <2> QED
      BY <1>3, <2>1, <2>3
  <1>8. TellInv'
    <2>1. OneEach(inner'[gen'].tunnels) /\ OneEach(acc'.ids)
      BY <1>1, <1>3, <1>6, <1>7 DEF SessionInv, TellInv, OneEach
    <2>2. \A u \in Tunnels : (Mapped(u)' => Mapped(u)) /\ ~Handed(u)'
      BY <1>1, <1>3, <1>6, <1>7 DEF Mapped, Handed
    <2>3. \A u \in Tunnels : tun'[u].owner = "none" => tun[u].owner = "none"
      BY <1>5 DEF CallsSame
    <2> QED
      BY <1>5, <1>7, <2>1, <2>2, <2>3, TellKept DEF SessionInv
  <1>9. srv' \in [Gens -> SUBSET Ids] /\ stops' \in 0..MaxStops /\ conns' \in 0..MaxConns
    BY <1>1, <1>3 DEF TypeOK
  <1> QED
    BY <1>3, <1>5, <1>6, <1>7, <1>8, <1>9, LoopStep

\* The service stops a tunnel.
LEMMA AcceptStopInv ==
  ASSUME SessionInv, NEW id \in Ids, AcceptStop(id)
  PROVE  SessionInv'
  <1>1. /\ TypeOK /\ gen \in DOMAIN inner /\ inner \in Seq(Inners) /\ acc \in Accepts
        /\ gen \in Gens
    BY Facts DEF SessionInv, TypeOK
  <1>2. /\ UNCHANGED <<inner, gen, tun, sess, conns>> /\ acc.pc = "accept"
        /\ stops' = stops - 1 /\ stops > 0 /\ srv' = [srv EXCEPT ![gen] = @ \ {id}]
        /\ acc' = acc \/ acc' = [acc EXCEPT !.pc = "request", !.ids = {id}]
    BY DEF AcceptStop, Accepting
  <1>3. stops' \in 0..MaxStops /\ stops' # MaxStops /\ conns' \in 0..MaxConns
    BY <1>1, <1>2, NgrokAssumption DEF TypeOK
  <1>4. acc' \in Accepts /\ (acc' = acc \/ (acc'.pc = "request" /\ acc'.ids = {id}))
    <2>1. PICK s, p : s = {id} /\ p = "request"
      OBVIOUS
    <2>2. s \in SUBSET Ids
      BY <2>1
    <2>3. /\ [acc EXCEPT !.pc = p, !.ids = s] \in Accepts
          /\ [acc EXCEPT !.pc = p, !.ids = s].pc = p
          /\ [acc EXCEPT !.pc = p, !.ids = s].ids = s
      BY <1>1, <2>1, <2>2 DEF Accepts
    <2> QED
      BY <1>1, <1>2, <2>1, <2>3
  <1>5. TellInv'
    <2>1. CASE acc' = acc
      BY <1>2, <2>1, TellSame DEF SessionInv
    <2>2. CASE acc'.pc = "request" /\ acc'.ids = {id}
      <3>1. OneEach(inner'[gen'].tunnels) /\ OneEach(acc'.ids)
        BY <1>2, <2>2 DEF SessionInv, TellInv, OneEach
      <3>2. \A u \in Tunnels : (Mapped(u)' => Mapped(u)) /\ ~Handed(u)'
        BY <1>2, <2>2 DEF Mapped, Handed
      <3> QED
        BY <1>2, <2>2, <3>1, <3>2, TellKept DEF SessionInv
    <2> QED
      BY <1>4, <2>1, <2>2
  <1>6. CallsSame /\ tun' \in [Tunnels -> TunnelStates] /\ \A u \in Tunnels : Len(tun'[u].chan) <= ChanCap
    BY <1>1, <1>2 DEF CallsSame, TypeOK
  <1>7. srv' \in [Gens -> SUBSET Ids]
    BY <1>1, <1>2 DEF TypeOK
  <1>8. acc'.pc \in {"accept", "request"} /\ (acc'.pc = "request" => acc'.ids = {id})
    BY <1>2, <1>4
  <1> QED
    BY <1>1, <1>2, <1>3, <1>4, <1>5, <1>6, <1>7, <1>8, LoopStep

\* The StopTunnel request is read: the tunnel is out of the map before it is told.
LEMMA ReadRequestInv ==
  ASSUME SessionInv, ReadRequest
  PROVE  SessionInv'
  <1>1. /\ TypeOK /\ gen \in DOMAIN inner /\ inner \in Seq(Inners) /\ acc \in Accepts
        /\ acc.ids \in SUBSET Ids
    BY Facts DEF SessionInv, Accepts
  <1>2. PICK known, m : known = acc.ids \cap inner[gen].tunnels /\ m = inner[gen].tunnels \ known
    OBVIOUS
  <1>3. /\ UNCHANGED <<gen, srv, tun, sess, conns, stops>> /\ acc.pc = "request"
        /\ \/ known # {} /\ acc' = [acc EXCEPT !.pc = "stop"]
           \/ acc' = [acc EXCEPT !.pc = "accept", !.ids = {}]
        /\ inner' = [inner EXCEPT ![gen].tunnels = m]
    BY <1>2 DEF ReadRequest
  <1>4. /\ inner' \in Seq(Inners) /\ Len(inner') = Len(inner)
        /\ \A g \in DOMAIN inner : /\ inner'[g].client = inner[g].client
                                   /\ inner'[g].tunnels \subseteq inner[g].tunnels
                                   /\ inner'[g].up = inner[g].up
        /\ inner'[gen].tunnels = m
    <2>1. PICK v : v = [inner[gen] EXCEPT !.tunnels = m]
      OBVIOUS
    <2>2. inner' = [inner EXCEPT ![gen] = v]
      BY <1>3, <2>1
    <2>3. /\ v \in Inners /\ v.client = inner[gen].client /\ v.up = inner[gen].up
          /\ v.tunnels = m
      <3>1. inner[gen] \in Inners
        BY <1>1, Facts
      <3> QED
        BY <1>2, <2>1, <3>1 DEF Inners
    <2> QED
      BY <1>1, <1>2, <2>2, <2>3, InnerAt
  <1>5. /\ acc' \in Accepts
        /\ \/ known # {} /\ acc'.pc = "stop" /\ acc'.ids = acc.ids
           \/ acc'.pc = "accept" /\ acc'.ids = {}
    <2>1. PICK s, p : s = {} /\ p = "accept"
      OBVIOUS
    <2>2. s \in SUBSET Ids
      BY <2>1
    <2>3. /\ [acc EXCEPT !.pc = p, !.ids = s] \in Accepts
          /\ [acc EXCEPT !.pc = p, !.ids = s].pc = p
          /\ [acc EXCEPT !.pc = p, !.ids = s].ids = s
      BY <1>1, <2>1, <2>2 DEF Accepts
    <2>4. /\ [acc EXCEPT !.pc = "stop"] \in Accepts
          /\ [acc EXCEPT !.pc = "stop"].pc = "stop"
          /\ [acc EXCEPT !.pc = "stop"].ids = acc.ids
      BY <1>1 DEF Accepts
    <2> QED
      BY <1>3, <2>1, <2>3, <2>4
  <1>6. TellInv'
    <2>1. OneEach(inner'[gen'].tunnels) /\ OneEach(acc'.ids)
      BY <1>2, <1>3, <1>4, <1>5 DEF SessionInv, TellInv, OneEach
    <2>2. \A u \in Tunnels : Mapped(u)' => Mapped(u)
      BY <1>2, <1>3, <1>4 DEF Mapped
    <2>3. ASSUME NEW u \in Tunnels, Handed(u)'
          PROVE  Mapped(u) /\ ~Mapped(u)'
      <3>1. known # {} /\ acc'.ids = acc.ids
        BY <1>5, <2>3 DEF Handed
      <3>2. PICK i \in acc.ids : i.of = u
        BY <2>3, <3>1 DEF Handed
      <3>3. i \in known
        BY <1>2, <1>3, <3>1 DEF SessionInv, PlaceInv
      <3>4. Mapped(u)
        BY <1>2, <3>2, <3>3 DEF Mapped
      <3>5. \A j \in inner[gen].tunnels : j.of = u => j = i
        BY <1>2, <3>2, <3>3 DEF SessionInv, TellInv, OneEach
      <3> QED
        BY <1>2, <1>3, <1>4, <3>3, <3>4, <3>5 DEF Mapped
    <2> QED
      BY <1>3, <2>1, <2>2, <2>3 DEF SessionInv, TellInv, OneEach
  <1>7. CallsSame /\ tun' \in [Tunnels -> TunnelStates] /\ \A u \in Tunnels : Len(tun'[u].chan) <= ChanCap
    BY <1>1, <1>3 DEF CallsSame, TypeOK
  <1>8. srv' \in [Gens -> SUBSET Ids] /\ stops' \in 0..MaxStops /\ conns' \in 0..MaxConns
    BY <1>1, <1>3 DEF TypeOK
  <1>9. acc'.pc \in {"accept", "stop"}
    BY <1>5
  <1> QED
    BY <1>3, <1>4, <1>5, <1>6, <1>7, <1>8, <1>9, LoopStep

\* The owner of a stopped tunnel is told.
LEMMA SendStopInv ==
  ASSUME SessionInv, SendStop
  PROVE  SessionInv'
  <1>1. TypeOK /\ gen \in DOMAIN inner /\ inner \in Seq(Inners) /\ acc \in Accepts
    BY Facts DEF SessionInv
  <1>2. PICK id \in acc.ids : Sent(id.of, "error")
    BY DEF SendStop
  <1>3. /\ UNCHANGED <<inner, gen, srv, sess, conns, stops>> /\ acc.pc = "stop"
        /\ acc' = [acc EXCEPT !.pc = "accept", !.ids = {}]
    BY DEF SendStop
  <1>4. id \in Ids /\ id.of \in Tunnels
    BY <1>1, IdIs DEF Accepts
  <1>5. /\ tun' \in [Tunnels -> TunnelStates] /\ CallsSame
        /\ \A u \in Tunnels : Len(tun'[u].chan) <= ChanCap
        /\ \A u \in Tunnels : u # id.of => tun'[u] = tun[u]
    BY <1>2, <1>4, SentAt
  <1>6. acc' \in Accepts /\ acc'.pc = "accept" /\ acc'.ids = {}
    <2>1. PICK s, p : s = {} /\ p = "accept"
      OBVIOUS
    <2>2. s \in SUBSET Ids
      BY <2>1
    <2>3. /\ [acc EXCEPT !.pc = p, !.ids = s] \in Accepts
          /\ [acc EXCEPT !.pc = p, !.ids = s].pc = p
          /\ [acc EXCEPT !.pc = p, !.ids = s].ids = s
      BY <1>1, <2>1, <2>2 DEF Accepts
    <2> QED
      BY <1>3, <2>1, <2>3
  <1>7. TellInv'
    <2>1. OneEach(inner[gen].tunnels)' /\ OneEach(acc.ids)'
      BY <1>3, <1>6 DEF SessionInv, TellInv, OneEach
    <2>2. \A u \in Tunnels : (Mapped(u)' => Mapped(u)) /\ ~Handed(u)'
      BY <1>3, <1>6 DEF Mapped, Handed
    <2>3. Handed(id.of) /\ ~Mapped(id.of) /\ tun[id.of].owner # "none"
      BY <1>3, <1>4 DEF SessionInv, TellInv, Handed
    <2>4. ASSUME NEW u \in Tunnels
          PROVE  /\ tun'[u].owner = "none" => ~tun'[u].told
                 /\ tun'[u].owner = "none" \/ tun'[u].told => ~Mapped(u)'
      <3>1. CASE u = id.of
        BY <1>5, <2>2, <2>3, <3>1 DEF CallsSame
      <3>2. CASE u # id.of
        BY <1>5, <2>2, <3>2 DEF SessionInv, TellInv
      <3> QED
        BY <3>1, <3>2
    <2> QED
      BY <2>1, <2>2, <2>4 DEF TellInv
  <1>8. srv' \in [Gens -> SUBSET Ids] /\ stops' \in 0..MaxStops /\ conns' \in 0..MaxConns
    BY <1>1, <1>3 DEF TypeOK
  <1> QED
    BY <1>1, <1>3, <1>5, <1>6, <1>7, <1>8, LoopStep

\* The connection is lost, the loop is to retry; or it gives up.
LEMMA RetryInv ==
  ASSUME SessionInv, AcceptFails \/ GiveUp
  PROVE  SessionInv'
  <1>1. /\ TypeOK /\ gen \in DOMAIN inner /\ inner \in Seq(Inners) /\ acc \in Accepts
        /\ inner[gen] \in Inners /\ inner[gen].tunnels \in SUBSET Ids
    BY Facts DEF SessionInv, Inners
  <1>2. /\ UNCHANGED <<gen, srv, tun, sess, conns, stops>> /\ acc.pc \in {"accept", "retry"}
        /\ srv' \in [Gens -> SUBSET Ids] /\ stops' \in 0..MaxStops /\ conns' \in 0..MaxConns
    BY <1>1 DEF AcceptFails, GiveUp, TypeOK
  <1>3. CallsSame /\ tun' \in [Tunnels -> TunnelStates] /\ \A u \in Tunnels : Len(tun'[u].chan) <= ChanCap
    BY <1>1, <1>2 DEF CallsSame, TypeOK
  <1>4. CASE AcceptFails
    <2>1. UNCHANGED inner /\ acc' = [acc EXCEPT !.pc = "retry"]
      BY <1>4 DEF AcceptFails
    <2>2. acc' \in Accepts /\ acc'.pc = "retry" /\ acc'.ids = acc.ids
      BY <1>1, <2>1 DEF Accepts
    <2>3. OneEach(inner'[gen'].tunnels) /\ OneEach(acc'.ids)
      BY <1>2, <2>1, <2>2 DEF SessionInv, TellInv, OneEach
    <2>4. \A u \in Tunnels : (Mapped(u)' => Mapped(u)) /\ ~Handed(u)'
      BY <1>2, <2>1, <2>2 DEF Mapped, Handed
    <2>5. TellInv'
      BY <1>2, <2>2, <2>3, <2>4, TellKept DEF SessionInv
    <2> QED
      BY <1>1, <1>2, <1>3, <2>1, <2>2, <2>5, LoopStep
  <1>5. CASE GiveUp
    <2>1. PICK m, s, p, v : /\ m = {} /\ s = inner[gen].tunnels /\ p = "drain"
                            /\ v = [inner[gen] EXCEPT !.tunnels = m]
      OBVIOUS
    <2>2. /\ inner' = [inner EXCEPT ![gen] = v] /\ acc' = [acc EXCEPT !.pc = p, !.ids = s]
      BY <1>5, <2>1 DEF GiveUp
    <2>3. acc' \in Accepts /\ acc'.pc = "drain" /\ acc'.ids = inner[gen].tunnels
      <3>1. s \in SUBSET Ids
        BY <1>1, <2>1
      <3>2. acc' \in Accepts /\ acc'.pc = p /\ acc'.ids = s
        BY <1>1, <2>1, <2>2, <3>1 DEF Accepts
      <3> QED
        BY <2>1, <3>2
    <2>4. v \in Inners /\ v.client = inner[gen].client /\ v.up = inner[gen].up /\ v.tunnels = {}
      <3>1. m \in SUBSET Ids
        BY <2>1
      <3>2. v \in Inners /\ v.client = inner[gen].client /\ v.up = inner[gen].up /\ v.tunnels = m
        BY <1>1, <2>1, <3>1 DEF Inners
      <3> QED
        BY <2>1, <3>2
    <2>5. /\ inner' \in Seq(Inners) /\ Len(inner') = Len(inner)
          /\ \A g \in DOMAIN inner : /\ inner'[g].client = inner[g].client
                                     /\ inner'[g].tunnels \subseteq inner[g].tunnels
                                     /\ inner'[g].up = inner[g].up
          /\ inner'[gen].tunnels = {}
      BY <1>1, <2>2, <2>4, InnerAt
    <2>6. OneEach(inner[gen].tunnels)' /\ OneEach(acc.ids)'
      BY <1>2, <2>3, <2>5 DEF SessionInv, TellInv, OneEach
    <2>7. \A u \in Tunnels : ~Mapped(u)' /\ (Handed(u)' => Mapped(u))
      BY <1>2, <2>3, <2>5 DEF Mapped, Handed
    <2>8. TellInv'
      BY <1>2, <2>6, <2>7 DEF SessionInv, TellInv
    <2> QED
      BY <1>2, <1>3, <2>3, <2>5, <2>8, LoopStep
  <1> QED
    BY <1>4, <1>5

\* The loop tells the tunnels, one after the other, and returns.
LEMMA DrainInv ==
  ASSUME SessionInv, Drain
  PROVE  SessionInv'
  <1>1. /\ TypeOK /\ gen \in DOMAIN inner /\ inner \in Seq(Inners) /\ acc \in Accepts
        /\ acc.ids \in SUBSET Ids
    BY Facts DEF SessionInv, Accepts
  <1>2. /\ UNCHANGED <<inner, gen, srv, sess, conns, stops>> /\ acc.pc = "drain"
        /\ srv' \in [Gens -> SUBSET Ids] /\ stops' \in 0..MaxStops /\ conns' \in 0..MaxConns
    BY <1>1 DEF Drain, TypeOK
  <1>3. CASE acc.ids = {} /\ acc' = [acc EXCEPT !.pc = "done", !.hasSession = FALSE] /\ UNCHANGED tun
    <2>1. acc' \in Accepts /\ acc'.pc = "done" /\ acc'.ids = acc.ids
      BY <1>1, <1>3 DEF Accepts
    <2>2. CallsSame /\ tun' \in [Tunnels -> TunnelStates] /\ \A u \in Tunnels : Len(tun'[u].chan) <= ChanCap
      BY <1>1, <1>3 DEF CallsSame, TypeOK
    <2>3. OneEach(inner'[gen'].tunnels) /\ OneEach(acc'.ids)
      BY <1>2, <2>1 DEF SessionInv, TellInv, OneEach
    <2>4. \A u \in Tunnels : (Mapped(u)' => Mapped(u)) /\ ~Handed(u)'
      BY <1>2, <2>1 DEF Mapped, Handed
    <2>5. TellInv'
      BY <1>3, <2>1, <2>3, <2>4, TellKept DEF SessionInv
    <2> QED
      BY <1>1, <1>2, <2>1, <2>2, <2>5, LoopStep
  <1>4. ASSUME NEW id \in acc.ids, Sent(id.of, "error"), acc' = [acc EXCEPT !.ids = @ \ {id}]
        PROVE  SessionInv'
    <2>1. id \in Ids /\ id.of \in Tunnels
      BY <1>1, IdIs
    <2>2. /\ tun' \in [Tunnels -> TunnelStates] /\ CallsSame
          /\ \A u \in Tunnels : Len(tun'[u].chan) <= ChanCap
          /\ \A u \in Tunnels : u # id.of => tun'[u] = tun[u]
      BY <1>4, <2>1, SentAt
    <2>3. acc' \in Accepts /\ acc'.pc = "drain" /\ acc'.ids = acc.ids \ {id}
      <3>1. PICK s : s = acc.ids \ {id}
        OBVIOUS
      <3>2. s \in SUBSET Ids /\ acc' = [acc EXCEPT !.ids = s]
        BY <1>1, <1>4, <3>1
      <3>3. acc' \in Accepts /\ acc'.pc = acc.pc /\ acc'.ids = s
        BY <1>1, <3>2 DEF Accepts
      <3> QED
        BY <1>2, <3>1, <3>3
    <2>4. OneEach(inner[gen].tunnels)' /\ OneEach(acc.ids)'
      BY <1>2, <2>3 DEF SessionInv, TellInv, OneEach
    <2>5. \A u \in Tunnels : (Mapped(u)' => Mapped(u)) /\ (Handed(u)' => Handed(u))
      BY <1>2, <2>3 DEF Mapped, Handed
    <2>6. /\ Handed(id.of) /\ ~Mapped(id.of) /\ tun[id.of].owner # "none"
      BY <1>2, <2>1 DEF SessionInv, TellInv, Handed
    <2>7. ~Handed(id.of)'
      BY <1>2, <2>3 DEF SessionInv, TellInv, OneEach, Handed
    <2>8. ASSUME NEW u \in Tunnels
          PROVE  /\ tun'[u].owner = "none" => ~tun'[u].told
                 /\ tun'[u].owner = "none" \/ tun'[u].told => ~Mapped(u)' /\ ~Handed(u)'
                 /\ ~(Handed(u)' /\ Mapped(u)')
      <3>1. CASE u = id.of
        BY <2>2, <2>5, <2>6, <2>7, <3>1 DEF CallsSame
      <3>2. CASE u # id.of
        BY <1>2, <2>2, <2>5, <3>2 DEF SessionInv, TellInv
      <3> QED
        BY <3>1, <3>2
    <2>9. TellInv'
      BY <2>4, <2>8 DEF TellInv
    <2> QED
      BY <1>1, <1>2, <2>2, <2>3, <2>9, LoopStep
  <1> QED
    BY <1>3, <1>4 DEF Drain
----------------------------------------------------------------------------
(* Reconnecting.                                                           *)

\* A connection beside the one in use comes or goes.
LEMMA SpareStep ==
  ASSUME SessionInv, UNCHANGED <<gen, tun, sess, conns, stops>>,
         inner' \in Seq(Inners),
         \A g \in 1..gen : inner'[g] = inner[g],
         \/ Len(inner') = gen /\ acc'.pc = "retry"
         \/ /\ Len(inner') = gen + 1 /\ inner'[gen + 1].client = "free"
            /\ acc'.pc = "rebind" /\ gen < MaxGen,
         srv' \in [Gens -> SUBSET Ids], \A g \in 1..gen : srv'[g] = srv[g],
         acc' \in Accepts, acc'.ids = acc.ids
  PROVE  SessionInv'
  <1>1. /\ TypeOK /\ gen \in 1..gen /\ gen \in Nat /\ DOMAIN inner' = 1..Len(inner')
        /\ \A g \in 1..gen : g \in DOMAIN inner
    BY Facts DEF SessionInv
  <1>2. TypeOK'
    <2>1. ASSUME NEW g \in DOMAIN inner', inner'[g].client # "free"
          PROVE  tun'[inner'[g].client].call = "insert" /\ tun'[inner'[g].client].g = g
      <3>1. g \in 1..gen
        <4>1. g \in 1..Len(inner')
          BY <1>1
        <4>2. CASE Len(inner') = gen
          BY <4>1, <4>2
        <4>3. CASE Len(inner') = gen + 1 /\ inner'[gen + 1].client = "free"
          <5>1. g # gen + 1
            BY <2>1, <4>3
          <5> QED
            BY <1>1, <4>1, <4>3, <5>1
        <4> QED
          BY <4>2, <4>3
      <3>2. inner'[g] = inner[g] /\ g \in DOMAIN inner
        BY <1>1, <3>1
      <3> QED
        BY <1>1, <2>1, <3>2 DEF TypeOK
    <2> QED
      BY <1>1, <2>1 DEF TypeOK
  <1>3. PlaceInv'
    BY <1>1 DEF SessionInv, PlaceInv
  <1>4. TellInv'
    <2>1. OneEach(inner'[gen'].tunnels) /\ OneEach(acc'.ids)
      BY <1>1 DEF SessionInv, TellInv, OneEach
    <2>2. \A u \in Tunnels : (Mapped(u)' => Mapped(u)) /\ ~Handed(u)'
      BY <1>1 DEF Mapped, Handed
    <2> QED
      BY <2>1, <2>2, TellKept DEF SessionInv
  <1>5. ServeInv'
    <2>1. \A u \in Tunnels : tun[u].g \in 1..gen
      <3>1. \A u \in Tunnels : tun[u].g \in Gens /\ tun[u].g <= gen
        BY CallAt DEF SessionInv, PlaceInv
      <3> QED
        BY <1>1, <3>1, Facts DEF Gens
    <2> QED
      BY <1>1, <2>1 DEF SessionInv, ServeInv
  <1> QED
    BY <1>2, <1>3, <1>4, <1>5 DEF SessionInv

\* A new connection, or its end when a listen on it fails.
LEMMA ConnectInv ==
  ASSUME SessionInv, Connect \/ RebindFails
  PROVE  SessionInv'
  <1>1. /\ TypeOK /\ gen \in Nat /\ gen \in 1..MaxGen /\ MaxGen \in Nat /\ inner \in Seq(Inners)
        /\ acc \in Accepts /\ srv \in [Gens -> SUBSET Ids] /\ gen <= Len(inner)
    BY Facts DEF SessionInv, TypeOK
  <1>2. UNCHANGED <<gen, tun, sess, conns, stops>>
    BY DEF Connect, RebindFails
  <1>3. CASE Connect
    <2>1. PICK e : e = NewInner
      OBVIOUS
    <2>2. /\ acc.pc = "retry" /\ gen < MaxGen /\ inner' = Append(inner, e)
          /\ acc' = [acc EXCEPT !.pc = "rebind"] /\ UNCHANGED srv
      BY <1>3, <2>1 DEF Connect
    <2>3. e \in Inners /\ e.client = "free"
      BY <2>1 DEF NewInner, Inners
    <2>4. Len(inner) = gen
      BY <2>2 DEF SessionInv, PlaceInv
    <2>5. /\ inner' \in Seq(Inners) /\ Len(inner') = gen + 1
          /\ inner'[gen + 1] = e /\ \A g \in 1..gen : inner'[g] = inner[g]
      BY <1>1, <2>2, <2>3, <2>4
    <2>6. acc' \in Accepts /\ acc'.pc = "rebind" /\ acc'.ids = acc.ids
      BY <1>1, <2>2 DEF Accepts
    <2>7. inner'[gen + 1].client = "free"
      BY <2>3, <2>5
    <2> QED
      BY <1>1, <1>2, <2>2, <2>5, <2>6, <2>7, SpareStep
  <1>4. CASE RebindFails
    <2>1. /\ acc.pc = "rebind" /\ inner' = SubSeq(inner, 1, gen)
          /\ acc' = [acc EXCEPT !.pc = "retry"] /\ srv' = [srv EXCEPT ![gen + 1] = {}]
      BY <1>4 DEF RebindFails
    <2>2. /\ inner' \in Seq(Inners) /\ Len(inner') = gen
          /\ \A g \in 1..gen : inner'[g] = inner[g]
      BY <1>1, <2>1
    <2>3. acc' \in Accepts /\ acc'.pc = "retry" /\ acc'.ids = acc.ids
      BY <1>1, <2>1 DEF Accepts
    <2>4. srv' \in [Gens -> SUBSET Ids] /\ \A g \in 1..gen : srv'[g] = srv[g]
      <3>1. PICK n, s : n = gen + 1 /\ s = {}
        OBVIOUS
      <3>2. s \in SUBSET Ids /\ srv' = [srv EXCEPT ![n] = s]
        BY <2>1, <3>1
      <3>3. srv' \in [Gens -> SUBSET Ids] /\ \A g \in Gens : g # n => srv'[g] = srv[g]
        BY <1>1, <3>2
      <3>4. \A g \in 1..gen : g \in Gens /\ g # n
        BY <1>1, <3>1 DEF Gens
      <3> QED
        BY <3>3, <3>4
    <2> QED
      BY <1>2, <2>2, <2>3, <2>4, SpareStep
  <1> QED
    BY <1>3, <1>4

\* The tunnel of an id stays the same when it is bound again.
LEMMA ReboundIs ==
  ASSUME NEW id \in Ids, NEW g \in Gens
  PROVE  Rebound(id, g) \in Ids /\ Rebound(id, g).of = id.of
  BY IdIs DEF Rebound

\* The tunnels are bound on the new connection, which is swapped in.
LEMMA RebindInv ==
  ASSUME SessionInv, Rebind
  PROVE  SessionInv'
  <1>1. /\ TypeOK /\ gen \in Nat /\ gen \in 1..MaxGen /\ MaxGen \in Nat /\ inner \in Seq(Inners)
        /\ acc \in Accepts /\ srv \in [Gens -> SUBSET Ids] /\ DOMAIN inner = 1..Len(inner)
        /\ gen \in DOMAIN inner
    BY Facts DEF SessionInv, TypeOK
  <1>2. PICK now, n, v : /\ now = {Rebound(id, gen + 1) : id \in inner[gen].tunnels}
                         /\ n = gen + 1 /\ v = [inner[n] EXCEPT !.tunnels = now]
    OBVIOUS
  <1>3. /\ acc.pc = "rebind" /\ inner' = [inner EXCEPT ![n] = v]
        /\ srv' = [srv EXCEPT ![n] = now] /\ gen' = n
        /\ acc' = [acc EXCEPT !.pc = "accept", !.hasSession = FALSE]
        /\ UNCHANGED <<tun, sess, conns, stops>>
    BY <1>2 DEF Rebind
  <1>4. Len(inner) = n /\ gen < MaxGen
    BY <1>2, <1>3 DEF SessionInv, PlaceInv
  <1>5. n \in Gens /\ n \in DOMAIN inner /\ inner[n] \in Inners /\ n # gen
    BY <1>1, <1>2, <1>4, Facts DEF Gens
  <1>6. \A i \in inner[gen].tunnels : i \in Ids
    BY <1>1, MapIds
  <1>7. ASSUME NEW i \in now
        PROVE  i \in Ids /\ \E id \in inner[gen].tunnels : i = Rebound(id, n) /\ i.of = id.of
    <2>1. PICK id \in inner[gen].tunnels : i = Rebound(id, n)
      BY <1>2
    <2> QED
      BY <1>5, <1>6, <2>1, ReboundIs
  <1>8. v \in Inners /\ v.tunnels = now /\ v.up = inner[n].up /\ v.client = inner[n].client
    <2>1. now \in SUBSET Ids
      BY <1>7
    <2> QED
      BY <1>2, <1>5, <2>1 DEF Inners
  <1>9. /\ inner' \in Seq(Inners) /\ Len(inner') = n /\ DOMAIN inner' = DOMAIN inner
        /\ inner'[n] = v /\ \A h \in DOMAIN inner : h # n => inner'[h] = inner[h]
    BY <1>1, <1>3, <1>4, <1>5, <1>8, InnerAt
  <1>10. /\ srv' \in [Gens -> SUBSET Ids] /\ srv'[n] = now
         /\ \A h \in Gens : h # n => srv'[h] = srv[h]
    BY <1>1, <1>3, <1>5, <1>7
  <1>11. acc' \in Accepts /\ acc'.pc = "accept" /\ acc'.ids = acc.ids
    BY <1>1, <1>3 DEF Accepts
  <1>12. TypeOK'
    <2>1. ASSUME NEW g \in DOMAIN inner', inner'[g].client # "free"
          PROVE  tun'[inner'[g].client].call = "insert" /\ tun'[inner'[g].client].g = g
      <3>1. g \in DOMAIN inner /\ inner'[g].client = inner[g].client
        BY <1>8, <1>9, <2>1
      <3> QED
        BY <1>1, <1>3, <2>1, <3>1 DEF TypeOK
    <2> QED
      BY <1>1, <1>3, <1>5, <1>9, <1>10, <1>11, <2>1 DEF TypeOK
  <1>13. PlaceInv'
    <2>1. sess.g <= gen /\ sess.g \in Gens /\ \A u \in Tunnels : tun[u].g <= gen /\ tun[u].g \in Gens
      BY <1>1, CallAt DEF SessionInv, PlaceInv, TypeOK
    <2>2. sess.g <= n /\ \A u \in Tunnels : tun[u].g <= n
      BY <1>1, <1>2, <2>1 DEF Gens
    <2> QED
      BY <1>3, <1>9, <1>11, <2>2 DEF SessionInv, PlaceInv
  <1>14. TellInv'
    <2>1. OneEach(inner'[gen'].tunnels)
      BY <1>3, <1>7, <1>8, <1>9 DEF SessionInv, TellInv, OneEach
    <2>2. OneEach(acc'.ids)
      BY <1>11 DEF SessionInv, TellInv, OneEach
    <2>3. \A u \in Tunnels : (Mapped(u)' => Mapped(u)) /\ ~Handed(u)'
      BY <1>3, <1>7, <1>8, <1>9, <1>11 DEF Mapped, Handed
    <2> QED
      BY <1>3, <1>11, <2>1, <2>2, <2>3, TellKept DEF SessionInv
  <1>15. ServeInv'
    <2>1. \A u \in Tunnels : tun[u].g \in DOMAIN inner /\ tun[u].g \in Gens /\ tun[u].g # n
      <3>1. \A u \in Tunnels : tun[u].g \in DOMAIN inner /\ tun[u].g <= gen /\ tun[u].g \in Gens
        BY CallAt DEF SessionInv, PlaceInv
      <3> QED
        BY <1>1, <1>2, <3>1 DEF Gens
    <2>2. \A u \in Tunnels : inner'[tun[u].g] = inner[tun[u].g] /\ srv'[tun[u].g] = srv[tun[u].g]
      BY <1>9, <1>10, <2>1
    <2> QED
      BY <1>3, <1>8, <1>9, <1>10, <2>2 DEF SessionInv, ServeInv
  <1> QED
    BY <1>12, <1>13, <1>14, <1>15 DEF SessionInv
----------------------------------------------------------------------------
(* The specification.                                                      *)

\* A session starts with one connection and no tunnel.
LEMMA InitInv ==
  ASSUME Init
  PROVE  SessionInv
  <1>1. PICK e, c : e = NewInner /\ c = <<>> /\ inner = <<e>>
    BY DEF Init
  <1>2. e \in Inners /\ e.client = "free" /\ e.tunnels = {} /\ e.up
    BY <1>1 DEF NewInner, Inners
  <1>3. inner \in Seq(Inners) /\ Len(inner) = 1 /\ DOMAIN inner = {1} /\ inner[1] = e
    BY <1>1, <1>2
  <1>4. \A t \in Tunnels : /\ tun[t] \in TunnelStates /\ tun[t].owner = "none" /\ tun[t].call = "none"
                           /\ tun[t].g = 1 /\ ~tun[t].told /\ tun[t].chan = <<>>
    <2>1. 1 \in Gens /\ c \in Seq({"conn", "error"})
      BY <1>1, NgrokAssumption DEF Gens
    <2>2. NewTunnel = [owner |-> "none", call |-> "none", g |-> 1, id |-> 1, chan |-> c, told |-> FALSE]
      BY <1>1 DEF NewTunnel
    <2>3. /\ NewTunnel \in TunnelStates /\ NewTunnel.owner = "none" /\ NewTunnel.call = "none"
          /\ NewTunnel.g = 1 /\ ~NewTunnel.told /\ NewTunnel.chan = c
      BY <2>1, <2>2 DEF TunnelStates
    <2> QED
      BY <1>1, <2>3 DEF Init
  <1>5. gen = 1 /\ gen \in Gens /\ srv \in [Gens -> SUBSET Ids] /\ tun \in [Tunnels -> TunnelStates]
    <2>1. gen = 1 /\ gen \in Gens /\ srv \in [Gens -> SUBSET Ids]
      BY NgrokAssumption DEF Init, Gens
    <2>2. tun \in [Tunnels -> TunnelStates]
      <3>1. tun = [t \in Tunnels |-> NewTunnel]
        BY DEF Init
      <3>2. \A t \in Tunnels : NewTunnel \in TunnelStates
        BY <1>4, <3>1
      <3> QED
        BY <3>1, <3>2
    <2> QED
      BY <2>1, <2>2
  <1>6. acc \in Accepts /\ acc.pc = "accept" /\ acc.ids = {}
    <2>1. PICK s \in SUBSET Ids : s = {}
      OBVIOUS
    <2>2. acc = [pc |-> "accept", ids |-> s, hasSession |-> TRUE]
      BY <2>1 DEF Init
    <2>3. acc \in Accepts /\ acc.pc = "accept" /\ acc.ids = s
      BY <2>1, <2>2 DEF Accepts
    <2> QED
      BY <2>1, <2>3
  <1>7. sess \in [held : BOOLEAN, call : {"none", "close", "closed"}, g : Gens] /\ sess.g = 1
    BY <1>5 DEF Init
  <1>8. TypeOK
    <2>1. conns \in 0..MaxConns /\ stops \in 0..MaxStops
      BY NgrokAssumption DEF Init
    <2>2. \A t \in Tunnels : Len(tun[t].chan) <= ChanCap
      BY <1>4, NgrokAssumption
    <2> QED
      BY <1>2, <1>3, <1>5, <1>6, <1>7, <2>1, <2>2 DEF TypeOK
  <1>9. PlaceInv
    BY <1>3, <1>4, <1>5, <1>6, <1>7 DEF PlaceInv
  <1>10. TellInv
    BY <1>2, <1>3, <1>4, <1>5, <1>6 DEF TellInv, OneEach, Mapped, Handed
  <1>11. ServeInv
    BY <1>2, <1>3, <1>4, <1>5 DEF ServeInv
  <1> QED
    BY <1>8, <1>9, <1>10, <1>11 DEF SessionInv

\* Nothing happens.
LEMMA IdleInv ==
  ASSUME SessionInv, UNCHANGED vars
  PROVE  SessionInv'
  <1>1. TypeOK' /\ PlaceInv'
    BY DEF SessionInv, TypeOK, PlaceInv, vars
  <1>2. TellInv'
    BY TellSame DEF SessionInv, vars
  <1>3. ServeInv'
    BY DEF SessionInv, ServeInv, vars
  <1> QED
    BY <1>1, <1>2, <1>3 DEF SessionInv

\* Every step keeps the invariant.
LEMMA NextInv ==
  ASSUME SessionInv, [Next]_vars
  PROVE  SessionInv'
  <1>1. ASSUME NEW t \in Tunnels, Owner(t) \/ Receive(t) \/ Call(t)
        PROVE  SessionInv'
    BY <1>1, PlainCalls, ListenInv, InsertInv, UnlistenInv, RemoveInv DEF Owner, Call
  <1>2. CASE CloseSession \/ CloseDone \/ DropSession
    BY <1>2, LinkSteps
  <1>3. CASE Loop
    BY <1>3, SendConnInv, ReadRequestInv, SendStopInv, RetryInv, ConnectInv, RebindInv, DrainInv,
       LinkSteps DEF Loop
  <1>4. CASE Service
    <2>1. ASSUME NEW id \in Ids, AcceptConn(id) \/ AcceptStop(id) PROVE SessionInv'
      BY <2>1, AcceptConnInv, AcceptStopInv
    <2>2. ASSUME NEW g \in DOMAIN inner, Disconnect(g) PROVE SessionInv'
      BY <2>2, LinkSteps
    <2> QED
      BY <1>4, <2>1, <2>2 DEF Service
  <1>5. CASE UNCHANGED vars
    BY <1>5, IdleInv
  <1> QED
    BY <1>1, <1>2, <1>3, <1>4, <1>5 DEF Next

\* The invariant holds in every reachable state.
LEMMA Reached == Spec => []SessionInv
  BY InitInv, NextInv, PTL DEF Spec

\* However calls, requests and reconnects interleave, values keep their types: no
\* tunnel's channel is over its capacity, and the Mutex of a connection's RpcClient
\* is held by nobody but a start_tunnel that is about to write that connection's map.
THEOREM Typed == Spec => []TypeOK
  <1>1. SessionInv => TypeOK
    BY DEF SessionInv
  <1> QED
    BY <1>1, Reached, PTL

\* What accept_one looks ids up in is what the service has bound: with no tunnel
\* stopped by the service, whatever is in the map of a live connection is bound on
\* it under that id, through any reconnects, or a close of that tunnel is under way.
THEOREM ServesMap == Spec => []MapIsServed
  <1>1. SessionInv => MapIsServed
    BY DEF SessionInv, ServeInv, MapIsServed
  <1> QED
    BY <1>1, Reached, PTL

\* A step puts something in the channel of a tunnel only when the loop was about to.
LEMMA GrowsByLoop ==
  ASSUME SessionInv, [Next]_vars, NEW t \in Tunnels, tun[t].told
  PROVE  Len(tun'[t].chan) <= Len(tun[t].chan)
  <1>1. /\ TypeOK /\ tun \in [Tunnels -> TunnelStates] /\ ~Handed(t)
        /\ \A u \in Tunnels : tun[u].chan \in Seq({"conn", "error"}) /\ Len(tun[u].chan) \in Nat
    BY Facts DEF SessionInv, TellInv, TunnelStates, TypeOK
  <1>2. CASE UNCHANGED tun
    BY <1>1, <1>2
  <1>3. ASSUME NEW u \in Tunnels, Owner(u) \/ Receive(u) \/ Call(u)
        PROVE  Len(tun'[t].chan) <= Len(tun[t].chan)
    <2>1. CASE Receive(u)
      <3>1. PICK c : c = Tail(tun[u].chan)
        OBVIOUS
      <3>2. Len(c) <= Len(tun[u].chan)
        BY <1>1, <2>1, <3>1 DEF Receive
      <3>3. tun' = [tun EXCEPT ![u].chan = c]
        BY <2>1, <3>1 DEF Receive
      <3>4. tun'[t].chan = IF t = u THEN c ELSE tun[t].chan
        BY <1>1, <3>3 DEF TunnelStates
      <3> QED
        BY <1>1, <3>2, <3>4
    <2>2. CASE DropTunnel(u)
      <3>1. PICK c : c = <<>>
        OBVIOUS
      <3>2. tun' = [tun EXCEPT ![u].owner = "dropped", ![u].chan = c, ![u].call = "spawned"]
        BY <2>2, <3>1 DEF DropTunnel
      <3>3. tun'[t].chan = IF t = u THEN c ELSE tun[t].chan
        BY <1>1, <3>2 DEF TunnelStates
      <3> QED
        BY <1>1, <3>1, <3>3
    <2>3. CASE CloseTunnel(u) \/ RunClose(u)
      <3>1. PICK s : s = [tun[u] EXCEPT !.call = "unlisten", !.g = gen]
        OBVIOUS
      <3>2. s.chan = tun[u].chan
        BY <1>1, <3>1 DEF TunnelStates
      <3>3. tun' = [tun EXCEPT ![u] = s]
        BY <2>3, <3>1 DEF CloseTunnel, RunClose
      <3> QED
        BY <1>1, <3>2, <3>3
    <2>4. CASE StartTunnel(u)
      <3>1. PICK s : s = [tun[u] EXCEPT !.call = "listen", !.g = gen]
        OBVIOUS
      <3>2. s.chan = tun[u].chan
        BY <1>1, <3>1 DEF TunnelStates
      <3>3. tun' = [tun EXCEPT ![u] = s]
        BY <2>4, <3>1 DEF StartTunnel
      <3> QED
        BY <1>1, <3>2, <3>3
    <2>5. CASE Listen(u)
      <3>1. PICK s : s = [tun[u] EXCEPT !.call = "insert", !.id = tun[u].g]
        OBVIOUS
      <3>2. s.chan = tun[u].chan
        BY <1>1, <3>1 DEF TunnelStates
      <3>3. tun' = [tun EXCEPT ![u] = s]
        BY <2>5, <3>1 DEF Listen
      <3> QED
        BY <1>1, <3>2, <3>3
    <2>6. CASE ListenFails(u) \/ UnlistenFails(u)
      <3>1. PICK s : s = [tun[u] EXCEPT !.call = "none"]
        OBVIOUS
      <3>2. s.chan = tun[u].chan
        BY <1>1, <3>1 DEF TunnelStates
      <3>3. tun' = [tun EXCEPT ![u] = s]
        BY <2>6, <3>1 DEF ListenFails, UnlistenFails
      <3> QED
        BY <1>1, <3>2, <3>3
    <2>7. CASE Unlisten(u)
      <3>1. PICK s : s = [tun[u] EXCEPT !.call = "remove"]
        OBVIOUS
      <3>2. s.chan = tun[u].chan
        BY <1>1, <3>1 DEF TunnelStates
      <3>3. tun' = [tun EXCEPT ![u] = s]
        BY <2>7, <3>1 DEF Unlisten
      <3> QED
        BY <1>1, <3>2, <3>3
    <2>8. CASE Insert(u)
      <3>1. PICK s : s = [tun[u] EXCEPT !.call = "none", !.owner = "held"]
        OBVIOUS
      <3>2. s.chan = tun[u].chan
        BY <1>1, <3>1 DEF TunnelStates
      <3>3. tun' = [tun EXCEPT ![u] = s]
        BY <2>8, <3>1 DEF Insert
      <3> QED
        BY <1>1, <3>2, <3>3
    <2>9. CASE Remove(u)
      <3>1. PICK o, s : /\ o = (IF tun[u].owner = "held" THEN "closed" ELSE tun[u].owner)
                        /\ s = [tun[u] EXCEPT !.call = "none", !.owner = o]
        OBVIOUS
      <3>2. s.chan = tun[u].chan
        BY <1>1, <3>1 DEF TunnelStates
      <3>3. tun' = [tun EXCEPT ![u] = s]
        BY <2>9, <3>1 DEF Remove
      <3> QED
        BY <1>1, <3>2, <3>3
    <2> QED
      BY <1>3, <2>1, <2>2, <2>3, <2>4, <2>5, <2>6, <2>7, <2>8, <2>9 DEF Owner, Call
  <1>4. ASSUME NEW id \in acc.ids, NEW item \in {"conn", "error"}, Sent(id.of, item),
               acc.pc \in {"send", "stop", "drain"}
        PROVE  Len(tun'[t].chan) <= Len(tun[t].chan)
    <2>1. id \in Ids /\ id.of \in Tunnels
      BY <1>1, IdIs DEF TypeOK, Accepts
    <2>2. id.of # t
      BY <1>1, <1>4 DEF Handed
    <2>3. tun'[t] = tun[t]
      BY <1>4, <2>1, <2>2, SentAt
    <2> QED
      BY <1>1, <2>3
  <1>5. CASE Loop
    <2>1. CASE SendConn
      BY <1>4, <2>1 DEF SendConn
    <2>2. CASE SendStop
      BY <1>4, <2>2 DEF SendStop
    <2>3. CASE Drain
      BY <1>2, <1>4, <2>3 DEF Drain
    <2>4. CASE ~(SendConn \/ SendStop \/ Drain)
      BY <1>2, <1>5, <2>4 DEF Loop, ReadRequest, AcceptFails, Connect, RebindFails, Rebind, GiveUp,
         CancelAccept
    <2> QED
      BY <2>1, <2>2, <2>3, <2>4
  <1>6. CASE CloseSession \/ CloseDone \/ DropSession \/ Service \/ UNCHANGED vars
    BY <1>2, <1>6 DEF CloseSession, CloseDone, DropSession, Service, AcceptConn, AcceptStop,
       Disconnect, vars
  <1> QED
    BY <1>3, <1>5, <1>6 DEF Next

\* The error is the last thing a tunnel gets: once the loop has sent one, because the
\* service stopped the tunnel or the session ended, no later step puts anything in
\* the channel its owner reads, whatever ids reconnects bind and calls are under way.
THEOREM ErrorIsLast == Spec => ToldIsFinal
  <1>1. ASSUME SessionInv, [Next]_vars
        PROVE  [\A t \in Tunnels : tun[t].told => Len(tun'[t].chan) <= Len(tun[t].chan)]_vars
    BY <1>1, GrowsByLoop
  <1> QED
    BY <1>1, Reached, PTL DEF Spec, ToldIsFinal
=============================================================================
