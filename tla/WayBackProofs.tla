----------------------------- MODULE WayBackProofs -----------------------------
(***************************************************************************)
(* Why an answer finds its way to the client's daemon: what carries or     *)
(* forwards it has seen the flood of that daemon's own request.            *)
(***************************************************************************)
EXTENDS ServiceProofs

(* All clients run beside one daemon.                                      *)
OneHome == \A y, z \in Clients : Home[y] = Home[z]

(* The node is the clients' own, or has learnt the way back to it.         *)
Touched(n) == \A h \in Homes : n = h \/ HasRoute(n, h)

(* While no daemon is killed, whoever has an entry knows the way back, and *)
(* so does the neighbour the entry names; only a daemon that knows it      *)
(* sends a packet, and it sends any but a RREQ to one that knows it too.   *)
WayBack ==
    crashes = 0 =>
        /\ \A n \in Nodes, a \in Addresses :
              HasRoute(n, a) => Touched(n) /\ Touched(rtbl[n][a].via)
        /\ \A j \in Links, q \in Packet :
              Carries(chan, j, q) =>
                  Touched(j.from) /\ (q.type # "RREQ" => Touched(j.to))

(* Without a crash after the step there was none before it.                *)
LEMMA NoCrashBefore ==
    ASSUME TypeOK, [Next]_vars, crashes' = 0
    PROVE  crashes = 0
  <1>1. crashes \in Nat /\ (crashes' = crashes \/ crashes' = crashes + 1)
    BY CrashesCounted DEF TypeOK
  <1> QED BY <1>1

(* The one home of the clients is an address.                              *)
LEMMA HomesAreNodes == Homes \subseteq Nodes /\ Homes \subseteq Addresses
  BY SocketAssumption DEF Homes, Addresses

(* The way back is only forgotten by a daemon that is killed: no packet of *)
(* a client makes a daemon exit but the client's own.                      *)
LEMMA TouchedStays ==
    ASSUME Sound, OneHome, TypeOK, AddressesKept, ServerTurn, [Next]_vars,
           crashes' = 0, NEW n \in Nodes, Touched(n)
    PROVE  Touched(n)'
  <1> SUFFICES ASSUME NEW h \in Homes, n # h
               PROVE  HasRoute(n, h)'
    BY DEF Touched, Homes
  <1>1. HasRoute(n, h) /\ h \in Addresses
    BY HomesAreNodes DEF Touched
  <1>2. HasRoute(n, h)' \/ (pc[n] # "down" /\ pc'[n] = "down")
    BY <1>1, NextKnown
  <1>3. ASSUME pc[n] # "down", pc'[n] = "down"
        PROVE  FALSE
    <2>1. Ends(n)
      BY <1>3, NextLocal
      DEF LocalStep, local, ReadsFrame, AsksServer, EndsWait, ReadsRequest, Starts,
          IsAnswered, IsAsked
    <2>2. crashes = 0 /\ crashes \in Nat
      BY NoCrashBefore DEF TypeOK
    <2>3. PICK k \in Links : k.to = n /\ chan[k] # << >> /\ Fatal(n, Head(chan[k]))
      BY <2>1, <2>2 DEF Ends
    <2> DEFINE p == Head(chan[k])
    <2>4. p \in Packet /\ Carries(chan, k, p)
      BY <2>3, FrameFacts, HeadCarried DEF TypeOK, Frames
    <2>5. Meant(p) /\ p.src \in Homes
      BY <2>2, <2>4 DEF AddressesKept, ServerTurn, Steady
    <2>6. p.dest \in Nodes
      BY <2>5, MeantForServer
    <2>7. p.src = n
      BY <2>3, <2>6 DEF Fatal, is_self, Sound
    <2>8. p.src = h
      BY <2>5 DEF OneHome, Homes
    <2> QED BY <2>7, <2>8
  <1> QED BY <1>2, <1>3

(* Entries are made by those who know the way back, from those who do.     *)
LEMMA RoutesTouched ==
    ASSUME Sound, OneHome, TypeOK, AddressesKept, ServerTurn, WayBack, [Next]_vars,
           crashes' = 0, NEW n \in Nodes, NEW a \in Addresses, HasRoute(n, a)'
    PROVE  Touched(n)' /\ Touched(rtbl[n][a].via)'
  <1>1. crashes = 0
    BY NoCrashBefore
  <1>2. CASE HasRoute(n, a) /\ rtbl'[n][a] = rtbl[n][a]
    <2>1. rtbl[n][a] \in Route
      BY <1>2 DEF TypeOK, Table, HasRoute
    <2>2. PICK v \in Nodes : v = rtbl[n][a].via
      BY <2>1 DEF Route
    <2>3. Touched(n) /\ Touched(v)
      BY <1>1, <1>2, <2>2 DEF WayBack
    <2>4. Touched(n)' /\ Touched(v)'
      BY <2>3, TouchedStays
    <2> QED BY <1>2, <2>2, <2>4 DEF Touched
  <1>3. ASSUME NEW k \in Links, KnownFrom(n, a, k)
        PROVE  Touched(n)' /\ Touched(rtbl[n][a].via)'
    <2> DEFINE p == Head(chan[k])
    <2>1. k.to = n /\ chan[k] # << >> /\ rtbl'[n][a].via = k.from /\ k.from \in Nodes
      BY <1>3, LinkType DEF KnownFrom
    <2>2. p \in Packet /\ Carries(chan, k, p)
      BY <2>1, FrameFacts, HeadCarried DEF TypeOK, Frames
    <2>3. Touched(k.from) /\ (p.type # "RREQ" => Touched(n)) /\ p.src \in Homes
      BY <1>1, <2>1, <2>2 DEF WayBack, ServerTurn, Steady
    <2>4. Touched(k.from)'
      BY <2>1, <2>3, TouchedStays
    <2>5. CASE p.type = "RREQ"
      <3>1. a = p.src
        BY <1>3, <2>5 DEF KnownFrom, Outbound
      <3>2. \A h \in Homes : h = a
        BY <2>3, <3>1 DEF OneHome, Homes
      <3> QED BY <2>1, <2>4, <3>2 DEF Touched, Homes
    <2>6. CASE p.type # "RREQ"
      BY <2>1, <2>3, <2>4, <2>6, TouchedStays DEF Touched
    <2> QED BY <2>5, <2>6
  <1> QED BY <1>2, <1>3, NextKnown

(* WayBack is inductive.                                                   *)
LEMMA WayBackStep ==
    ASSUME Sound, OneHome, TypeOK, TimesTrue, AddressesKept, ServerTurn, WayBack,
           [Next]_vars
    PROVE  WayBack'
  <1> SUFFICES ASSUME crashes' = 0 PROVE
        /\ \A n \in Nodes, a \in Addresses :
              HasRoute(n, a)' => Touched(n)' /\ Touched(rtbl[n][a].via)'
        /\ \A j \in Links, q \in Packet :
              Carries(chan', j, q) =>
                  Touched(j.from)' /\ (q.type # "RREQ" => Touched(j.to)')
    BY DEF WayBack, Touched, Carries
  <1>1. crashes = 0
    BY NoCrashBefore
  <1>2. \A n \in Nodes, a \in Addresses :
           HasRoute(n, a)' => Touched(n)' /\ Touched(rtbl[n][a].via)'
    BY RoutesTouched
  <1>3. ASSUME NEW j \in Links, NEW q \in Packet, Carries(chan', j, q)
        PROVE  Touched(j.from)' /\ (q.type # "RREQ" => Touched(j.to)')
    <2>1. j.from \in Nodes /\ j.to \in Nodes
      BY LinkType
    <2>2. CASE Carries(chan, j, q)
      <3>1. Touched(j.from) /\ (q.type # "RREQ" => Touched(j.to))
        BY <1>1, <2>2 DEF WayBack
      <3> QED BY <2>1, <3>1, TouchedStays
    <2>3. CASE SentOver(j, q)
      <3>1. ServerTurn' /\ crashes' = 0
        BY TurnStep
      <3>2. q.src \in Homes
        BY <1>3, <3>1 DEF ServerTurn, Steady, Carries
      <3>3. \A h \in Homes : h = q.src
        BY <3>2 DEF OneHome, Homes
      <3>4. CASE q.type = "RREQ"
        <4>1. q.src = j.from \/ HasRoute(j.from, q.src)'
          BY <2>3, <3>4 DEF SentOver
        <4> QED BY <3>3, <3>4, <4>1 DEF Touched, Homes
      <3>5. CASE q.type # "RREQ"
        <4>1. PICK a \in Addresses : HasRoute(j.from, a)' /\ rtbl'[j.from][a].via = j.to
          BY <2>3, <3>5 DEF SentOver
        <4> DEFINE n == j.from
        <4>2. Touched(n)' /\ Touched(rtbl[n][a].via)'
          BY <1>2, <2>1, <4>1
        <4> QED BY <4>1, <4>2 DEF Touched
      <3> QED BY <3>4, <3>5
    <2> QED BY <1>3, <2>2, <2>3, NextSent
  <1> QED BY <1>2, <1>3

(* WayBack holds from the start on.                                        *)
LEMMA WayBackAlways ==
    ASSUME Sound, OneHome
    PROVE  Spec => []WayBack
  <1>1. Init => WayBack
    BY DEF Init, LinkInit, OdrInit, WayBack, Carries, HasRoute, EmptyTable
  <1>2. TypeOK /\ TimesTrue /\ AddressesKept /\ ServerTurn /\ WayBack /\ [Next]_vars
            => WayBack'
    BY WayBackStep
  <1>3. IpFits /\ Apart
    BY DEF Sound
  <1>4. Spec => []TimesTrue
    BY <1>3, TimesAlways
  <1>5. Spec => []AddressesKept
    BY <1>3, AddressesAlways
  <1>6. Spec => []ServerTurn
    BY TurnAlways
  <1> QED BY <1>1, <1>2, <1>4, <1>5, <1>6, TypeCorrect, PTL DEF Spec

(* With clients at one daemon and no daemon killed, every RREP, and every  *)
(* DATA that answers, reaches only daemons that have an entry to the       *)
(* source, so get_rtbl_entry is never asked there for one it has not       *)
(* (odr_aa19.c:345-407, 443-476).                                          *)
THEOREM AnswersFindTheWayBack ==
    ASSUME Sound, OneHome
    PROVE  Spec => []WayBackKept
  <1>1. TypeOK /\ ServerTurn /\ WayBack => WayBackKept
    <2> SUFFICES ASSUME TypeOK, ServerTurn, WayBack, crashes = 0,
                        NEW k \in Links, NEW i \in 1 .. Len(chan[k]),
                        k.to # chan[k][i].src, chan[k][i].type # "RREQ"
                 PROVE  HasRoute(k.to, chan[k][i].src)
      BY DEF WayBackKept
    <2>1. chan[k] \in Seq(Packet)
      BY DEF TypeOK, Frames
    <2>2. chan[k][i] \in Packet /\ Carries(chan, k, chan[k][i])
      BY <2>1 DEF Carries
    <2>3. chan[k][i].src \in Homes /\ Touched(k.to)
      BY <2>2 DEF WayBack, ServerTurn, Steady
    <2> QED BY <2>3 DEF Touched
  <1> QED BY <1>1, TypeCorrect, TurnAlways, WayBackAlways, PTL

=============================================================================
