----------------------------- MODULE AnswerProofs -----------------------------
(***************************************************************************)
(* Why what a client is told is a time: its daemon would pass on whatever  *)
(* DATA packet with its own address comes in, but only answered ones do,   *)
(* for the packets on their way out never turn round to where they come    *)
(* from.                                                                   *)
(***************************************************************************)
EXTENDS TokenProofs, WayBackProofs

-----------------------------------------------------------------------------
(* The ids of a daemon's own RREQs.                                        *)

(* What a daemon that runs on can do to its next id and to the one it has  *)
(* noted of itself: nothing, make a RREQ, or send an old one of its own on *)
(* that seems to be new.                                                   *)
OwnIdStep(n) ==
    \/ UNCHANGED << running_broadcast_no[n], latest_rreq[n][n] >>
    \/ /\ running_broadcast_no'[n] = running_broadcast_no[n] + 1
       /\ latest_rreq'[n][n] = WrapChar(running_broadcast_no[n] + 1)
    \/ \E k \in Links :
          /\ k.to = n /\ chan[k] # << >>
          /\ Head(chan[k]).type = "RREQ" /\ Head(chan[k]).src = n
          /\ Fresh(n, Head(chan[k]))

(* The frame handlers.                                                     *)
LEMMA ProcessOwnId ==
    ASSUME TypeOK, NEW k \in Links, process_pack(k), NEW n \in Nodes, pc'[n] # "down"
    PROVE  OwnIdStep(n)
  <1> DEFINE m == k.to
             p == Head(chan[k])
  <1>1. /\ running_broadcast_no \in [Nodes -> Nat \ {0}]
        /\ latest_rreq \in [Nodes -> [Nodes -> -CHAR_HALF .. CHAR_HALF - 1]]
        /\ pc \in [Nodes -> PCs] /\ m \in Nodes
    BY LinkType DEF TypeOK
  <1>2. CASE Exit(m)
    <2>1. n # m
      BY <1>1, <1>2 DEF Exit
    <2>2. latest_rreq'[n] = latest_rreq[n]
          /\ running_broadcast_no'[n] = running_broadcast_no[n]
      BY <1>1, <1>2, <2>1 DEF Exit
    <2> QED BY <2>2 DEF OwnIdStep
  <1>3. CASE RreqFlood(k) \/ RreqShortcut(k)
    <2>1. chan[k] # << >> /\ p.type = "RREQ" /\ Fresh(m, p)
      BY <1>3 DEF RreqFlood, RreqShortcut, RreqAtIntermediate, Arrives
    <2>2. p \in Packet
      BY <2>1, FrameFacts
    <2>3. CASE Note(m, p) /\ UNCHANGED running_broadcast_no
      <3>1. latest_rreq' = [latest_rreq EXCEPT ![m][p.src] = WrapChar(p.bid)]
        BY <2>3 DEF Note
      <3>2. p.src \in Nodes
        BY <2>2 DEF Packet
      <3>3. CASE n = m /\ p.src = n
        BY <2>1, <3>3 DEF OwnIdStep
      <3>4. CASE n # m \/ p.src # n
        <4>1. latest_rreq'[n][n] = latest_rreq[n][n]
          BY <1>1, <3>1, <3>2, <3>4
        <4> QED BY <2>3, <4>1 DEF OwnIdStep
      <3> QED BY <3>3, <3>4
    <2> QED BY <1>2, <1>3, <2>3 DEF RreqFlood, RreqShortcut, HandlerFrame, session
  <1>4. CASE DataAtSource(k)
    <2>1. UNCHANGED << latest_rreq, running_broadcast_no >> \/ Exit(m)
      BY <1>4 DEF DataAtSource, session
    <2> QED BY <1>2, <2>1 DEF OwnIdStep
  <1>5. CASE \/ DropExpired(k) \/ RreqFlagged(k) \/ RreqAtDest(k) \/ RreqDuplicate(k)
             \/ RrepStep(k) \/ DataAtDest(k) \/ DataForward(k)
    <2>1. UNCHANGED << latest_rreq, running_broadcast_no >>
      BY <1>5 DEF DropExpired, RreqFlagged, RreqAtDest, RreqDuplicate, RrepStep,
         RrepAtSource, RrepForward, DataAtDest, DataForward, HandlerFrame, session
    <2> QED BY <2>1 DEF OwnIdStep
  <1> QED BY <1>3, <1>4, <1>5 DEF process_pack, RreqStep, DataStep

(* Only a request makes an id.                                             *)
LEMMA NextOwnId ==
    ASSUME TypeOK, [Next]_vars, NEW n \in Nodes, pc'[n] # "down"
    PROVE  OwnIdStep(n)
  <1>1. /\ running_broadcast_no \in [Nodes -> Nat \ {0}]
        /\ latest_rreq \in [Nodes -> [Nodes -> -CHAR_HALF .. CHAR_HALF - 1]]
        /\ pc \in [Nodes -> PCs]
    BY DEF TypeOK
  <1>2. CASE UNCHANGED << latest_rreq, running_broadcast_no >>
    BY <1>2 DEF OwnIdStep
  <1>3. ASSUME NEW m \in Nodes, Daemon(m)
        PROVE  OwnIdStep(n)
    <2>1. CASE \E k \in Links : process_pack(k)
      BY <2>1, ProcessOwnId
    <2>2. CASE ServerReply(m) \/ ServerTimeout(m)
      BY <1>2, <2>2 DEF ServerReply, ServerTimeout, session
    <2>3. CASE HandleRequest(m)
      <3>1. /\ running_broadcast_no' = [running_broadcast_no EXCEPT ![m] = @ + 1]
            /\ latest_rreq' = [latest_rreq EXCEPT
                                 ![m][m] = WrapChar(running_broadcast_no[m] + 1)]
        BY <2>3 DEF HandleRequest, NoteOwnId
      <3>2. CASE n = m
        <4>1. running_broadcast_no'[n] = running_broadcast_no[n] + 1
          BY <1>1, <3>1, <3>2
        <4>2. latest_rreq'[n][n] = WrapChar(running_broadcast_no[n] + 1)
          BY <1>1, <3>1, <3>2
        <4> QED BY <4>1, <4>2 DEF OwnIdStep
      <3>3. CASE n # m
        <4>1. latest_rreq'[n] = latest_rreq[n]
              /\ running_broadcast_no'[n] = running_broadcast_no[n]
          BY <1>1, <3>1, <3>3
        <4> QED BY <4>1 DEF OwnIdStep
      <3> QED BY <3>2, <3>3
    <2> QED BY <1>3, <2>1, <2>2, <2>3 DEF Daemon, OdrStep
  <1>4. CASE Environment
    <2>1. ASSUME NEW m \in Mortal, Crash(m)
          PROVE  OwnIdStep(n)
      <3>1. Exit(m) /\ m \in Nodes
        BY <2>1, SystemAssumption DEF Crash
      <3>2. n # m
        BY <1>1, <3>1 DEF Exit
      <3>3. latest_rreq'[n] = latest_rreq[n]
            /\ running_broadcast_no'[n] = running_broadcast_no[n]
        BY <1>1, <3>1, <3>2 DEF Exit
      <3> QED BY <3>3 DEF OwnIdStep
    <2>2. CASE ~ \E m \in Mortal : Crash(m)
      BY <1>2, <1>4, <2>2 DEF Environment, Start, Unheard, Lose, Tick, odrVars, session
    <2> QED BY <2>1, <2>2
  <1>5. CASE \/ \E m \in Nodes : Serves(m)
             \/ \E z \in Clients : Asks(z) \/ Receives(z) \/ TimesOut(z) \/ Quits(z)
             \/ UNCHANGED vars
    BY <1>2, <1>5 DEF Serves, Asks, Receives, TimesOut, Quits, vars, odrVars, session
  <1> QED BY <1>3, <1>4, <1>5 DEF Next

-----------------------------------------------------------------------------
(* Packets do not turn round.                                              *)

(* The clients' daemon keeps running, and the ids it gives fit a char.     *)
HomesHold == \A h \in Homes : Up(h) /\ running_broadcast_no[h] < CHAR_HALF

(* Nothing leads to h but entries for h itself: so a packet of h on its    *)
(* way out does not come to h, h has none of its own to send on or answer, *)
(* and any DATA that does come has been at a server.                       *)
LeadsAway(h) ==
    /\ running_broadcast_no[h] <= latest_rreq[h][h] + 1
    /\ \A n \in Nodes, a \in Addresses : HasRoute(n, a) /\ a # h => rtbl[n][a].via # h
    /\ \A j \in Links, q \in Packet : Carries(chan, j, q) =>
          /\ j.from = h => Outbound(q)
          /\ q.type # "DATA" => q.bid < running_broadcast_no[h]
          /\ q.type = "DATA" => \/ q.src_dest = 1 /\ j.to # h
                                \/ q.src_dest = -1 /\ q.payload \in Nodes

Outward ==
    /\ HeldData
    /\ \A h \in Homes : LeadsAway(h)
    /\ \A z \in Clients : \A i \in 1 .. Len(cli[z]) : cli[z][i].time \in Nodes

(* What is known of a step of a service whose packets do not turn round.   *)
Turning(h) ==
    /\ Sound /\ OneHome /\ Mortal \cap Servers = {}
    /\ TypeOK /\ TimesTrue /\ AddressesKept /\ ServerTurn /\ ServerTurn'
    /\ HeldData /\ HomesHold /\ HomesHold' /\ LeadsAway(h) /\ h \in Homes
    /\ [Next]_vars

(* h knows all its own ids.                                                *)
LEMMA OwnIdKept ==
    ASSUME NEW h \in Nodes, Turning(h)
    PROVE  /\ running_broadcast_no'[h] <= latest_rreq'[h][h] + 1
           /\ running_broadcast_no[h] <= running_broadcast_no'[h]
           /\ \A k \in Links, p \in Packet :
                 Carries(chan, k, p) /\ p.type = "RREQ" => ~ Fresh(h, p) \/ p.src # h
  <1>1. /\ running_broadcast_no[h] \in Nat \ {0}
        /\ latest_rreq[h][h] \in -CHAR_HALF .. CHAR_HALF - 1
        /\ running_broadcast_no[h] <= latest_rreq[h][h] + 1
        /\ running_broadcast_no'[h] < CHAR_HALF /\ pc'[h] # "down" /\ CHAR_HALF \in Nat
    BY OdrAssumption DEF Turning, TypeOK, LeadsAway, HomesHold, Up
  <1>2. ASSUME NEW k \in Links, NEW p \in Packet, Carries(chan, k, p), p.type = "RREQ",
               p.src = h, Fresh(h, p)
        PROVE  FALSE
    <2>1. p.bid < running_broadcast_no[h] /\ p.bid \in Int /\ latest_rreq[h][h] < p.bid
      BY <1>2 DEF Turning, LeadsAway, Packet, Fresh
    <2> QED BY <1>1, <2>1
  <1>3. ASSUME NEW k \in Links, chan[k] # << >>, Head(chan[k]).type = "RREQ",
               Head(chan[k]).src = h, Fresh(h, Head(chan[k]))
        PROVE  FALSE
    <2>1. Head(chan[k]) \in Packet /\ Carries(chan, k, Head(chan[k]))
      BY <1>3, FrameFacts, HeadCarried DEF Turning, TypeOK, Frames
    <2> QED BY <1>2, <1>3, <2>1
  <1>4. CASE UNCHANGED << running_broadcast_no[h], latest_rreq[h][h] >>
    <2>1. running_broadcast_no'[h] = running_broadcast_no[h]
          /\ latest_rreq'[h][h] = latest_rreq[h][h]
      BY <1>4
    <2> QED BY <1>1, <1>2, <2>1
  <1>5. CASE /\ running_broadcast_no'[h] = running_broadcast_no[h] + 1
             /\ latest_rreq'[h][h] = WrapChar(running_broadcast_no[h] + 1)
    <2>1. running_broadcast_no[h] + 1 \in -CHAR_HALF .. CHAR_HALF - 1
      BY <1>1, <1>5
    <2>2. latest_rreq'[h][h] = running_broadcast_no[h] + 1
      BY <1>5, <2>1, WrapCharFits
    <2> QED BY <1>1, <1>2, <1>5, <2>2
  <1>6. OwnIdStep(h)
    BY <1>1, NextOwnId DEF Turning
  <1> QED BY <1>3, <1>4, <1>5, <1>6 DEF OwnIdStep

(* What h sends makes no entry but for h.                                  *)
LEMMA RoutesLeadAway ==
    ASSUME NEW h \in Nodes, Turning(h), NEW n \in Nodes, NEW a \in Addresses,
           HasRoute(n, a)', a # h
    PROVE  rtbl'[n][a].via # h
  <1>1. CASE HasRoute(n, a) /\ rtbl'[n][a] = rtbl[n][a]
    BY <1>1 DEF Turning, LeadsAway
  <1>2. ASSUME NEW k \in Links, KnownFrom(n, a, k), k.from = h
        PROVE  FALSE
    <2> DEFINE p == Head(chan[k])
    <2>1. p \in Packet /\ Carries(chan, k, p)
      BY <1>2, FrameFacts, HeadCarried DEF Turning, TypeOK, Frames, KnownFrom
    <2>2. Outbound(p) /\ p.src \in Homes
      BY <1>2, <2>1 DEF Turning, LeadsAway, ServerTurn, Steady
    <2>3. a = p.src /\ p.src = h
      BY <1>2, <2>2 DEF KnownFrom, OneHome, Homes, Turning
    <2> QED BY <2>3
  <1> QED BY <1>1, <1>2, NextKnown DEF Turning, KnownFrom

(* Of the packets of the one home, sent by n.                              *)
LEMMA OfTheHome ==
    ASSUME NEW h \in Nodes, Turning(h), NEW q \in Packet, Meant(q), q.src \in Homes
    PROVE  q.src = h /\ q.dest \in Servers /\ q.dest \in Nodes /\ q.dest # h
  <1>1. q.dest \in Servers /\ q.dest \in Nodes
    BY MeantForServer DEF Turning
  <1> QED BY <1>1 DEF Turning, OneHome, Homes, Sound, Apart

(* New frames lead away, too.                                              *)
LEMMA FramesLeadAway ==
    ASSUME NEW h \in Nodes, Turning(h), NEW j \in Links, NEW q \in Packet,
           Carries(chan', j, q)
    PROVE  /\ j.from = h => Outbound(q)
           /\ q.type # "DATA" => q.bid < running_broadcast_no'[h]
           /\ q.type = "DATA" => \/ q.src_dest = 1 /\ j.to # h
                                 \/ q.src_dest = -1 /\ q.payload \in Nodes
  <1> DEFINE Fine ==
               /\ j.from = h => Outbound(q)
               /\ q.type # "DATA" => q.bid < running_broadcast_no'[h]
               /\ q.type = "DATA" => \/ q.src_dest = 1 /\ j.to # h
                                     \/ q.src_dest = -1 /\ q.payload \in Nodes
             n == j.from
  <1>1. /\ running_broadcast_no[h] \in Nat /\ running_broadcast_no'[h] \in Nat
        /\ running_broadcast_no[h] <= running_broadcast_no'[h] /\ q.bid \in Int
    <2>1. TypeOK'
      BY TypeNext DEF Turning
    <2> QED BY <2>1, OwnIdKept DEF Turning, TypeOK, Packet
  <1>2. CASE Carries(chan, j, q)
    BY <1>1, <1>2 DEF Turning, LeadsAway
  <1>3. CASE SentOver(j, q)
    <2>1. n \in Nodes /\ j.to \in Nodes
      BY LinkType
    <2>2. q.src \in Homes /\ Meant(q)
      BY <1>3, MeantStep DEF Turning, ServerTurn, Steady, Carries
    <2>3. q.src = h /\ q.dest \in Servers /\ q.dest \in Nodes /\ q.dest # h
      BY <2>2, OfTheHome
    <2>4. q.type = "DATA" /\ q.src_dest = 1 => j.to # h
      <3>1. SUFFICES ASSUME q.type = "DATA", q.src_dest = 1 PROVE j.to # h
        OBVIOUS
      <3>2. PICK a \in Addresses :
               HasRoute(n, a)' /\ rtbl'[n][a].via = j.to /\ a \in get_index_from_ip(q.dest)
        BY <1>3, <3>1 DEF SentOver
      <3>3. a = q.dest
        BY <2>3, <3>2 DEF get_index_from_ip
      <3> QED BY <2>1, <2>3, <3>2, <3>3, RoutesLeadAway
    <2>5. ASSUME NEW k \in Links, NEW p \in Packet, k.to = n, Carries(chan, k, p),
                 Copy(q, p), OwnCopy(n, q, p)
          PROVE  Fine
      <3>1. p.src = h /\ p.dest = q.dest /\ p.bid = q.bid
        BY <2>3, <2>5 DEF Copy
      <3>2. n = h => Outbound(q)
        BY <2>3, <2>5, <3>1, OwnIdKept DEF OwnCopy, Turning, Sound, Outbound
      <3>3. q.type # "DATA" => q.bid < running_broadcast_no[h]
        BY <2>5, <3>1 DEF Turning, LeadsAway, Copy
      <3>4. q.type = "DATA" /\ q.src_dest # 1 => q.src_dest = -1 /\ q.payload \in Nodes
        BY <2>5 DEF Turning, LeadsAway, Copy
      <3> QED BY <1>1, <2>4, <3>2, <3>3, <3>4
    <2>6. CASE /\ held[n] \in Packet /\ un[n] # << >> /\ q.type = held[n].type
               /\ q.src_dest = -1
               /\ q.payload = IF Head(un[n]).kind = "time" THEN n ELSE NotTime
      <3>1. q.type = "DATA"
        BY <2>1, <2>6 DEF Turning, HeldData
      <3>2. n \notin Homes
        BY <2>1, <2>6 DEF Turning, TypeOK, ServerTurn, Steady, Turn
      <3>3. un[n] \in Seq(Datagram)
        BY <2>1 DEF Turning, TypeOK
      <3>4. Head(un[n]) \in Datagram /\ 1 \in 1 .. Len(un[n]) /\ un[n][1] = Head(un[n])
        BY <2>6, <3>3, Queue
      <3>5. Heard(n, Head(un[n]))
        BY <2>1, <3>4 DEF Turning, AddressesKept
      <3>6. Head(un[n]).kind = "time"
        BY <3>2, <3>4, <3>5 DEF Datagram, Heard, Homes, ClientAddr
      <3> QED BY <2>1, <2>6, <3>1, <3>2, <3>6 DEF Turning
    <2>7. CASE /\ HandleRequest(n) /\ q.src = n
               /\ \/ q.type = "RREQ" /\ q.bid = running_broadcast_no[n]
                  \/ q.type = "DATA" /\ q.src_dest = 1
      <3>1. running_broadcast_no'[h] = running_broadcast_no[h] + 1 /\ n = h
        BY <2>3, <2>7 DEF HandleRequest, Turning, TypeOK
      <3> QED BY <1>1, <2>4, <2>7, <3>1 DEF Outbound
    <2> HIDE DEF Fine
    <2> QED BY <1>3, <2>5, <2>6, <2>7 DEF SentOver, Fine
  <1> QED BY <1>2, <1>3, NextSent DEF Turning

(* The replies of a client that gets one.                                  *)
LEMMA TimesTold ==
    ASSUME NEW h \in Nodes, Turning(h), NEW z \in Clients, IsTold(z), cli[z] \in Seq(Reply),
           \A i \in 1 .. Len(cli[z]) : cli[z][i].time \in Nodes
    PROVE  \A i \in 1 .. Len(cli'[z]) : cli'[z][i].time \in Nodes
  <1>1. PICK k \in Links :
            /\ chan[k] # << >> /\ TRUE \in is_self(k.to, Head(chan[k]).src)
            /\ Head(chan[k]).type = "DATA"
            /\ cli'[z] = Append(cli[z], ReplyTo(Head(chan[k])))
    BY DEF IsTold
  <1> DEFINE p == Head(chan[k])
             r == ReplyTo(p)
  <1>2. p \in Packet /\ Carries(chan, k, p)
    BY <1>1, FrameFacts, HeadCarried DEF Turning, TypeOK, Frames
  <1>3. p.src \in Homes /\ k.to = p.src
    BY <1>1, <1>2 DEF Turning, ServerTurn, Steady, is_self, Sound
  <1>4. k.to = h
    BY <1>3 DEF Turning, OneHome, Homes
  <1>5. r.time \in Nodes /\ cli'[z] = Append(cli[z], r)
    BY <1>1, <1>2, <1>4 DEF Turning, LeadsAway, ReplyTo
  <1> HIDE DEF r
  <1>6. \A i \in 1 .. Len(Append(cli[z], r)) :
           Append(cli[z], r)[i] = r \/ (i \in 1 .. Len(cli[z]) /\ Append(cli[z], r)[i] = cli[z][i])
    BY Queue
  <1> QED BY <1>5, <1>6

(* Outward is inductive while the clients' daemon keeps running.           *)
LEMMA OutwardStep ==
    ASSUME Sound, OneHome, Mortal \cap Servers = {},
           TypeOK, TimesTrue, AddressesKept, ServerTurn, HomesHold, HomesHold', Outward,
           [Next]_vars
    PROVE  Outward'
  <1>1. HeldData /\ HeldData'
    BY HeldDataStep DEF Outward
  <1>2. ServerTurn'
    BY TurnStep
  <1>3. \A h \in Homes : h \in Nodes /\ Turning(h)
    BY <1>1, <1>2, HomesAreNodes DEF Turning, Outward
  <1>4. ASSUME NEW h \in Homes
        PROVE  LeadsAway(h)'
    <2>1. h \in Nodes /\ Turning(h)
      BY <1>3
    <2>2. running_broadcast_no'[h] <= latest_rreq'[h][h] + 1
      BY <2>1, OwnIdKept
    <2>3. \A n \in Nodes, a \in Addresses : HasRoute(n, a)' /\ a # h => rtbl'[n][a].via # h
      BY <2>1, RoutesLeadAway
    <2>4. \A j \in Links, q \in Packet : Carries(chan', j, q) =>
             /\ j.from = h => Outbound(q)
             /\ q.type # "DATA" => q.bid < running_broadcast_no'[h]
             /\ q.type = "DATA" => \/ q.src_dest = 1 /\ j.to # h
                                   \/ q.src_dest = -1 /\ q.payload \in Nodes
      BY <2>1, FramesLeadAway
    <2> QED BY <2>2, <2>3, <2>4 DEF LeadsAway, Carries
  <1>5. ASSUME NEW z \in Clients
        PROVE  \A i \in 1 .. Len(cli'[z]) : cli'[z][i].time \in Nodes
    <2>1. cli[z] \in Seq(Reply) /\ \A i \in 1 .. Len(cli[z]) : cli[z][i].time \in Nodes
      BY DEF TypeOK, Outward
    <2>2. CASE UNCHANGED cli[z]
      BY <2>1, <2>2
    <2>3. CASE IsTold(z)
      BY <1>3, <2>1, <2>3, TimesTold DEF Homes
    <2>4. CASE Takes(z)
      BY <2>1, <2>4, Queue DEF Takes
    <2>5. CASE Renews(z)
      BY <2>5 DEF Renews
    <2> QED BY <2>2, <2>3, <2>4, <2>5, NextClient DEF ClientStep
  <1> QED BY <1>1, <1>4, <1>5 DEF Outward, Homes

(* Outward holds as long as the clients' daemon keeps running.             *)
LEMMA OutwardAlways ==
    ASSUME Sound, OneHome, Mortal \cap Servers = {}
    PROVE  Spec /\ []HomesHold => []Outward
  <1>1. Init => Outward
    <2>1. ASSUME Init
          PROVE  Outward
      <3>1. HeldData
        BY <2>1, NoPacketHeld DEF Init, OdrInit, HeldData
      <3>2. ASSUME NEW h \in Homes
            PROVE  LeadsAway(h)
        <4>1. h \in Nodes
          BY HomesAreNodes
        <4>2. running_broadcast_no[h] <= latest_rreq[h][h] + 1
          BY <2>1, <4>1 DEF Init, OdrInit
        <4>3. \A n \in Nodes, a \in Addresses : ~ HasRoute(n, a)
          BY <2>1 DEF Init, OdrInit, HasRoute, EmptyTable
        <4>4. \A j \in Links, q \in Packet : ~ Carries(chan, j, q)
          BY <2>1 DEF Init, LinkInit, Carries
        <4> QED BY <4>2, <4>3, <4>4 DEF LeadsAway
      <3> QED BY <2>1, <3>1, <3>2 DEF Init, SocketInit, Outward
    <2> QED BY <2>1
  <1>2. TypeOK /\ TimesTrue /\ AddressesKept /\ ServerTurn /\ HomesHold /\ HomesHold'
            /\ Outward /\ [Next]_vars => Outward'
    BY OutwardStep
  <1>3. IpFits /\ Apart
    BY DEF Sound
  <1>4. Spec => []TimesTrue
    BY <1>3, TimesAlways
  <1>5. Spec => []AddressesKept
    BY <1>3, AddressesAlways
  <1>6. Spec => []ServerTurn
    BY TurnAlways
  <1> QED BY <1>1, <1>2, <1>4, <1>5, <1>6, TypeCorrect, PTL DEF Spec

(* A time, of the server that was asked.                                   *)
LEMMA TimesMatch ==
    ASSUME TypeOK, AskedServersTime, Outward
    PROVE  ReplyMatches
  <1> SUFFICES ASSUME NEW z \in Clients, NEW i \in 1 .. Len(cli[z])
               PROVE  cli[z][i] = [time |-> target[z], ip |-> target[z]]
    BY DEF ReplyMatches
  <1>1. cli[z] \in Seq(Reply)
    BY DEF TypeOK
  <1>2. cli[z][i] \in Reply
    BY <1>1
  <1>3. cli[z][i].time = target[z] /\ cli[z][i].ip = target[z]
    BY OdrAssumption DEF AskedServersTime, Outward
  <1> QED BY <1>2, <1>3 DEF Reply

(* A client is told the time, and of the server it asked, for as long as   *)
(* its own daemon has not been killed and has not made more RREQs than a   *)
(* char can count: any number of requests and tries, whatever is lost,     *)
(* stale or doubled, and whichever daemons without a server are killed and *)
(* started again on the way (odr_aa19.c:404-482, client_aa19.c:196-231).   *)
THEOREM TheTimeIsTold ==
    ASSUME Sound, OneHome, OneServerEach, Mortal \cap Servers = {}
    PROVE  Spec /\ []HomesHold => []ReplyMatches
  <1>1. TypeOK /\ AskedServersTime /\ Outward => ReplyMatches
    BY TimesMatch
  <1>2. IpFits /\ Apart
    BY DEF Sound
  <1>3. Spec => []AskedServersTime
    BY <1>2, AskedServerAnswers
  <1> QED BY <1>1, <1>3, TypeCorrect, OutwardAlways, PTL

-----------------------------------------------------------------------------
(* One request.                                                            *)

(* The requests a client has made, read or unread: none, one or two tries. *)
RequestsFew ==
    \A z \in Clients :
        running_broadcast_no[Home[z]] + Len(un[Home[z]])
          <= IF cpc[z] = "prompt" /\ sock[z] = 0 THEN 1
             ELSE IF cpc[z] = "wait1" THEN 2 ELSE 3

(* Only a client adds to them.                                             *)
LEMMA RequestsFewStep ==
    ASSUME Plain, OneHome, TypeOK, \A n \in Nodes : Up(n)', RequestsFew, [Next]_vars
    PROVE  RequestsFew'
  <1> SUFFICES ASSUME NEW z \in Clients
               PROVE  running_broadcast_no'[Home[z]] + Len(un'[Home[z]])
                        <= IF cpc'[z] = "prompt" /\ sock'[z] = 0 THEN 1
                           ELSE IF cpc'[z] = "wait1" THEN 2 ELSE 3
    BY DEF RequestsFew
  <1> DEFINE h == Home[z]
             most == IF cpc[z] = "prompt" /\ sock[z] = 0 THEN 1
                     ELSE IF cpc[z] = "wait1" THEN 2 ELSE 3
             most1 == IF cpc'[z] = "prompt" /\ sock'[z] = 0 THEN 1
                      ELSE IF cpc'[z] = "wait1" THEN 2 ELSE 3
  <1>1. /\ running_broadcast_no \in [Nodes -> Nat \ {0}] /\ un \in [Nodes -> Seq(Datagram)]
        /\ sock \in [Clients -> 0 .. 1] /\ cpc \in [Clients -> CPCs] /\ h \in Nodes
        /\ pc' \in [Nodes -> PCs]
    BY SocketAssumption, TypeNext DEF TypeOK, Plain
  <1>2. running_broadcast_no[h] \in Nat /\ un[h] \in Seq(Datagram) /\ Len(un[h]) \in Nat
    BY <1>1
  <1>3. running_broadcast_no[h] + Len(un[h]) <= most
    BY DEF RequestsFew
  <1>4. CASE UNCHANGED << running_broadcast_no[h], un[h], cpc[z], sock[z] >>
    BY <1>3, <1>4
  <1>5. ASSUME NEW n \in Nodes, Daemon(n)
        PROVE  running_broadcast_no'[h] + Len(un'[h]) <= most1
    <2>1. UNCHANGED cpc
      BY <1>5 DEF Daemon, clientVars
    <2>2. ASSUME NEW k \in Links, process_pack(k)
          PROVE  UNCHANGED << running_broadcast_no, un, sock >>
      <3>1. ~ Exit(k.to)
        BY <1>1, LinkType DEF Exit, Up
      <3> QED BY <2>2, <3>1 DEF process_pack, DropExpired, RreqStep, RrepStep, DataStep,
            RreqFlagged, RreqAtDest, RreqDuplicate, RreqFlood, RreqShortcut, RrepAtSource,
            RrepForward, DataAtSource, DataAtDest, DataForward, HandlerFrame, session,
            sockets, SendToApp
    <2>3. CASE ServerTimeout(n)
      BY <1>4, <2>1, <2>3 DEF ServerTimeout, session, sockets
    <2>4. CASE ServerReply(n) \/ HandleRequest(n)
      <3>1. un[n] # << >> /\ un' = [un EXCEPT ![n] = Tail(@)] /\ UNCHANGED sock
        BY <2>4 DEF ServerReply, HandleRequest
      <3>2. \/ UNCHANGED running_broadcast_no
            \/ running_broadcast_no' = [running_broadcast_no EXCEPT ![n] = @ + 1]
        BY <2>4 DEF ServerReply, HandleRequest, session
      <3>3. CASE n = h
        <4>1. un'[h] = Tail(un[h]) /\ Len(Tail(un[h])) = Len(un[h]) - 1
          BY <1>1, <1>2, <3>1, <3>3
        <4>2. running_broadcast_no'[h] \in {running_broadcast_no[h], running_broadcast_no[h] + 1}
          BY <1>1, <3>2, <3>3
        <4>3. most1 = most
          BY <2>1, <3>1
        <4> HIDE DEF most, most1
        <4>4. most \in Int
          BY DEF most
        <4> QED BY <1>2, <1>3, <4>1, <4>2, <4>3, <4>4
      <3>4. CASE n # h
        <4>1. un'[h] = un[h] /\ running_broadcast_no'[h] = running_broadcast_no[h]
          BY <1>1, <3>1, <3>2, <3>4
        <4> QED BY <1>4, <2>1, <3>1, <4>1
      <3> QED BY <3>3, <3>4
    <2> QED BY <1>4, <1>5, <2>1, <2>2, <2>3, <2>4 DEF Daemon, OdrStep
  <1>6. ASSUME NEW n \in Nodes, Serves(n)
        PROVE  UNCHANGED << running_broadcast_no[h], un[h], cpc[z], sock[z] >>
    <2>1. n # h
      BY <1>6 DEF Serves, Serve, Plain, Sound, Apart, Homes
    <2>2. un'[h] = un[h]
      BY <1>1, <1>6, <2>1 DEF Serves, Serve
    <2> QED BY <1>6, <2>2 DEF Serves, Serve, odrVars, session, clientVars
  <1>7. CASE Environment
    <2>1. UNCHANGED << running_broadcast_no, un, cpc, sock >>
      BY <1>7 DEF Plain, Environment, Start, Unheard, Lose, Tick, odrVars, session,
         sockets, clientVars
    <2> QED BY <1>4, <2>1
  <1>8. ASSUME NEW y \in Clients, Asks(y) \/ Receives(y) \/ TimesOut(y) \/ Quits(y)
        PROVE  running_broadcast_no'[h] + Len(un'[h]) <= most1
    <2>1. y = z
      BY DEF Plain, OneHome
    <2>2. running_broadcast_no' = running_broadcast_no
      BY <1>8 DEF Asks, Receives, TimesOut, Quits, odrVars, session
    <2>3. ASSUME NEW number, NEW d, NEW f, MsgSend(z, number, d, f)
          PROVE  Len(un'[h]) = Len(un[h]) + 1
      BY <1>1, <1>2, <2>3 DEF MsgSend
    <2>4. CASE Asks(z) /\ cpc'[z] = "wait1"
      <3>1. cpc[z] = "prompt" /\ sock[z] = 0 /\ \E d : MsgSend(z, sock[z] + 1, d, 0)
        BY <1>1, <2>4 DEF Asks, Ask, Leave, Plain
      <3>2. Len(un'[h]) = Len(un[h]) + 1
        BY <2>3, <3>1
      <3> QED BY <1>2, <1>3, <2>2, <2>4, <3>1, <3>2
    <2>5. CASE (Receives(z) \/ TimesOut(z)) /\ cpc'[z] = "wait2"
      <3>1. cpc[z] = "wait1"
        BY <1>1, <2>5 DEF Receives, TimesOut, Receive, ReceiveAgain, Timeout, GiveUp, Leave
      <3>2. \E d : MsgSend(z, sock[z], d, 1)
        BY <1>1, <2>5 DEF Receives, TimesOut, Receive, ReceiveAgain, Timeout, GiveUp,
           Leave, AskAgain
      <3>3. Len(un'[h]) = Len(un[h]) + 1
        BY <2>3, <3>2
      <3> QED BY <1>2, <1>3, <2>2, <2>5, <3>1, <3>3
    <2>6. CASE un' = un /\ (cpc'[z] = "gone" \/ (cpc'[z] = "prompt" /\ sock'[z] # 0))
      <3>1. most <= 3 /\ most \in Nat /\ most1 = 3
        BY <2>6
      <3> HIDE DEF most, most1
      <3> QED BY <1>2, <1>3, <2>2, <2>6, <3>1
    <2>7. ASSUME Leave(z), un' = un
          PROVE  cpc'[z] = "gone"
      BY <1>1, <2>7 DEF Leave
    <2>8. Asks(z) => cpc'[z] = "wait1" \/ (Leave(z) /\ un' = un)
      BY <1>1 DEF Asks, Ask
    <2>9. ASSUME Receives(z) \/ TimesOut(z)
          PROVE  \/ cpc'[z] = "wait2" \/ (cpc'[z] = "gone" /\ un' = un)
                 \/ un' = un /\ cpc'[z] = "prompt" /\ sock'[z] # 0
      <3>1. cpc[z] \in {"wait1", "wait2"} /\ sock[z] # 0
        BY <2>9 DEF Receives, TimesOut, Receive, ReceiveAgain, Timeout, GiveUp, TypeOK
      <3> QED BY <1>1, <2>9, <3>1
          DEF Receives, TimesOut, Receive, ReceiveAgain, Timeout, GiveUp, AskAgain, Leave
    <2>10. Quits(z) => Leave(z) /\ un' = un
      BY DEF Quits, Quit
    <2> QED
      BY <1>8, <2>1, <2>4, <2>5, <2>6, <2>7, <2>8, <2>9, <2>10
  <1>9. CASE UNCHANGED vars
    BY <1>4, <1>9 DEF vars, odrVars, session, sockets, clientVars
  <1> QED BY <1>4, <1>5, <1>6, <1>7, <1>8, <1>9 DEF Next

(* All that is under way for a client is about the server it asked.        *)
TargetKept ==
    \A z \in Clients :
        LET h == Home[z]
        IN  /\ \A j \in Links, q \in Packet :
                  Carries(chan, j, q) /\ q.src = h => q.dest = target[z]
            /\ \A n \in Nodes : HeldFor(n, h) => held[n].dest = target[z]
            /\ \A i \in 1 .. Len(un[h]) : un[h][i].dest = target[z]
            /\ \A i \in 1 .. Len(cli[z]) : cli[z][i].ip = target[z]

(* A new request finds nothing under way for its client.                   *)
LEMMA NewTarget ==
    ASSUME TypeOK, \A n \in Nodes : Up(n), NEW z \in Clients, OneConversation(z),
           sock[z] = 0, Asks(z)
    PROVE  LET h == Home[z]
           IN  /\ \A j \in Links, q \in Packet : Carries(chan', j, q) => q.src # h
               /\ \A n \in Nodes : ~ HeldFor(n, h)'
               /\ \A i \in 1 .. Len(un'[h]) : un'[h][i].dest = target'[z]
               /\ cli'[z] = << >>
  <1> DEFINE h == Home[z]
  <1>1. /\ h \in Nodes /\ un \in [Nodes -> Seq(Datagram)] /\ cli \in [Clients -> Seq(Reply)]
        /\ target \in [Clients -> Nodes] /\ Up(h)
    BY SocketAssumption DEF TypeOK
  <1>2. cpc[z] = "prompt" /\ UNCHANGED << chan, held >>
    BY DEF Asks, Ask, odrVars
  <1>3. NoData(z) /\ ~ Seeks(h) /\ un[h] = << >>
    BY <1>2 DEF OneConversation, Waits
  <1>4. ASSUME NEW j \in Links, NEW q \in Packet, Carries(chan', j, q), q.src = h
        PROVE  FALSE
    <2>1. Carries(chan, j, q)
      BY <1>2, <1>4 DEF Carries
    <2>2. ~ Token(q, h)
      BY <1>3, <2>1 DEF NoData, None, Carries
    <2> QED BY <1>3, <1>4, <2>1, <2>2 DEF Seeks, Token
  <1>5. \A n \in Nodes : ~ HeldFor(n, h)'
    BY <1>2, <1>3 DEF NoData, HeldFor
  <1>6. PICK d \in Targets[z] :
           /\ target' = [target EXCEPT ![z] = d] /\ MsgSend(z, sock[z] + 1, d, 0)
           /\ cli' = [cli EXCEPT ![z] = << >>]
    BY <1>1 DEF Asks, Ask
  <1> DEFINE m == [kind |-> "request", from |-> << z, sock[z] + 1 >>, dest |-> d,
                   forced |-> 0]
  <1>7. target'[z] = d /\ cli'[z] = << >> /\ un'[h] = Append(un[h], m) /\ m.dest = d
    BY <1>1, <1>6 DEF MsgSend
  <1> HIDE DEF m
  <1>8. un'[h] = << m >>
    BY <1>3, <1>7
  <1> QED BY <1>4, <1>5, <1>7, <1>8

(* No other step brings a client's machine a request about another server. *)
LEMMA InboxStep ==
    ASSUME Sound, TypeOK, \A n \in Nodes : Up(n), \A n \in Nodes : Up(n)', [Next]_vars,
           \A y, z \in Clients : Home[y] = Home[z] => y = z,
           NEW z \in Clients, ~ Asks(z)
    PROVE  LET h == Home[z]
           IN  /\ target'[z] = target[z]
               /\ \/ un'[h] = un[h]
                  \/ un[h] # << >> /\ un'[h] = Tail(un[h])
                  \/ \E m : m.dest = target[z] /\ un'[h] = Append(un[h], m)
  <1> DEFINE h == Home[z]
             Same == /\ target'[z] = target[z]
                     /\ \/ un'[h] = un[h]
                        \/ un[h] # << >> /\ un'[h] = Tail(un[h])
                        \/ \E m : m.dest = target[z] /\ un'[h] = Append(un[h], m)
  <1>1. /\ h \in Nodes /\ un \in [Nodes -> Seq(Datagram)] /\ target \in [Clients -> Nodes]
        /\ Home \in [Clients -> Nodes] /\ pc' \in [Nodes -> PCs] /\ pc \in [Nodes -> PCs]
    BY SocketAssumption, TypeNext DEF TypeOK
  <1>2. ASSUME NEW n \in Nodes, Daemon(n)
        PROVE  Same
    <2>1. ASSUME NEW k \in Links, process_pack(k)
          PROVE  un' = un
      <3>1. ~ Exit(k.to)
        BY <1>1, LinkType DEF Exit, Up, TypeOK
      <3> QED BY <2>1, <3>1 DEF process_pack, DropExpired, RreqStep, RrepStep, DataStep,
            RreqFlagged, RreqAtDest, RreqDuplicate, RreqFlood, RreqShortcut, RrepAtSource,
            RrepForward, DataAtSource, DataAtDest, DataForward, HandlerFrame, sockets
    <2>2. CASE ServerReply(n) \/ HandleRequest(n)
      <3>1. un[n] # << >> /\ un' = [un EXCEPT ![n] = Tail(@)]
        BY <2>2 DEF ServerReply, HandleRequest
      <3>2. un'[h] = un[h] \/ (un[h] # << >> /\ un'[h] = Tail(un[h]))
        BY <1>1, <3>1
      <3> QED BY <1>2, <3>2 DEF Daemon, clientVars
    <2>3. CASE un' = un
      BY <1>2, <2>3 DEF Daemon, clientVars
    <2>4. ServerTimeout(n) => un' = un
      BY DEF ServerTimeout, sockets
    <2> QED BY <1>2, <2>1, <2>2, <2>3, <2>4 DEF Daemon, OdrStep
  <1>3. ASSUME NEW n \in Nodes, Serves(n)
        PROVE  Same
    <2>1. n # h
      BY <1>3 DEF Serves, Serve, Sound, Apart, Homes
    <2>2. un'[h] = un[h] /\ target' = target
      BY <1>1, <1>3, <2>1 DEF Serves, Serve, clientVars
    <2> QED BY <2>2
  <1>4. CASE Environment
    <2>1. un' = un /\ target' = target
      <3>1. ~ \E n \in Nodes : Exit(n)
        BY <1>1 DEF Exit, Up
      <3>2. ~ \E n \in Mortal : Crash(n)
        BY <3>1, SystemAssumption DEF Crash
      <3> QED BY <1>4, <3>2 DEF Environment, Start, Unheard, Lose, Tick, sockets, clientVars
    <2> QED BY <2>1
  <1>5. ASSUME NEW y \in Clients, y # z,
               Asks(y) \/ Receives(y) \/ TimesOut(y) \/ Quits(y)
        PROVE  Same
    <2>1. Home[y] # h
      BY <1>5
    <2>2. un' = un \/ \E number, d, f : MsgSend(y, number, d, f)
      BY <1>5 DEF Asks, Receives, TimesOut, Quits, Ask, Receive, ReceiveAgain, Timeout,
         GiveUp, Quit, AskAgain
    <2>3. un'[h] = un[h]
      BY <1>1, <2>1, <2>2 DEF MsgSend
    <2>4. target'[z] = target[z]
      BY <1>1, <1>5 DEF Asks, Receives, TimesOut, Quits, Ask, Receive, ReceiveAgain,
         Timeout, GiveUp, Quit
    <2> QED BY <2>3, <2>4
  <1>6. CASE Receives(z) \/ TimesOut(z) \/ Quits(z)
    <2>1. target' = target
      BY <1>6 DEF Receives, TimesOut, Quits, Receive, ReceiveAgain, Timeout, GiveUp, Quit
    <2>2. un' = un \/ MsgSend(z, sock[z], target[z], 1)
      BY <1>6 DEF Receives, TimesOut, Quits, Receive, ReceiveAgain, Timeout, GiveUp, Quit,
         AskAgain
    <2>3. ASSUME MsgSend(z, sock[z], target[z], 1)
          PROVE  \E m : m.dest = target[z] /\ un'[h] = Append(un[h], m)
      <3> DEFINE m == [kind |-> "request", from |-> << z, sock[z] >>,
                       dest |-> target[z], forced |-> 1]
      <3>1. m.dest = target[z] /\ un'[h] = Append(un[h], m)
        BY <1>1, <2>3 DEF MsgSend
      <3> HIDE DEF m
      <3> QED BY <3>1
    <2> QED BY <2>1, <2>2, <2>3
  <1>7. CASE UNCHANGED vars
    BY <1>7 DEF vars, sockets, clientVars
  <1> QED BY <1>2, <1>3, <1>4, <1>5, <1>6, <1>7 DEF Next

(* TargetKept is inductive.                                                *)
LEMMA TargetStep ==
    ASSUME Plain, TypeOK, AddressesKept, ServerTurn, Conversations, Conversations',
           TargetKept, [Next]_vars
    PROVE  TargetKept'
  <1> SUFFICES ASSUME NEW z \in Clients PROVE
        LET h == Home[z]
        IN  /\ \A j \in Links, q \in Packet :
                  Carries(chan', j, q) /\ q.src = h => q.dest = target'[z]
            /\ \A n \in Nodes : HeldFor(n, h)' => held'[n].dest = target'[z]
            /\ \A i \in 1 .. Len(un'[h]) : un'[h][i].dest = target'[z]
            /\ \A i \in 1 .. Len(cli'[z]) : cli'[z][i].ip = target'[z]
    BY DEF TargetKept, Carries, HeldFor
  <1> DEFINE h == Home[z]
  <1>1. /\ h \in Nodes /\ h \in Homes /\ un[h] \in Seq(Datagram) /\ cli[z] \in Seq(Reply)
        /\ \A n \in Nodes : Up(n) /\ Up(n)'
        /\ Sound /\ \A y, x \in Clients : Home[y] = Home[x] => y = x
    BY SocketAssumption DEF TypeOK, Conversations, Plain, Homes
  <1>2. CASE Asks(z)
    <2>1. sock[z] = 0 /\ OneConversation(z)
      BY <1>2 DEF Asks, Ask, Plain, TypeOK, Conversations
    <2> QED BY <1>1, <1>2, <2>1, NewTarget
  <1>3. CASE ~ Asks(z)
    <2>1. /\ target'[z] = target[z]
          /\ \/ un'[h] = un[h]
             \/ un[h] # << >> /\ un'[h] = Tail(un[h])
             \/ \E m : m.dest = target[z] /\ un'[h] = Append(un[h], m)
      BY <1>1, <1>3, InboxStep
    <2>2. /\ \A j \in Links, q \in Packet : Carries(chan, j, q) /\ q.src = h => q.dest = target[z]
          /\ \A n \in Nodes : HeldFor(n, h) => held[n].dest = target[z]
          /\ \A i \in 1 .. Len(un[h]) : un[h][i].dest = target[z]
          /\ \A i \in 1 .. Len(cli[z]) : cli[z][i].ip = target[z]
      BY DEF TargetKept
    <2>3. ASSUME NEW j \in Links, NEW q \in Packet, Carries(chan', j, q), q.src = h
          PROVE  q.dest = target[z]
      <3>1. CASE Carries(chan, j, q)
        BY <2>2, <2>3, <3>1
      <3>2. CASE SentOver(j, q)
        <4> DEFINE n == j.from
        <4>1. n \in Nodes
          BY LinkType
        <4> HIDE DEF n
        <4>2. CASE \E k \in Links, p \in Packet : Carries(chan, k, p) /\ Copy(q, p)
          BY <2>2, <2>3, <4>2 DEF Copy
        <4>3. CASE held[n] \in Packet /\ q.src = held[n].src /\ q.dest = held[n].dest
          BY <2>2, <2>3, <4>1, <4>3 DEF HeldFor
        <4>4. CASE /\ un[n] # << >> /\ q.src = n
                   /\ \E req \in Requests(Head(un[n])) : q.dest = req.dest
          <5>1. 1 \in 1 .. Len(un[h]) /\ un[h][1] = Head(un[h]) /\ n = h
            BY <1>1, <2>3, <4>4, Queue
          <5>2. Heard(h, Head(un[h])) /\ Head(un[h]).dest = target[z]
            BY <1>1, <2>2, <5>1 DEF AddressesKept
          <5> QED BY <1>1, <4>4, <5>1, <5>2 DEF Heard, Requests
        <4>5. HandleRequest(n) => un[n] # << >>
          BY DEF HandleRequest
        <4> QED BY <3>2, <4>2, <4>3, <4>4, <4>5 DEF SentOver, n
      <3> QED BY <2>3, <3>1, <3>2, NextSent
    <2>4. ASSUME NEW n \in Nodes, HeldFor(n, h)'
          PROVE  held'[n].dest = target[z]
      <3>1. held'[n] \in Packet /\ held'[n].src = h
        BY <2>4 DEF HeldFor
      <3>2. CASE held'[n] = held[n]
        BY <2>2, <3>1, <3>2 DEF HeldFor
      <3>3. ASSUME NEW k \in Links, chan[k] # << >>, held'[n] = Head(chan[k])
            PROVE  held'[n].dest = target[z]
        <4>1. Carries(chan, k, Head(chan[k]))
          BY <3>3, HeadCarried DEF TypeOK, Frames
        <4> QED BY <2>2, <3>1, <3>3, <4>1
      <3> QED BY <3>1, <3>2, <3>3, HeldStep
    <2>5. \A i \in 1 .. Len(un'[h]) : un'[h][i].dest = target[z]
      <3>1. CASE un[h] # << >> /\ un'[h] = Tail(un[h])
        BY <1>1, <2>2, <3>1, Queue
      <3>2. ASSUME NEW m, m.dest = target[z], un'[h] = Append(un[h], m)
            PROVE  \A i \in 1 .. Len(un'[h]) : un'[h][i].dest = target[z]
        <4>1. \A i \in 1 .. Len(Append(un[h], m)) :
                 \/ Append(un[h], m)[i] = m
                 \/ i \in 1 .. Len(un[h]) /\ Append(un[h], m)[i] = un[h][i]
          BY <1>1, Queue
        <4> QED BY <2>2, <3>2, <4>1
      <3> QED BY <2>1, <2>2, <3>1, <3>2
    <2>6. \A i \in 1 .. Len(cli'[z]) : cli'[z][i].ip = target[z]
      <3>1. CASE IsTold(z)
        <4>1. PICK k \in Links :
                  /\ chan[k] # << >> /\ TRUE \in is_self(k.to, Head(chan[k]).src)
                  /\ al_client_addr[k.to] = << z, sock[z] >> /\ sock[z] # 0
                  /\ cli'[z] = Append(cli[z], ReplyTo(Head(chan[k])))
          BY <3>1 DEF IsTold
        <4> DEFINE p == Head(chan[k])
                   r == ReplyTo(p)
        <4>2. k.to \in Nodes /\ p \in Packet /\ Carries(chan, k, p)
          BY <4>1, FrameFacts, HeadCarried DEF TypeOK, Frames
        <4>3. << z, sock[z] >> \in ClientAddr /\ << z, sock[z] >>[1] = z
          BY <4>1, SocketAssumption DEF ClientAddr, TypeOK
        <4>4. p.src = h
          <5>1. Home[z] = k.to
            BY <1>1, <4>1, <4>2, <4>3 DEF AddressesKept
          <5>2. p.src = k.to
            BY <4>1 DEF is_self, Plain, Sound
          <5> QED BY <5>1, <5>2
        <4>5. r.ip = target[z] /\ cli'[z] = Append(cli[z], r)
          BY <2>2, <4>1, <4>2, <4>4 DEF ReplyTo
        <4> HIDE DEF r
        <4>6. \A i \in 1 .. Len(Append(cli[z], r)) :
                 \/ Append(cli[z], r)[i] = r
                 \/ i \in 1 .. Len(cli[z]) /\ Append(cli[z], r)[i] = cli[z][i]
          BY <1>1, Queue
        <4> QED BY <2>2, <4>5, <4>6
      <3>2. CASE Takes(z)
        BY <1>1, <2>2, <3>2, Queue DEF Takes
      <3>3. CASE Renews(z)
        BY <3>3 DEF Renews
      <3>4. CASE UNCHANGED cli[z]
        BY <2>2, <3>4
      <3> QED BY <3>1, <3>2, <3>3, <3>4, NextClient DEF ClientStep
    <2> QED BY <2>1, <2>3, <2>4, <2>5, <2>6
  <1> QED BY <1>2, <1>3

(* A client with one request hears of the server it asked, and no other    *)
(* server's time, whichever servers the users of one machine or another    *)
(* may name (odr_aa19.c:404-482, client_aa19.c:196-231).                   *)
THEOREM OneRequestOneServer ==
    ASSUME Plain
    PROVE  Spec => []AskedServersTime
  <1>1. Init => TargetKept
    BY NoPacketHeld, SocketAssumption
    DEF Init, LinkInit, SocketInit, OdrInit, TargetKept, Carries, HeldFor
  <1>2. TypeOK /\ AddressesKept /\ ServerTurn /\ Conversations /\ Conversations'
            /\ TargetKept /\ [Next]_vars => TargetKept'
    BY TargetStep
  <1>3. TimesTrue /\ TargetKept => AskedServersTime
    <2> SUFFICES ASSUME TimesTrue, TargetKept, NEW z \in Clients,
                        NEW i \in 1 .. Len(cli[z])
                 PROVE  /\ cli[z][i].ip = target[z]
                        /\ cli[z][i].time \in {target[z], NotTime}
      BY DEF AskedServersTime
    <2>1. cli[z][i].ip = target[z]
      BY DEF TargetKept
    <2> QED BY <2>1 DEF TimesTrue
  <1>4. IpFits /\ Apart /\ Sound
    BY DEF Plain, Sound
  <1>5. Spec => []AddressesKept
    BY <1>4, AddressesAlways
  <1>6. Spec => []ServerTurn
    BY <1>4, TurnAlways
  <1>7. Spec => []TimesTrue
    BY <1>4, TimesAlways
  <1> QED BY <1>1, <1>2, <1>3, <1>5, <1>6, <1>7, TypeCorrect, ConversationsAlways,
             PTL DEF Spec

(* One request keeps its daemon running and its ids small.                 *)
LEMMA OneRequestHolds ==
    ASSUME Plain, OneHome, CHAR_HALF > 3
    PROVE  Spec => []HomesHold
  <1>1. Init => RequestsFew
    <2>1. ASSUME Init, NEW z \in Clients
          PROVE  /\ running_broadcast_no[Home[z]] = 1 /\ un[Home[z]] = << >>
                 /\ cpc[z] = "prompt" /\ sock[z] = 0
      BY <2>1, SocketAssumption DEF Init, OdrInit, SocketInit, ClientInit
    <2> QED BY <2>1 DEF RequestsFew
  <1>2. Conversations => \A n \in Nodes : Up(n)
    BY DEF Conversations
  <1>3. TypeOK /\ RequestsFew /\ (\A n \in Nodes : Up(n))' /\ [Next]_vars => RequestsFew'
    BY RequestsFewStep
  <1>4. TypeOK /\ RequestsFew /\ (\A n \in Nodes : Up(n)) => HomesHold
    <2> SUFFICES ASSUME TypeOK, RequestsFew, \A n \in Nodes : Up(n), NEW z \in Clients
                 PROVE  Up(Home[z]) /\ running_broadcast_no[Home[z]] < CHAR_HALF
      BY DEF HomesHold, Homes
    <2>1. /\ Home[z] \in Nodes /\ running_broadcast_no[Home[z]] \in Nat
          /\ un[Home[z]] \in Seq(Datagram) /\ CHAR_HALF \in Nat
      BY SocketAssumption, OdrAssumption DEF TypeOK
    <2>2. Len(un[Home[z]]) \in Nat
      BY <2>1
    <2>3. running_broadcast_no[Home[z]] + Len(un[Home[z]]) <= 3
      BY <2>1, <2>2 DEF RequestsFew
    <2> QED BY <2>1, <2>2, <2>3
  <1>5. Spec => []RequestsFew
    BY <1>1, <1>2, <1>3, TypeCorrect, ConversationsAlways, PTL DEF Spec
  <1> QED BY <1>2, <1>4, <1>5, TypeCorrect, ConversationsAlways, PTL

(* Its packets do not turn round.                                          *)
LEMMA OneRequestOutward ==
    ASSUME Plain, OneHome, CHAR_HALF > 3
    PROVE  Spec => []Outward
  <1>1. Sound /\ Mortal \cap Servers = {}
    BY DEF Plain
  <1> QED BY <1>1, OneRequestHolds, OutwardAlways, PTL

(* The one request of a patient client is answered with the time of the    *)
(* server it is about, or not at all: its daemon never exits and makes two *)
(* RREQs at most (odr_aa19.c:404-482, client_aa19.c:196-231).              *)
THEOREM OneRequestToldTrue ==
    ASSUME Plain, OneHome, CHAR_HALF > 3
    PROVE  Spec => []ReplyMatches
  <1>1. TypeOK /\ AskedServersTime /\ Outward => ReplyMatches
    BY TimesMatch
  <1> QED BY <1>1, TypeCorrect, OneRequestOneServer, OneRequestOutward, PTL

-----------------------------------------------------------------------------
(* The service that TimeService promises.                                  *)

AskedBy(z) == IF Waits(z) THEN target[z] ELSE NotTime
AnswerOf(z) == IF Waits(z) /\ cli[z] # << >> THEN Head(cli[z]).time ELSE NotTime

(* While a time is on its way its client waits and has made no new request.*)
Phased ==
    \A z \in Clients :
        /\ TimeUnderway(z) => Waits(z) /\ cli[z] = << >> /\ un[Home[z]] = << >>
        /\ Len(cli[z]) <= 1
        /\ Phase(z) = IF Waits(z)
                      THEN IF cli[z] # << >> THEN "answered"
                           ELSE IF TimeUnderway(z) THEN "served" ELSE "asked"
                      ELSE IF cpc[z] = "gone" THEN "gone" ELSE "idle"

(* Phased follows from the one conversation.                               *)
LEMMA ConversationsPhased ==
    ASSUME TypeOK, Conversations
    PROVE  Phased
  <1> SUFFICES ASSUME NEW z \in Clients PROVE
        /\ TimeUnderway(z) => Waits(z) /\ cli[z] = << >> /\ un[Home[z]] = << >>
        /\ Len(cli[z]) <= 1
        /\ Phase(z) = IF Waits(z)
                      THEN IF cli[z] # << >> THEN "answered"
                           ELSE IF TimeUnderway(z) THEN "served" ELSE "asked"
                      ELSE IF cpc[z] = "gone" THEN "gone" ELSE "idle"
    BY DEF Phased
  <1>1. OneConversation(z) /\ Len(cli[z]) <= 1
    BY DEF Conversations, OneConversation, OnePlace
  <1>2. ASSUME TimeUnderway(z)
        PROVE  Waits(z) /\ cli[z] = << >> /\ un[Home[z]] = << >>
    <2>1. CASE \E n \in Nodes : held[n] # NoPacket /\ held[n].src = Home[z]
      <3>1. PICK n \in Nodes : held[n] # NoPacket /\ held[n].src = Home[z]
        BY <2>1
      <3>2. HeldFor(n, Home[z])
        BY <3>1 DEF TypeOK, HeldFor
      <3> QED BY <1>1, <3>2 DEF OneConversation, OnePlace, NoData
    <2>2. CASE \E k \in Links : \E i \in DOMAIN chan[k] :
                  chan[k][i].type = "DATA" /\ chan[k][i].src = Home[z]
      <3>1. \A k \in Links : DOMAIN chan[k] = 1 .. Len(chan[k])
        BY DEF TypeOK
      <3>2. ~ None(chan, Home[z])
        BY <2>2, <3>1 DEF None, Token
      <3> QED BY <1>1, <3>2 DEF OneConversation, OnePlace, NoData
    <2> QED BY <1>2, <2>1, <2>2 DEF TimeUnderway
  <1>3. cpc[z] \in CPCs
    BY DEF TypeOK
  <1>4. CASE Waits(z)
    <2>1. cpc[z] # "gone"
      BY <1>4 DEF Waits
    <2> QED BY <1>1, <1>2, <1>4, <2>1 DEF Phase
  <1>5. CASE ~ Waits(z)
    BY <1>1, <1>2, <1>3, <1>5 DEF Phase, CPCs
  <1> QED BY <1>4, <1>5

(* What a step is to the one client: nothing, or a step of TimeService.    *)
Serving(z) ==
    \/ UNCHANGED << Phase(z), AskedBy(z), AnswerOf(z) >>
    \/ /\ Phase(z) = "idle" /\ Phase(z)' = "asked"
       /\ AskedBy(z)' \in Servers /\ UNCHANGED AnswerOf(z)
    \/ /\ << Phase(z), Phase(z)' >> \in {<< "asked", "served" >>, << "served", "asked" >>}
       /\ UNCHANGED << AskedBy(z), AnswerOf(z) >>
    \/ /\ Phase(z) = "served" /\ Phase(z)' = "answered"
       /\ UNCHANGED AskedBy(z) /\ AnswerOf(z)' = AskedBy(z)
    \/ /\ Phase(z) = "answered" /\ Phase(z)' = "idle"
       /\ AskedBy(z)' = NotTime /\ AnswerOf(z)' = NotTime
    \/ /\ Phase(z) \in {"idle", "asked", "served"} /\ Phase(z)' = "gone"
       /\ AskedBy(z)' = NotTime /\ AnswerOf(z)' = NotTime

(* The client's own steps.                                                 *)
LEMMA ClientServing ==
    ASSUME Plain, AddrLens = {TRUE}, TypeOK, Phased, Phased', \A n \in Nodes : Up(n),
           NEW z \in Clients, Asks(z) \/ Receives(z) \/ TimesOut(z) \/ Quits(z)
    PROVE  Serving(z)
  <1>1. /\ cpc \in [Clients -> CPCs] /\ cli \in [Clients -> Seq(Reply)]
        /\ target \in [Clients -> Nodes] /\ Home[z] \in Nodes /\ Up(Home[z])
        /\ un \in [Nodes -> Seq(Datagram)]
    BY SocketAssumption DEF TypeOK
  <1>2. CASE Leave(z) /\ cpc[z] # "gone" /\ (Waits(z) => cli[z] = << >>)
    <2>1. cpc'[z] = "gone" /\ ~ Waits(z)'
      BY <1>1, <1>2 DEF Leave, Waits
    <2>2. Phase(z)' = "gone" /\ AskedBy(z)' = NotTime /\ AnswerOf(z)' = NotTime
      BY <2>1 DEF Phased, AskedBy, AnswerOf
    <2>3. Phase(z) \in {"idle", "asked", "served"}
      BY <1>2 DEF Phased
    <2> QED BY <2>2, <2>3 DEF Serving
  <1>3. CASE Asks(z)
    <2>1. PICK d \in Targets[z] :
             /\ target' = [target EXCEPT ![z] = d]
             /\ MsgSend(z, sock[z] + 1, d, 0)
             /\ cli' = [cli EXCEPT ![z] = << >>]
             /\ cpc' = [cpc EXCEPT ![z] = "wait1"]
             /\ cpc[z] = "prompt"
      BY <1>1, <1>3 DEF Asks, Ask
    <2>2. target'[z] = d /\ cli'[z] = << >> /\ cpc'[z] = "wait1" /\ d \in Servers
      BY <1>1, <2>1 DEF Plain, Sound
    <2>3. un'[Home[z]] # << >>
      <3>1. un[Home[z]] \in Seq(Datagram) /\ \E m : un'[Home[z]] = Append(un[Home[z]], m)
        BY <1>1, <2>1 DEF MsgSend
      <3> QED BY <3>1
    <2>4. ~ Waits(z) /\ Waits(z)' /\ ~ TimeUnderway(z)'
      BY <2>1, <2>2, <2>3 DEF Waits, Phased
    <2>5. Phase(z) = "idle" /\ Phase(z)' = "asked"
      BY <2>1, <2>2, <2>4 DEF Phased
    <2>6. AskedBy(z)' \in Servers /\ AnswerOf(z)' = AnswerOf(z)
      BY <2>2, <2>4 DEF AskedBy, AnswerOf
    <2> QED BY <2>5, <2>6 DEF Serving
  <1>4. CASE cli[z] # << >> /\ (Receives(z) \/ TimesOut(z))
    <2>1. Waits(z) /\ cpc'[z] = "prompt"
      BY <1>1, <1>4 DEF Receives, TimesOut, Receive, ReceiveAgain, Timeout, GiveUp, Waits
    <2>2. ~ Waits(z)'
      BY <2>1 DEF Waits
    <2>3. Phase(z) = "answered" /\ Phase(z)' = "idle"
      BY <1>4, <2>1, <2>2 DEF Phased
    <2>4. AskedBy(z)' = NotTime /\ AnswerOf(z)' = NotTime
      BY <2>2 DEF AskedBy, AnswerOf
    <2> QED BY <2>3, <2>4 DEF Serving
  <1>5. CASE TimesOut(z) /\ cli[z] = << >>
    <2>1. CASE cpc[z] = "wait1"
      <3>1. cpc'[z] = "wait2" /\ cli' = cli /\ target' = target
        BY <1>1, <1>5, <2>1 DEF TimesOut, Timeout, GiveUp, AskAgain
      <3>2. Waits(z) /\ Waits(z)'
        BY <2>1, <3>1 DEF Waits
      <3>3. Phase(z) \in {"asked", "served"} /\ Phase(z)' \in {"asked", "served"}
        BY <1>5, <3>1, <3>2 DEF Phased
      <3>4. UNCHANGED << AskedBy(z), AnswerOf(z) >>
        BY <1>5, <3>1, <3>2 DEF AskedBy, AnswerOf
      <3> QED BY <3>3, <3>4 DEF Serving
    <2>2. CASE cpc[z] # "wait1"
      <3>1. GiveUp(z)
        BY <1>5, <2>2 DEF TimesOut, Timeout
      <3>2. Leave(z) /\ cpc[z] # "gone"
        BY <3>1 DEF GiveUp
      <3> QED BY <1>2, <1>5, <3>2
    <2> QED BY <2>1, <2>2
  <1>6. CASE Quits(z)
    <2>1. Leave(z) /\ cpc[z] = "prompt"
      BY <1>6 DEF Quits, Quit
    <2> QED BY <1>2, <2>1 DEF Waits
  <1>7. Receives(z) => cli[z] # << >>
    BY DEF Receives, Receive, ReceiveAgain
  <1> QED BY <1>3, <1>4, <1>5, <1>6, <1>7

(* The steps of the daemons, the servers and the network.                  *)
LEMMA NetworkServing ==
    ASSUME Plain, OneHome, TypeOK, TypeOK', ServerTurn, Outward, Phased, Phased',
           ReplyMatches', [Next]_vars, NEW z \in Clients,
           \/ \E n \in Nodes : Daemon(n) \/ Serves(n)
           \/ Environment
    PROVE  Serving(z)
  <1>1. /\ UNCHANGED << cpc, target >> /\ cli[z] \in Seq(Reply) /\ cli'[z] \in Seq(Reply)
        /\ Home[z] \in Nodes
    BY SocketAssumption
    DEF Daemon, Serves, Environment, clientVars, TypeOK
  <1>2. cli'[z] = cli[z] \/ \E r : cli'[z] = Append(cli[z], r)
    <2>1. ASSUME NEW k \in Links, DataAtSource(k)
          PROVE  cli'[z] = cli[z] \/ \E r : cli'[z] = Append(cli[z], r)
      <3>1. cli \in [Clients -> Seq(Reply)]
        BY DEF TypeOK
      <3> QED BY <2>1, <3>1 DEF DataAtSource, SendToApp, ClientAddr
    <2>2. ASSUME NEW k \in Links, process_pack(k), ~ DataAtSource(k)
          PROVE  cli' = cli
      BY <2>2 DEF process_pack, DropExpired, RreqStep, RrepStep, DataStep, RreqFlagged,
         RreqAtDest, RreqDuplicate, RreqFlood, RreqShortcut, RrepAtSource, RrepForward,
         DataAtDest, DataForward, HandlerFrame, sockets
    <2>3. ASSUME NEW n \in Nodes, ServerReply(n) \/ ServerTimeout(n) \/ HandleRequest(n)
          PROVE  cli' = cli
      BY <2>3 DEF ServerReply, ServerTimeout, HandleRequest, sockets
    <2>4. ASSUME NEW n \in Nodes, Serves(n)
          PROVE  cli' = cli
      BY <2>4 DEF Serves, Serve
    <2>5. CASE Environment
      BY <2>5 DEF Environment, Crash, Start, Unheard, Lose, Tick, sockets
    <2> QED BY <2>1, <2>2, <2>3, <2>4, <2>5 DEF Daemon, OdrStep
  <1>3. UNCHANGED << Waits(z), AskedBy(z) >>
    BY <1>1 DEF Waits, AskedBy
  <1>4. CASE ~ Waits(z)
    <2>1. Phase(z)' = Phase(z)
      BY <1>1, <1>3, <1>4 DEF Phased
    <2>2. AnswerOf(z)' = AnswerOf(z)
      BY <1>3, <1>4 DEF AnswerOf
    <2> QED BY <1>3, <2>1, <2>2 DEF Serving
  <1>5. CASE Waits(z) /\ cli[z] # << >>
    <2>1. cli'[z] = cli[z]
      <3>1. ASSUME NEW r, cli'[z] = Append(cli[z], r)
            PROVE  FALSE
        <4>1. Len(cli'[z]) = Len(cli[z]) + 1 /\ Len(cli[z]) >= 1 /\ Len(cli[z]) \in Nat
          BY <1>1, <1>5, <3>1
        <4>2. Len(cli'[z]) <= 1
          BY DEF Phased
        <4> QED BY <4>1, <4>2
      <3> QED BY <1>2, <3>1
    <2>2. Phase(z)' = Phase(z) /\ AnswerOf(z)' = AnswerOf(z)
      BY <1>3, <1>5, <2>1 DEF Phased, AnswerOf
    <2> QED BY <1>3, <2>2 DEF Serving
  <1>6. CASE Waits(z) /\ cli[z] = << >> /\ cli'[z] = << >>
    <2>1. Phase(z) \in {"asked", "served"} /\ Phase(z)' \in {"asked", "served"}
      BY <1>3, <1>6 DEF Phased
    <2>2. AnswerOf(z)' = AnswerOf(z)
      BY <1>3, <1>6 DEF AnswerOf
    <2> QED BY <1>3, <2>1, <2>2 DEF Serving
  <1>7. CASE Waits(z) /\ cli[z] = << >> /\ cli'[z] # << >>
    <2>1. IsTold(z)
      BY <1>7, NextClient DEF ClientStep, Takes, Renews
    <2>2. PICK k \in Links :
              /\ chan[k] # << >> /\ TRUE \in is_self(k.to, Head(chan[k]).src)
              /\ Head(chan[k]).type = "DATA"
      BY <2>1 DEF IsTold
    <2> DEFINE p == Head(chan[k])
    <2>3. p \in Packet /\ Carries(chan, k, p) /\ 1 \in DOMAIN chan[k] /\ chan[k][1] = p
      <3>1. p \in Packet /\ Carries(chan, k, p)
        BY <2>2, FrameFacts, HeadCarried DEF TypeOK, Frames
      <3>2. chan[k] \in Seq(Packet)
        BY DEF TypeOK
      <3>3. 1 \in DOMAIN chan[k] /\ chan[k][1] = p
        BY <2>2, <3>2
      <3> QED BY <3>1, <3>3
    <2>4. p.src \in Homes /\ k.to = p.src
      BY <2>2, <2>3 DEF ServerTurn, Steady, is_self, Sound, Plain
    <2>5. p.src = Home[z] /\ Home[z] \in Homes
      BY <2>4 DEF OneHome, Homes
    <2>6. p.src_dest = -1
      BY <2>2, <2>3, <2>4, <2>5 DEF Outward, LeadsAway
    <2>7. TimeUnderway(z)
      BY <2>2, <2>3, <2>5, <2>6 DEF TimeUnderway
    <2>8. Phase(z) = "served" /\ Phase(z)' = "answered"
      BY <1>3, <1>7, <2>7 DEF Phased
    <2>9. Head(cli'[z]).time = target'[z]
      <3>1. 1 \in 1 .. Len(cli'[z]) /\ Head(cli'[z]) = cli'[z][1]
        BY <1>1, <1>7
      <3>2. cli'[z][1] = [time |-> target'[z], ip |-> target'[z]]
        BY <3>1 DEF ReplyMatches
      <3> QED BY <3>1, <3>2
    <2>10. AnswerOf(z)' = AskedBy(z)
      BY <1>1, <1>3, <1>7, <2>9 DEF AnswerOf, AskedBy
    <2> QED BY <1>3, <2>8, <2>10 DEF Serving
  <1> QED BY <1>4, <1>5, <1>6, <1>7

(* A function on a set of one is changed where it is changed.              *)
LEMMA OnlyOne ==
    ASSUME NEW S, NEW z \in S, \A y \in S : y = z,
           NEW f, f = [y \in S |-> f[y]], NEW g, g = [y \in S |-> g[y]], NEW v, g[z] = v
    PROVE  g = [f EXCEPT ![z] = v]
  OBVIOUS

(* A step for the only client is a step for TimeService.                   *)
LEMMA ServiceStep ==
    ASSUME \A y, z \in Clients : y = z, \A z \in Clients : Serving(z)
    PROVE  [Service!Next]_(Service!serviceVars)
  <1> DEFINE P == [y \in Clients |-> Phase(y)]
             A == [y \in Clients |-> AskedBy(y)]
             R == [y \in Clients |-> AnswerOf(y)]
  <1>1. CASE Clients = {}
    BY <1>1 DEF Service!serviceVars
  <1>2. ASSUME NEW z \in Clients
        PROVE  [Service!Next]_(Service!serviceVars)
    <2>1. Serving(z) /\ \A y \in Clients : y = z
      OBVIOUS
    <2>2. P[z] = Phase(z) /\ A[z] = AskedBy(z) /\ R[z] = AnswerOf(z)
      OBVIOUS
    <2>3. ASSUME NEW v, Phase(z)' = v
          PROVE  P' = [P EXCEPT ![z] = v]
      BY <2>1, <2>3, OnlyOne
    <2>4. ASSUME NEW v, AskedBy(z)' = v
          PROVE  A' = [A EXCEPT ![z] = v]
      BY <2>1, <2>4, OnlyOne
    <2>5. ASSUME NEW v, AnswerOf(z)' = v
          PROVE  R' = [R EXCEPT ![z] = v]
      BY <2>1, <2>5, OnlyOne
    <2>6. /\ UNCHANGED Phase(z) => UNCHANGED P
          /\ UNCHANGED AskedBy(z) => UNCHANGED A
          /\ UNCHANGED AnswerOf(z) => UNCHANGED R
      BY <2>1
    <2>7. CASE UNCHANGED << Phase(z), AskedBy(z), AnswerOf(z) >>
      BY <2>6, <2>7 DEF Service!serviceVars, AskedBy, AnswerOf
    <2>8. CASE /\ Phase(z) = "idle" /\ Phase(z)' = "asked"
               /\ AskedBy(z)' \in Servers /\ UNCHANGED AnswerOf(z)
      <3>1. /\ P[z] = "idle" /\ P' = [P EXCEPT ![z] = "asked"]
            /\ \E s \in Servers : A' = [A EXCEPT ![z] = s]
            /\ UNCHANGED R
        BY <2>2, <2>3, <2>4, <2>6, <2>8
      <3>2. Service!Ask(z)
        BY <3>1 DEF Service!Ask, AskedBy, AnswerOf
      <3> QED BY <3>2 DEF Service!Next
    <2>9. CASE /\ << Phase(z), Phase(z)' >> = << "asked", "served" >>
               /\ UNCHANGED << AskedBy(z), AnswerOf(z) >>
      <3>1. P[z] = "asked" /\ P' = [P EXCEPT ![z] = "served"] /\ UNCHANGED << A, R >>
        BY <2>2, <2>3, <2>6, <2>9
      <3>2. Service!Serve(z)
        BY <3>1 DEF Service!Serve, AskedBy, AnswerOf
      <3> QED BY <3>2 DEF Service!Next
    <2>10. CASE /\ << Phase(z), Phase(z)' >> = << "served", "asked" >>
                /\ UNCHANGED << AskedBy(z), AnswerOf(z) >>
      <3>1. P[z] = "served" /\ P' = [P EXCEPT ![z] = "asked"] /\ UNCHANGED << A, R >>
        BY <2>2, <2>3, <2>6, <2>10
      <3>2. Service!Lose(z)
        BY <3>1 DEF Service!Lose, AskedBy, AnswerOf
      <3> QED BY <3>2 DEF Service!Next
    <2>11. CASE /\ Phase(z) = "served" /\ Phase(z)' = "answered"
                /\ UNCHANGED AskedBy(z) /\ AnswerOf(z)' = AskedBy(z)
      <3>1. /\ P[z] = "served" /\ P' = [P EXCEPT ![z] = "answered"]
            /\ R' = [R EXCEPT ![z] = A[z]] /\ UNCHANGED A
        BY <2>2, <2>3, <2>5, <2>6, <2>11
      <3>2. Service!Answer(z)
        BY <3>1 DEF Service!Answer, AskedBy, AnswerOf
      <3> QED BY <3>2 DEF Service!Next
    <2>12. CASE /\ Phase(z) = "answered" /\ Phase(z)' = "idle"
                /\ AskedBy(z)' = NotTime /\ AnswerOf(z)' = NotTime
      <3>1. /\ P[z] = "answered" /\ P' = [P EXCEPT ![z] = "idle"]
            /\ A' = [A EXCEPT ![z] = NotTime] /\ R' = [R EXCEPT ![z] = NotTime]
        BY <2>2, <2>3, <2>4, <2>5, <2>12
      <3>2. Service!Take(z)
        BY <3>1 DEF Service!Take, AskedBy, AnswerOf
      <3> QED BY <3>2 DEF Service!Next
    <2>13. CASE /\ Phase(z) \in {"idle", "asked", "served"} /\ Phase(z)' = "gone"
                /\ AskedBy(z)' = NotTime /\ AnswerOf(z)' = NotTime
      <3>1. /\ P[z] \in {"idle", "asked", "served"} /\ P' = [P EXCEPT ![z] = "gone"]
            /\ A' = [A EXCEPT ![z] = NotTime] /\ R' = [R EXCEPT ![z] = NotTime]
        BY <2>2, <2>3, <2>4, <2>5, <2>13
      <3>2. Service!Leave(z)
        BY <3>1 DEF Service!Leave, AskedBy, AnswerOf
      <3> QED BY <3>2 DEF Service!Next
    <2> QED BY <2>1, <2>7, <2>8, <2>9, <2>10, <2>11, <2>12, <2>13 DEF Serving
  <1> QED BY <1>1, <1>2

(* The daemons, the routes, the flood and the second try together are what *)
(* TimeService promises a client: it asks one server, and is told once, if *)
(* at all, a time that that server read after it was asked                 *)
(* (odr_aa19.c:345-366, 404-482, client_aa19.c:196-231), on every network, *)
(* whatever is lost or stale.                                              *)
THEOREM ServiceIsKept ==
    ASSUME Plain, OneHome, CHAR_HALF > 3, AddrLens = {TRUE}
    PROVE  Spec => ServiceKept
  <1>1. Init /\ Phased => Service!Init
    <2> SUFFICES ASSUME Init, Phased PROVE Service!Init
      OBVIOUS
    <2>1. ASSUME NEW z \in Clients
          PROVE  Phase(z) = "idle" /\ AskedBy(z) = NotTime /\ AnswerOf(z) = NotTime
      <3>1. cpc[z] = "prompt" /\ ~ Waits(z)
        BY DEF Init, ClientInit, Waits
      <3> QED BY <3>1 DEF Phased, AskedBy, AnswerOf
    <2> QED BY <2>1 DEF Service!Init, AskedBy, AnswerOf
  <1>2. TypeOK /\ Conversations => Phased /\ \A n \in Nodes : Up(n)
    BY ConversationsPhased DEF Conversations
  <1>3. TypeOK /\ TypeOK' /\ ServerTurn /\ Outward /\ ReplyMatches' /\ [Next]_vars
            /\ Phased /\ Phased' /\ (\A n \in Nodes : Up(n))
            => [Service!Next]_(Service!serviceVars)
    <2> SUFFICES ASSUME TypeOK, TypeOK', ServerTurn, Outward, ReplyMatches', [Next]_vars,
                        Phased, Phased', \A n \in Nodes : Up(n)
                 PROVE  [Service!Next]_(Service!serviceVars)
      OBVIOUS
    <2>1. \A y, z \in Clients : y = z
      BY DEF Plain, OneHome
    <2>2. ASSUME NEW z \in Clients
          PROVE  Serving(z)
      <3>1. CASE \E y \in Clients : Asks(y) \/ Receives(y) \/ TimesOut(y) \/ Quits(y)
        BY <2>1, <3>1, ClientServing
      <3>2. CASE (\E n \in Nodes : Daemon(n) \/ Serves(n)) \/ Environment
        BY <3>2, NetworkServing
      <3>3. CASE UNCHANGED vars
        <4>1. UNCHANGED << cpc, cli, target >>
          BY <3>3 DEF vars, sockets, clientVars
        <4>2. UNCHANGED TimeUnderway(z)
          BY <3>3 DEF vars, odrVars, sockets, TimeUnderway
        <4>3. UNCHANGED Waits(z) /\ UNCHANGED AskedBy(z) /\ UNCHANGED AnswerOf(z)
          BY <4>1 DEF Waits, AskedBy, AnswerOf
        <4>4. UNCHANGED Phase(z)
          BY <4>1, <4>2, <4>3 DEF Phased
        <4> QED BY <4>3, <4>4 DEF Serving
      <3> QED BY <3>1, <3>2, <3>3 DEF Next
    <2> QED BY <2>1, <2>2, ServiceStep
  <1>4. Sound
    BY DEF Plain
  <1>5. Spec => []ServerTurn
    BY <1>4, TurnAlways
  <1> QED BY <1>1, <1>2, <1>3, <1>5, TypeCorrect, ConversationsAlways,
             OneRequestOutward, OneRequestToldTrue, PTL DEF Spec, ServiceKept, Service!Spec

=============================================================================
