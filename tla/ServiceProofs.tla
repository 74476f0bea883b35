---------------------------- MODULE ServiceProofs ----------------------------
(***************************************************************************)
(* What a client may rely on, for every network and every number of        *)
(* requests, whatever is lost, killed or stale.  Each theorem names the    *)
(* conditions it needs; they are about the deployment alone.               *)
(***************************************************************************)
EXTENDS OdrSteps

-----------------------------------------------------------------------------
(* Whose time a client is told.                                            *)

(* A packet or a reply that holds a time holds that of its destination,    *)
(* because only the destination holds a packet for the server.             *)
TimesTrue ==
    /\ \A j \in Links, q \in Packet :
          Carries(chan, j, q) => q.payload \in {q.dest, NotTime}
    /\ \A n \in Nodes : held[n] \in Packet => held[n].dest = n
    /\ \A z \in Clients : \A i \in 1 .. Len(cli[z]) :
          cli[z][i].time \in {cli[z][i].ip, NotTime}

(* TimesTrue is inductive.                                                 *)
LEMMA TimesStep ==
    ASSUME IpFits, TypeOK, TimesTrue, [Next]_vars
    PROVE  TimesTrue'
  <1>1. ASSUME NEW j \in Links, NEW q \in Packet, Carries(chan', j, q)
        PROVE  q.payload \in {q.dest, NotTime}
    <2>1. CASE Carries(chan, j, q)
      BY <2>1 DEF TimesTrue
    <2>2. CASE SentOver(j, q)
      <3>1. j.from \in Nodes
        BY LinkType
      <3> QED BY <2>2, <3>1 DEF SentOver, Copy, TimesTrue
    <2> QED BY <1>1, <2>1, <2>2, NextSent
  <1>2. ASSUME NEW n \in Nodes, held'[n] \in Packet
        PROVE  held'[n].dest = n
    BY <1>2, HeldStep DEF TimesTrue, is_self
  <1>3. ASSUME NEW z \in Clients, NEW i \in 1 .. Len(cli'[z])
        PROVE  cli'[z][i].time \in {cli'[z][i].ip, NotTime}
    <2>1. cli[z] \in Seq(Reply)
      BY DEF TypeOK
    <2>2. CASE cli'[z] = cli[z]
      BY <1>3, <2>2 DEF TimesTrue
    <2>3. CASE IsTold(z)
      <3>1. PICK k \in Links : chan[k] # << >> /\ cli'[z] = Append(cli[z], ReplyTo(Head(chan[k])))
        BY <2>3 DEF IsTold
      <3>2. Head(chan[k]) \in Packet /\ Carries(chan, k, Head(chan[k]))
        BY <3>1, FrameFacts, HeadCarried DEF TypeOK, Frames
      <3> DEFINE r == ReplyTo(Head(chan[k]))
      <3>3. r.time \in {r.ip, NotTime}
        BY <3>2 DEF ReplyTo, TimesTrue
      <3> HIDE DEF r
      <3>4. CASE i <= Len(cli[z])
        <4>1. cli'[z][i] = cli[z][i] /\ i \in 1 .. Len(cli[z])
          BY <1>3, <2>1, <3>1, <3>4 DEF r
        <4> QED BY <4>1 DEF TimesTrue
      <3>5. CASE i > Len(cli[z])
        <4>1. cli'[z][i] = r
          BY <1>3, <2>1, <3>1, <3>5 DEF r
        <4> QED BY <3>3, <4>1
      <3> QED BY <1>3, <2>1, <3>4, <3>5
    <2>4. CASE Takes(z)
      <3>1. cli'[z][i] = cli[z][i + 1] /\ i + 1 \in 1 .. Len(cli[z])
        BY <1>3, <2>1, <2>4 DEF Takes
      <3> QED BY <3>1 DEF TimesTrue
    <2>5. CASE Renews(z)
      BY <1>3, <2>5 DEF Renews
    <2> QED BY <2>2, <2>3, <2>4, <2>5, NextClient DEF ClientStep
  <1> QED BY <1>1, <1>2, <1>3 DEF TimesTrue

(* TimesTrue holds from the start on.                                      *)
LEMMA TimesAlways ==
    ASSUME IpFits
    PROVE  Spec => []TimesTrue
  <1>1. Init => TimesTrue
    BY NoPacketHeld DEF Init, LinkInit, SocketInit, OdrInit, TimesTrue, Carries
  <1>2. TypeOK /\ TimesTrue /\ [Next]_vars => TimesTrue'
    BY TimesStep
  <1> QED BY <1>1, <1>2, TypeCorrect, PTL DEF Spec

(* No reply, however many lives of daemons, stale routes and second tries  *)
(* it has seen, passes one server's time off as another's: the time is     *)
(* that of the server whose address is in the reply, or the reply holds no *)
(* server's time at all (odr_aa19.c:413-486, client_aa19.c:196-231).       *)
THEOREM RepliesNameTheirServer ==
    ASSUME IpFits
    PROVE  Spec => [](\A z \in Clients : \A i \in 1 .. Len(cli[z]) :
                        cli[z][i].time \in {cli[z][i].ip, NotTime})
  <1>1. TimesTrue => \A z \in Clients : \A i \in 1 .. Len(cli[z]) :
                        cli[z][i].time \in {cli[z][i].ip, NotTime}
    BY DEF TimesTrue
  <1> QED BY <1>1, TimesAlways, PTL

(* The nodes with a client, and the servers the clients of a node ask for. *)
Homes == {Home[z] : z \in Clients}
Wanted(n) == {d \in Nodes : \E z \in Clients : Home[z] = n /\ d \in Targets[z]}

(* No client runs beside a time server.                                    *)
Apart == Homes \cap Servers = {}

(* A packet with a client's node for its source is about a server that     *)
(* clients of that node ask for.                                           *)
Meant(q) == q.src \in Homes => q.dest \in Wanted(q.src)

(* A datagram of a client, in the socket of the client's own daemon.       *)
Heard(n, m) ==
    /\ m.kind = "request" => Home[m.from[1]] = n /\ m.dest \in Wanted(n)
    /\ n \in Homes => m.kind = "request"

(* From the request to the reply nobody exchanges the server's address, or *)
(* takes one node's clients for another's.                                 *)
AddressesKept ==
    /\ \A j \in Links, q \in Packet : Carries(chan, j, q) => Meant(q)
    /\ \A n \in Nodes : held[n] \in Packet => Meant(held[n])
    /\ \A n \in Nodes : \A i \in 1 .. Len(un[n]) : Heard(n, un[n][i])
    /\ \A n \in Nodes :
          al_client_addr[n] \in ClientAddr => Home[al_client_addr[n][1]] = n
    /\ \A z \in Clients : sock[z] # 0 => target[z] \in Targets[z]
    /\ \A z \in Clients : \A i \in 1 .. Len(cli[z]) :
          sock[z] # 0 /\ cli[z][i].ip \in Wanted(Home[z])

(* Every packet on the network is still meant.                             *)
LEMMA MeantStep ==
    ASSUME TypeOK, AddressesKept, [Next]_vars, NEW j \in Links, NEW q \in Packet,
           Carries(chan', j, q)
    PROVE  Meant(q)
  <1>1. CASE Carries(chan, j, q)
    BY <1>1 DEF AddressesKept
  <1>2. CASE SentOver(j, q)
    <2> DEFINE n == j.from
    <2>1. n \in Nodes
      BY LinkType
    <2> HIDE DEF n
    <2>2. CASE \E k \in Links, p \in Packet :
                  k.to = n /\ Carries(chan, k, p) /\ Copy(q, p)
      BY <2>2 DEF Copy, AddressesKept, Meant
    <2>3. CASE held[n] \in Packet /\ q.src = held[n].src /\ q.dest = held[n].dest
      BY <2>1, <2>3 DEF AddressesKept, Meant
    <2>4. CASE /\ un[n] # << >> /\ q.src = n
               /\ \E req \in Requests(Head(un[n])) : q.dest = req.dest
      <3>1. un[n] \in Seq(Datagram)
        BY <2>1 DEF TypeOK
      <3>2. Heard(n, Head(un[n]))
        <4>1. 1 \in 1 .. Len(un[n]) /\ un[n][1] = Head(un[n])
          BY <2>4, <3>1
        <4>2. Heard(n, un[n][1])
          BY <2>1, <4>1 DEF AddressesKept
        <4> QED BY <4>1, <4>2
      <3> QED BY <2>4, <3>2 DEF Heard, Meant, Requests
    <2>5. HandleRequest(n) => un[n] # << >>
      BY DEF HandleRequest
    <2> QED BY <1>2, <2>2, <2>3, <2>4, <2>5 DEF SentOver, n
  <1> QED BY <1>1, <1>2, NextSent

(* Every datagram still is in the socket of the right daemon.              *)
LEMMA HeardStep ==
    ASSUME Apart, TypeOK, AddressesKept, [Next]_vars, NEW n \in Nodes
    PROVE  /\ \A i \in 1 .. Len(un'[n]) : Heard(n, un'[n][i])
           /\ al_client_addr'[n] \in ClientAddr => Home[al_client_addr'[n][1]] = n
  <1>1. un[n] \in Seq(Datagram) /\ LocalStep(n)
    BY NextLocal DEF TypeOK
  <1>2. \A i \in 1 .. Len(un[n]) : Heard(n, un[n][i])
    BY DEF AddressesKept
  <1>3. CASE un'[n] = un[n] /\ al_client_addr'[n] = al_client_addr[n]
    BY <1>3 DEF AddressesKept
  <1>4. ASSUME un[n] # << >>, un'[n] = Tail(un[n])
        PROVE  \A i \in 1 .. Len(un'[n]) : Heard(n, un'[n][i])
    <2>1. \A i \in 1 .. Len(Tail(un[n])) :
             i + 1 \in 1 .. Len(un[n]) /\ Tail(un[n])[i] = un[n][i + 1]
      BY <1>1, <1>4, Queue
    <2> QED BY <1>2, <1>4, <2>1
  <1>5. ASSUME NEW m, Heard(n, m), un'[n] = Append(un[n], m)
        PROVE  \A i \in 1 .. Len(un'[n]) : Heard(n, un'[n][i])
    <2>1. \A i \in 1 .. Len(Append(un[n], m)) :
             \/ Append(un[n], m)[i] = m
             \/ i \in 1 .. Len(un[n]) /\ Append(un[n], m)[i] = un[n][i]
      BY <1>1, Queue
    <2> QED BY <1>2, <1>5, <2>1
  <1>6. CASE ReadsFrame(n) \/ AsksServer(n) \/ Starts(n) \/ UNCHANGED local(n)
    BY <1>3, <1>6 DEF ReadsFrame, AsksServer, Starts, local
  <1>7. CASE EndsWait(n)
    BY <1>3, <1>4, <1>7 DEF EndsWait, AddressesKept
  <1>8. CASE ReadsRequest(n)
    <2>1. /\ un[n] # << >> /\ un'[n] = Tail(un[n])
          /\ al_client_addr'[n] = Head(un[n]).from
      BY <1>8 DEF ReadsRequest
    <2>2. Heard(n, Head(un[n])) /\ Head(un[n]) \in Datagram
      <3>1. 1 \in 1 .. Len(un[n]) /\ un[n][1] = Head(un[n]) /\ Head(un[n]) \in Datagram
        BY <1>1, <2>1
      <3>2. Heard(n, un[n][1])
        BY <1>2, <3>1
      <3> QED BY <3>1, <3>2
    <2>3. SrvAddr \notin ClientAddr
      BY SocketAssumption DEF ClientAddr
    <2>4. al_client_addr'[n] \in ClientAddr => Head(un[n]).kind = "request"
      BY <2>1, <2>2, <2>3 DEF Datagram
    <2> QED BY <1>4, <2>1, <2>2, <2>4 DEF Heard
  <1>9. CASE Ends(n)
    <2>1. un'[n] = << >> /\ al_client_addr'[n] = NoAddr
      BY <1>9 DEF Ends
    <2>2. NoAddr \notin ClientAddr
      BY SocketAssumption DEF ClientAddr
    <2> QED BY <2>1, <2>2
  <1>10. CASE IsAnswered(n)
    <2> DEFINE m == [kind |-> "time", from |-> SrvAddr]
    <2>1. Heard(n, m)
      BY <1>10 DEF IsAnswered, Apart, Heard
    <2>2. un'[n] = Append(un[n], m) \/ un'[n] = un[n]
      BY <1>10 DEF IsAnswered
    <2>3. al_client_addr'[n] = al_client_addr[n]
      BY <1>10 DEF IsAnswered
    <2> HIDE DEF m
    <2> QED BY <1>3, <1>5, <2>1, <2>2, <2>3 DEF AddressesKept
  <1>11. CASE IsAsked(n)
    <2>1. PICK z \in Clients, i \in 1 .. MaxRequests, d \in Nodes, f \in {0, 1} :
              /\ Home[z] = n
              /\ d \in Targets[z] \/ (d = target[z] /\ sock[z] # 0)
              /\ un'[n] = Append(un[n], [kind |-> "request", from |-> << z, i >>,
                                         dest |-> d, forced |-> f])
      BY <1>11 DEF IsAsked
    <2> DEFINE m == [kind |-> "request", from |-> << z, i >>, dest |-> d, forced |-> f]
    <2>2. d \in Targets[z]
      BY <2>1 DEF AddressesKept
    <2>3. d \in Wanted(n)
      BY <2>1, <2>2 DEF Wanted
    <2>4. Heard(n, m)
      BY <2>1, <2>3 DEF Heard
    <2>5. un'[n] = Append(un[n], m)
      BY <2>1
    <2>6. al_client_addr'[n] = al_client_addr[n]
      BY <1>11 DEF IsAsked
    <2> HIDE DEF m
    <2> QED BY <1>5, <2>4, <2>5, <2>6 DEF AddressesKept
  <1> QED BY <1>1, <1>6, <1>7, <1>8, <1>9, <1>10, <1>11 DEF LocalStep

(* A client's replies still are about a server its node asks for.          *)
LEMMA ToldStep ==
    ASSUME IpFits, TypeOK, AddressesKept, [Next]_vars, NEW z \in Clients
    PROVE  /\ sock'[z] # 0 => target'[z] \in Targets[z]
           /\ \A i \in 1 .. Len(cli'[z]) :
                 sock'[z] # 0 /\ cli'[z][i].ip \in Wanted(Home[z])
  <1>1. /\ cli[z] \in Seq(Reply) /\ sock[z] \in 0 .. MaxRequests /\ ClientStep(z)
        /\ sock[z] # 0 => target[z] \in Targets[z]
        /\ \A i \in 1 .. Len(cli[z]) : sock[z] # 0 /\ cli[z][i].ip \in Wanted(Home[z])
    BY NextClient DEF TypeOK, AddressesKept
  <1>2. CASE UNCHANGED << cli[z], sock[z], target[z] >>
    BY <1>1, <1>2
  <1>3. CASE IsTold(z)
    <2>1. PICK k \in Links :
              /\ chan[k] # << >> /\ TRUE \in is_self(k.to, Head(chan[k]).src)
              /\ al_client_addr[k.to] = << z, sock[z] >> /\ sock[z] # 0
              /\ cli'[z] = Append(cli[z], ReplyTo(Head(chan[k])))
      BY <1>3 DEF IsTold
    <2> DEFINE p == Head(chan[k])
               r == ReplyTo(p)
    <2>2. k.to \in Nodes /\ p \in Packet /\ Carries(chan, k, p)
      BY <2>1, FrameFacts, HeadCarried DEF TypeOK, Frames
    <2>3. sock[z] \in 1 .. MaxRequests
      BY <1>1, <2>1, SocketAssumption
    <2>4. << z, sock[z] >> \in ClientAddr /\ << z, sock[z] >>[1] = z
      BY <2>3 DEF ClientAddr
    <2>5. Home[z] = k.to
      BY <2>1, <2>2, <2>4 DEF AddressesKept
    <2>6. p.src = k.to
      BY <2>1 DEF is_self
    <2>7. p.dest \in Wanted(Home[z])
      BY <2>2, <2>5, <2>6 DEF AddressesKept, Meant, Homes
    <2>8. r.ip \in Wanted(Home[z]) /\ cli'[z] = Append(cli[z], r)
      BY <2>1, <2>7 DEF ReplyTo
    <2> HIDE DEF r
    <2>9. \A i \in 1 .. Len(Append(cli[z], r)) :
             \/ Append(cli[z], r)[i] = r
             \/ i \in 1 .. Len(cli[z]) /\ Append(cli[z], r)[i] = cli[z][i]
      BY <1>1, Queue
    <2>10. sock'[z] = sock[z] /\ target'[z] = target[z]
      BY <1>3 DEF IsTold
    <2> QED BY <1>1, <2>1, <2>8, <2>9, <2>10
  <1>4. CASE Takes(z)
    <2>1. /\ cli[z] # << >> /\ cli'[z] = Tail(cli[z])
          /\ sock'[z] = sock[z] /\ target'[z] = target[z]
      BY <1>4 DEF Takes
    <2>2. \A i \in 1 .. Len(Tail(cli[z])) :
             i + 1 \in 1 .. Len(cli[z]) /\ Tail(cli[z])[i] = cli[z][i + 1]
      BY <1>1, <2>1, Queue
    <2> QED BY <1>1, <2>1, <2>2
  <1>5. CASE Renews(z)
    BY <1>5 DEF Renews
  <1> QED BY <1>1, <1>2, <1>3, <1>4, <1>5 DEF ClientStep

(* AddressesKept is inductive.                                             *)
LEMMA AddressesStep ==
    ASSUME IpFits, Apart, TypeOK, AddressesKept, [Next]_vars
    PROVE  AddressesKept'
  <1>1. ASSUME NEW n \in Nodes, held'[n] \in Packet
        PROVE  Meant(held'[n])
    <2>1. CASE held'[n] = held[n]
      BY <1>1, <2>1 DEF AddressesKept
    <2>2. ASSUME NEW k \in Links, chan[k] # << >>, held'[n] = Head(chan[k])
          PROVE  Meant(held'[n])
      <3>1. Head(chan[k]) \in Packet /\ Carries(chan, k, Head(chan[k]))
        BY <2>2, FrameFacts, HeadCarried DEF TypeOK, Frames
      <3> QED BY <2>2, <3>1 DEF AddressesKept
    <2> QED BY <1>1, <2>1, <2>2, HeldStep
  <1>2. \A n \in Nodes :
           /\ \A i \in 1 .. Len(un'[n]) : Heard(n, un'[n][i])
           /\ al_client_addr'[n] \in ClientAddr => Home[al_client_addr'[n][1]] = n
    BY HeardStep
  <1>3. \A z \in Clients :
           /\ sock'[z] # 0 => target'[z] \in Targets[z]
           /\ \A i \in 1 .. Len(cli'[z]) :
                 sock'[z] # 0 /\ cli'[z][i].ip \in Wanted(Home[z])
    BY ToldStep
  <1>4. \A j \in Links, q \in Packet : Carries(chan', j, q) => Meant(q)
    BY MeantStep
  <1> QED BY <1>1, <1>2, <1>3, <1>4 DEF AddressesKept

(* AddressesKept holds from the start on.                                  *)
LEMMA AddressesAlways ==
    ASSUME IpFits, Apart
    PROVE  Spec => []AddressesKept
  <1>1. Init => AddressesKept
    BY NoPacketHeld, SocketAssumption
    DEF Init, LinkInit, SocketInit, OdrInit, AddressesKept, Carries, ClientAddr
  <1>2. TypeOK /\ AddressesKept /\ [Next]_vars => AddressesKept'
    BY AddressesStep
  <1> QED BY <1>1, <1>2, TypeCorrect, PTL DEF Spec

(* The clients of a node all ask one server.                               *)
OneServerEach ==
    \A y, z \in Clients : Home[y] = Home[z] =>
        \A s \in Targets[y], t \in Targets[z] : s = t

(* A client hears of the server it asked, and no other server's time,      *)
(* however many requests it makes, whatever is lost, killed, started again *)
(* or late (odr_aa19.c:413-486, client_aa19.c:196-231).                    *)
THEOREM AskedServerAnswers ==
    ASSUME IpFits, Apart, OneServerEach
    PROVE  Spec => []AskedServersTime
  <1>1. AddressesKept /\ TimesTrue => AskedServersTime
    <2> SUFFICES ASSUME AddressesKept, TimesTrue, NEW z \in Clients,
                        NEW i \in 1 .. Len(cli[z])
                 PROVE  /\ cli[z][i].ip = target[z]
                        /\ cli[z][i].time \in {target[z], NotTime}
      BY DEF AskedServersTime
    <2>1. cli[z][i].ip \in Wanted(Home[z]) /\ target[z] \in Targets[z]
      BY DEF AddressesKept
    <2>2. cli[z][i].ip = target[z]
      BY <2>1 DEF Wanted, OneServerEach
    <2> QED BY <2>2 DEF TimesTrue
  <1> QED BY <1>1, TimesAlways, AddressesAlways, PTL

-----------------------------------------------------------------------------
(* The daemon's two conversations over one Unix socket.                    *)

(* What the service is made for: addresses fit, clients ask servers, from  *)
(* other machines, and a server answers within the 3 seconds.              *)
Sound ==
    /\ IpFits /\ Apart /\ ~ SlowServer
    /\ \A z \in Clients : Targets[z] \subseteq Servers

(* No daemon beside a server has been killed.                              *)
Steady == crashes = 0 \/ Mortal \cap Servers = {}

(* A daemon beside clients reads requests only and never waits for a       *)
(* server.  Any other has a question on the way, or an answer to read,     *)
(* while it waits, just the one, and nothing at any other time.            *)
Turn(n) ==
    IF n \in Homes
    THEN /\ srv[n] = 0 /\ pc[n] \notin {"await", "awaitUnix"}
         /\ al_client_addr[n] # SrvAddr
         /\ pc[n] = "unix" => un[n] # << >>
    ELSE /\ Len(un[n]) + srv[n] = IF pc[n] = "await" THEN 1 ELSE 0
         /\ pc[n] \notin {"unix", "awaitUnix"}
         /\ al_client_addr[n] = NoAddr

(* So only clients make packets.                                           *)
ServerTurn ==
    Steady =>
        /\ \A j \in Links, q \in Packet : Carries(chan, j, q) => q.src \in Homes
        /\ \A n \in Nodes : held[n] \in Packet => held[n].src \in Homes
        /\ \A n \in Nodes : Turn(n)

(* A packet of a client is for a server.                                   *)
LEMMA MeantForServer ==
    ASSUME Sound, NEW q, Meant(q), q.src \in Homes
    PROVE  q.dest \in Servers /\ q.dest \in Nodes
  BY DEF Sound, Meant, Wanted

(* The daemons that were killed are counted.                               *)
LEMMA CrashesCounted ==
    ASSUME TypeOK, [Next]_vars
    PROVE  crashes' = crashes \/ crashes' = crashes + 1
  <1>1. ASSUME NEW m \in Nodes, Daemon(m)
        PROVE  crashes' = crashes
    <2>1. ASSUME NEW k \in Links, process_pack(k)
          PROVE  crashes' = crashes
      BY <2>1 DEF process_pack, DropExpired, RreqStep, RrepStep, DataStep, RreqFlagged,
         RreqAtDest, RreqDuplicate, RreqFlood, RreqShortcut, RrepAtSource, RrepForward,
         DataAtSource, DataAtDest, DataForward, HandlerFrame
    <2> QED BY <1>1, <2>1 DEF Daemon, OdrStep, ServerReply, ServerTimeout, HandleRequest
  <1>2. CASE Environment
    BY <1>2 DEF Environment, Crash, Start, Unheard, Lose, Tick, odrVars
  <1>3. CASE \/ \E n \in Nodes : Serves(n)
             \/ \E z \in Clients : Asks(z) \/ Receives(z) \/ TimesOut(z) \/ Quits(z)
             \/ UNCHANGED vars
    BY <1>3 DEF Serves, Asks, Receives, TimesOut, Quits, vars, odrVars
  <1> QED BY <1>1, <1>2, <1>3 DEF Next

(* A node that was steady was so before.                                   *)
LEMMA SteadyBefore ==
    ASSUME TypeOK, [Next]_vars, Steady'
    PROVE  Steady
  <1>1. crashes \in Nat /\ (crashes' = crashes \/ crashes' = crashes + 1)
    BY CrashesCounted DEF TypeOK
  <1> QED BY <1>1 DEF Steady

(* The turn of a node that has clients.                                    *)
LEMMA HomeTurn ==
    ASSUME Sound, TypeOK, AddressesKept, ServerTurn, Steady, [Next]_vars,
           NEW n \in Nodes, n \in Homes
    PROVE  Turn(n)'
  <1>1. /\ srv[n] = 0 /\ pc[n] \notin {"await", "awaitUnix"}
        /\ al_client_addr[n] # SrvAddr /\ (pc[n] = "unix" => un[n] # << >>)
        /\ un[n] \in Seq(Datagram) /\ n \notin Servers
    BY DEF ServerTurn, Turn, TypeOK, Sound, Apart
  <1> SUFFICES /\ srv'[n] = 0 /\ pc'[n] \notin {"await", "awaitUnix"}
               /\ al_client_addr'[n] # SrvAddr
               /\ pc'[n] = "unix" => un'[n] # << >>
    BY DEF Turn
  <1>2. CASE UNCHANGED local(n)
    BY <1>1, <1>2 DEF local
  <1>3. CASE ReadsFrame(n)
    BY <1>1, <1>3 DEF ReadsFrame
  <1>4. CASE AsksServer(n)
    <2>1. PICK k \in Links :
              k.to = n /\ chan[k] # << >> /\ TRUE \in is_self(n, Head(chan[k]).dest)
      BY <1>4 DEF AsksServer
    <2>2. Head(chan[k]) \in Packet /\ Carries(chan, k, Head(chan[k]))
      BY <2>1, FrameFacts, HeadCarried DEF TypeOK, Frames
    <2>3. Head(chan[k]).dest \in Servers
      BY <2>2, MeantForServer DEF AddressesKept, ServerTurn
    <2> QED BY <1>1, <2>1, <2>3 DEF is_self, Sound
  <1>5. CASE EndsWait(n)
    BY <1>1, <1>5 DEF EndsWait
  <1>6. CASE ReadsRequest(n)
    <2>1. un[n] # << >> /\ al_client_addr'[n] = Head(un[n]).from
      BY <1>6 DEF ReadsRequest
    <2>2. 1 \in 1 .. Len(un[n]) /\ un[n][1] = Head(un[n]) /\ Head(un[n]) \in Datagram
      BY <1>1, <2>1
    <2>3. Heard(n, Head(un[n]))
      BY <2>2 DEF AddressesKept
    <2>4. Head(un[n]).from \in ClientAddr
      BY <2>2, <2>3 DEF Heard, Datagram
    <2>5. SrvAddr \notin ClientAddr
      BY SocketAssumption DEF ClientAddr
    <2> QED BY <1>1, <1>6, <2>1, <2>4, <2>5 DEF ReadsRequest
  <1>7. CASE Ends(n)
    BY <1>1, <1>7, SocketAssumption DEF Ends
  <1>8. CASE Starts(n)
    BY <1>1, <1>8 DEF Starts
  <1>9. CASE IsAnswered(n)
    BY <1>1, <1>9 DEF IsAnswered
  <1>10. CASE IsAsked(n)
    <2>1. PICK m : un'[n] = Append(un[n], m)
      BY <1>10 DEF IsAsked
    <2>2. un'[n] # << >>
      BY <1>1, <2>1
    <2> QED BY <1>1, <1>10, <2>2 DEF IsAsked
  <1> QED BY <1>2, <1>3, <1>4, <1>5, <1>6, <1>7, <1>8, <1>9, <1>10, NextLocal DEF LocalStep

(* The turn of any other node.                                             *)
LEMMA OtherTurn ==
    ASSUME Sound, TypeOK, TimesTrue, AddressesKept, ServerTurn, Steady, Steady',
           [Next]_vars, NEW n \in Nodes, n \notin Homes
    PROVE  Turn(n)'
  <1>1. /\ Len(un[n]) + srv[n] = IF pc[n] = "await" THEN 1 ELSE 0
        /\ pc[n] \notin {"unix", "awaitUnix"} /\ al_client_addr[n] = NoAddr
        /\ un[n] \in Seq(Datagram) /\ srv[n] \in Nat
    BY DEF ServerTurn, Turn, TypeOK
  <1>2. Len(un[n]) \in Nat /\ (un[n] = << >> <=> Len(un[n]) = 0)
    BY <1>1
  <1>3. pc[n] # "await" => un[n] = << >> /\ srv[n] = 0
    BY <1>1, <1>2
  <1>4. \A k \in Links : chan[k] # << >> =>
           /\ Head(chan[k]).dest \in Servers /\ Head(chan[k]).dest \in Nodes
           /\ Head(chan[k]).src \in Homes
    <2>1. ASSUME NEW k \in Links, chan[k] # << >>
          PROVE  /\ Head(chan[k]).dest \in Servers /\ Head(chan[k]).dest \in Nodes
                 /\ Head(chan[k]).src \in Homes
      <3>1. Head(chan[k]) \in Packet /\ Carries(chan, k, Head(chan[k]))
        BY <2>1, FrameFacts, HeadCarried DEF TypeOK, Frames
      <3> QED BY <3>1, MeantForServer DEF AddressesKept, ServerTurn
    <2> QED BY <2>1
  <1>5. pc[n] = "await" => n \in Servers
    <2>1. SUFFICES ASSUME pc[n] = "await" PROVE n \in Servers
      OBVIOUS
    <2>2. held[n] \in Packet
      BY <2>1 DEF TypeOK
    <2>3. held[n].dest = n /\ Meant(held[n]) /\ held[n].src \in Homes
      BY <2>2 DEF TimesTrue, AddressesKept, ServerTurn
    <2> QED BY <2>3, MeantForServer
  <1> SUFFICES /\ Len(un'[n]) + srv'[n] = IF pc'[n] = "await" THEN 1 ELSE 0
               /\ pc'[n] \notin {"unix", "awaitUnix"} /\ al_client_addr'[n] = NoAddr
    BY DEF Turn
  <1>6. CASE UNCHANGED local(n)
    BY <1>1, <1>6 DEF local
  <1>7. CASE ReadsFrame(n)
    <2>1. un[n] = << >> /\ srv[n] = 0 /\ SrvAddr # NoAddr
      BY <1>3, <1>7, SocketAssumption DEF ReadsFrame
    <2>2. un'[n] = << >> /\ srv'[n] = 0 /\ pc'[n] = "select" /\ al_client_addr'[n] = NoAddr
      BY <1>1, <1>7, <2>1 DEF ReadsFrame
    <2> QED BY <2>2
  <1>8. CASE AsksServer(n)
    <2>1. un[n] = << >> /\ srv[n] = 0
      BY <1>3, <1>8 DEF AsksServer
    <2>2. n \in Servers
      BY <1>4, <1>8 DEF AsksServer, is_self, Sound
    <2>3. un'[n] = << >> /\ srv'[n] = 1 /\ pc'[n] = "await" /\ al_client_addr'[n] = NoAddr
      BY <1>1, <1>8, <2>1, <2>2 DEF AsksServer
    <2> QED BY <2>3
  <1>9. CASE EndsWait(n)
    <2>1. pc[n] = "await" /\ pc'[n] = "select" /\ n \in Servers
      BY <1>1, <1>5, <1>9 DEF EndsWait
    <2>2. un[n] # << >> /\ un'[n] = Tail(un[n]) /\ srv'[n] = srv[n]
          /\ al_client_addr'[n] = NoAddr
      BY <1>1, <1>9, <2>1 DEF EndsWait, Sound
    <2>3. Len(un'[n]) = Len(un[n]) - 1
      BY <1>1, <2>2
    <2> QED BY <1>1, <1>2, <2>1, <2>2, <2>3
  <1>10. CASE ReadsRequest(n)
    BY <1>3, <1>10 DEF ReadsRequest
  <1>11. CASE Ends(n)
    <2>1. pc[n] # "await"
      <3>1. CASE crashes' = crashes + 1 /\ n \in Mortal
        <4>1. crashes' # 0
          BY <3>1 DEF TypeOK
        <4>2. n \notin Servers
          BY <3>1, <4>1 DEF Steady
        <4> QED BY <1>5, <4>2
      <3>2. ASSUME NEW k \in Links, k.to = n, chan[k] # << >>, Fatal(n, Head(chan[k]))
            PROVE  FALSE
        BY <1>4, <3>2 DEF Fatal, is_self, Sound
      <3> QED BY <1>11, <3>1, <3>2 DEF Ends
    <2>2. un'[n] = << >> /\ srv'[n] = 0 /\ pc'[n] = "down" /\ al_client_addr'[n] = NoAddr
      BY <1>3, <1>11, <2>1 DEF Ends
    <2> QED BY <2>2
  <1>12. CASE Starts(n)
    BY <1>1, <1>12 DEF Starts
  <1>13. CASE IsAnswered(n)
    <2> DEFINE m == [kind |-> "time", from |-> SrvAddr]
    <2>1. pc[n] = "await"
      BY <1>3, <1>13 DEF IsAnswered
    <2>2. un'[n] = Append(un[n], m) /\ srv'[n] = srv[n] - 1 /\ pc'[n] = "await"
          /\ al_client_addr'[n] = NoAddr
      BY <1>1, <1>13, <2>1 DEF IsAnswered
    <2>3. Len(un'[n]) = Len(un[n]) + 1
      BY <1>1, <2>2
    <2> QED BY <1>1, <1>2, <2>1, <2>2, <2>3
  <1>14. CASE IsAsked(n)
    BY <1>14 DEF IsAsked, Homes
  <1> QED
    BY <1>6, <1>7, <1>8, <1>9, <1>10, <1>11, <1>12, <1>13, <1>14, NextLocal DEF LocalStep

(* ServerTurn is inductive.                                                *)
LEMMA TurnStep ==
    ASSUME Sound, TypeOK, TimesTrue, AddressesKept, ServerTurn, [Next]_vars
    PROVE  ServerTurn'
  <1> SUFFICES ASSUME Steady' PROVE
        /\ \A j \in Links, q \in Packet : Carries(chan', j, q) => q.src \in Homes
        /\ \A n \in Nodes : held'[n] \in Packet => held'[n].src \in Homes
        /\ \A n \in Nodes : Turn(n)'
    BY DEF ServerTurn
  <1>1. Steady
    BY SteadyBefore
  <1>2. ASSUME NEW j \in Links, NEW q \in Packet, Carries(chan', j, q)
        PROVE  q.src \in Homes
    <2>1. CASE Carries(chan, j, q)
      BY <1>1, <2>1 DEF ServerTurn
    <2>2. CASE SentOver(j, q)
      <3> DEFINE n == j.from
      <3>1. n \in Nodes
        BY LinkType
      <3> HIDE DEF n
      <3>2. CASE \E k \in Links, p \in Packet : Carries(chan, k, p) /\ Copy(q, p)
        BY <1>1, <3>2 DEF Copy, ServerTurn
      <3>3. CASE held[n] \in Packet /\ q.src = held[n].src
        BY <1>1, <3>1, <3>3 DEF ServerTurn
      <3>4. CASE pc[n] \in {"select", "unix"} /\ un[n] # << >> /\ q.src = n
        <4>1. CASE n \notin Homes
          <5>1. Len(un[n]) + srv[n] = 0 /\ un[n] \in Seq(Datagram) /\ srv[n] \in Nat
            BY <1>1, <3>1, <3>4, <4>1 DEF ServerTurn, Turn, TypeOK
          <5>2. Len(un[n]) = 0
            BY <5>1
          <5> QED BY <3>4, <5>1, <5>2
        <4> QED BY <3>4, <4>1
      <3>5. HandleRequest(n) => pc[n] \in {"select", "unix"} /\ un[n] # << >>
        BY DEF HandleRequest
      <3> QED BY <2>2, <3>2, <3>3, <3>4, <3>5 DEF SentOver, n
    <2> QED BY <1>2, <2>1, <2>2, NextSent
  <1>3. ASSUME NEW n \in Nodes, held'[n] \in Packet
        PROVE  held'[n].src \in Homes
    <2>1. CASE held'[n] = held[n]
      BY <1>1, <1>3, <2>1 DEF ServerTurn
    <2>2. ASSUME NEW k \in Links, chan[k] # << >>, held'[n] = Head(chan[k])
          PROVE  held'[n].src \in Homes
      <3>1. Head(chan[k]) \in Packet /\ Carries(chan, k, Head(chan[k]))
        BY <2>2, FrameFacts, HeadCarried DEF TypeOK, Frames
      <3> QED BY <1>1, <2>2, <3>1 DEF ServerTurn
    <2> QED BY <1>3, <2>1, <2>2, HeldStep
  <1>4. \A n \in Nodes : Turn(n)'
    BY <1>1, HomeTurn, OtherTurn
  <1> QED BY <1>2, <1>3, <1>4

(* ServerTurn holds from the start on.                                     *)
LEMMA TurnAlways ==
    ASSUME Sound
    PROVE  Spec => []ServerTurn
  <1>1. Init => ServerTurn
    BY NoPacketHeld, SocketAssumption
    DEF Init, LinkInit, SocketInit, OdrInit, ServerTurn, Turn, Carries
  <1>2. TypeOK /\ TimesTrue /\ AddressesKept /\ ServerTurn /\ [Next]_vars => ServerTurn'
    BY TurnStep
  <1>3. IpFits /\ Apart
    BY DEF Sound
  <1>4. Spec => []TimesTrue
    BY <1>3, TimesAlways
  <1>5. Spec => []AddressesKept
    BY <1>3, AddressesAlways
  <1> QED BY <1>1, <1>2, <1>4, <1>5, TypeCorrect, PTL DEF Spec

-----------------------------------------------------------------------------
(* What a daemon may wait for, and what may end it: nothing is assumed of  *)
(* the requests, the clients, the networks, the server's speed or losses.  *)

(* A daemon that waits for the server with a datagram already seen has     *)
(* that one and the server's answer to come, and reads only one of them.   *)
AnswerToCome ==
    \A n \in Servers :
        /\ pc[n] = "awaitUnix" => un[n] # << >> /\ Len(un[n]) + srv[n] >= 2
        /\ pc[n] = "unix" => Len(un[n]) + srv[n] >= 1

(* AnswerToCome is inductive.                                              *)
LEMMA AnswerStep ==
    ASSUME TypeOK, TypeOK', AnswerToCome, [Next]_vars
    PROVE  AnswerToCome'
  <1> SUFFICES ASSUME NEW n \in Servers
               PROVE  /\ pc'[n] = "awaitUnix" => un'[n] # << >> /\ Len(un'[n]) + srv'[n] >= 2
                      /\ pc'[n] = "unix" => Len(un'[n]) + srv'[n] >= 1
    BY DEF AnswerToCome
  <1>1. /\ n \in Nodes /\ un[n] \in Seq(Datagram) /\ srv[n] \in Nat
        /\ un'[n] \in Seq(Datagram) /\ srv'[n] \in Nat
    BY SocketAssumption DEF TypeOK
  <1>2. /\ pc[n] = "awaitUnix" => un[n] # << >> /\ Len(un[n]) + srv[n] >= 2
        /\ pc[n] = "unix" => Len(un[n]) + srv[n] >= 1
    BY DEF AnswerToCome
  <1>3. CASE UNCHANGED local(n)
    BY <1>2, <1>3 DEF local
  <1>4. CASE ReadsFrame(n) \/ AsksServer(n)
    <2>1. /\ un'[n] = un[n]
          /\ pc'[n] \in {"unix", "awaitUnix"} => un[n] # << >>
          /\ pc'[n] = "awaitUnix" => srv'[n] = srv[n] + 1
      BY <1>4 DEF ReadsFrame, AsksServer
    <2>2. un[n] # << >> => Len(un[n]) >= 1
      BY <1>1
    <2>3. Len(un[n]) \in Nat
      BY <1>1
    <2> QED BY <1>1, <2>1, <2>2, <2>3
  <1>5. CASE EndsWait(n)
    <2>1. un[n] # << >> => Len(Tail(un[n])) = Len(un[n]) - 1 /\ Len(un[n]) \in Nat
      BY <1>1
    <2>2. pc'[n] # "awaitUnix" /\ srv'[n] = srv[n]
      BY <1>5 DEF EndsWait
    <2>3. CASE pc'[n] = "unix"
      <3>1. pc[n] = "awaitUnix"
        BY <1>5, <2>3 DEF EndsWait
      <3>2. un[n] # << >> /\ Len(un[n]) + srv[n] >= 2
        BY <1>2, <3>1
      <3>3. un'[n] = Tail(un[n])
        BY <1>5, <3>2 DEF EndsWait
      <3> QED BY <1>1, <2>1, <2>2, <3>2, <3>3
    <2> QED BY <2>2, <2>3
  <1>6. CASE ReadsRequest(n) \/ Ends(n) \/ Starts(n)
    BY <1>6 DEF ReadsRequest, Ends, Starts
  <1>7. CASE IsAnswered(n)
    <2> DEFINE m == [kind |-> "time", from |-> SrvAddr]
    <2>1. /\ srv'[n] = srv[n] - 1 /\ pc'[n] = pc[n]
          /\ pc[n] # "down" => un'[n] = Append(un[n], m)
      BY <1>7 DEF IsAnswered
    <2> HIDE DEF m
    <2>2. pc[n] # "down" => Len(un'[n]) = Len(un[n]) + 1 /\ un'[n] # << >>
      BY <1>1, <2>1
    <2>3. Len(un[n]) \in Nat
      BY <1>1
    <2> QED BY <1>1, <1>2, <2>1, <2>2, <2>3
  <1>8. CASE IsAsked(n)
    <2>1. \E m : un'[n] = Append(un[n], m)
      BY <1>8 DEF IsAsked
    <2>2. Len(un'[n]) = Len(un[n]) + 1 /\ un'[n] # << >> /\ Len(un[n]) \in Nat
      BY <1>1, <2>1
    <2>3. srv'[n] = srv[n] /\ pc'[n] = pc[n]
      BY <1>8 DEF IsAsked
    <2> QED BY <1>1, <1>2, <2>2, <2>3
  <1> QED
    BY <1>1, <1>3, <1>4, <1>5, <1>6, <1>7, <1>8, NextLocal DEF LocalStep

(* Beside a server no daemon goes to read a Unix socket that stays empty   *)
(* (odr_aa19.c:456-467, 671-679): when the wait for the server has read a  *)
(* client's request for its answer, the answer itself is still to come.    *)
THEOREM DaemonsHear == Spec => []HearsAgain
  <1>1. Init => AnswerToCome
    BY SocketAssumption DEF Init, OdrInit, AnswerToCome
  <1>2. TypeOK /\ TypeOK' /\ AnswerToCome /\ [Next]_vars => AnswerToCome'
    BY AnswerStep
  <1>3. TypeOK /\ AnswerToCome => HearsAgain
    <2> SUFFICES ASSUME TypeOK, AnswerToCome, NEW n \in Servers, pc[n] = "unix",
                        un[n] = << >>
                 PROVE  srv[n] > 0
      BY DEF HearsAgain
    <2>1. srv[n] \in Nat /\ Len(un[n]) = 0 /\ Len(un[n]) + srv[n] >= 1
      BY SocketAssumption DEF TypeOK, AnswerToCome
    <2> QED BY <2>1
  <1> QED BY <1>1, <1>2, <1>3, TypeCorrect, PTL DEF Spec

(* Some client of n has gone.                                              *)
Left(n) == \E z \in Clients : Home[z] = n /\ cpc[z] = "gone"

(* An address of n somebody is bound to as long as no client has left n.   *)
Answers(n, addr) ==
    \/ addr = SrvAddr /\ n \in Servers
    \/ addr \in ClientAddr /\ Home[addr[1]] = n /\ sock[addr[1]] # 0

(* Something that n has sent for a client is under way.                    *)
Underway(n) ==
    \/ \E j \in Links, q \in Packet : Carries(chan, j, q) /\ q.src = n
    \/ \E m \in Nodes : held[m] \in Packet /\ held[m].src = n

(* As long as nobody is killed and no client of n has left: n is up, it    *)
(* has kept the address of somebody to reply to before anything of its own *)
(* was sent, and all addresses it reads and keeps are in use.              *)
ClientsKnown ==
    crashes = 0 => \A n \in Nodes : ~ Left(n) =>
        /\ Up(n)
        /\ \A i \in 1 .. Len(un[n]) : Answers(n, un[n][i].from)
        /\ al_client_addr[n] = NoAddr \/ Answers(n, al_client_addr[n])
        /\ Underway(n) => al_client_addr[n] # NoAddr

(* Only the clients change what is known of them.                          *)
LEMMA OthersKeepClients ==
    ASSUME Environment \/ \E n \in Nodes : Daemon(n) \/ Serves(n)
    PROVE  UNCHANGED << clientVars, sock >>
  <1>1. CASE Environment
    BY <1>1 DEF Environment, Crash, Start, Unheard, Lose, Tick, sockets
  <1>2. ASSUME NEW n \in Nodes, Daemon(n)
        PROVE  UNCHANGED << clientVars, sock >>
    <2>1. ASSUME NEW k \in Links, process_pack(k)
          PROVE  sock' = sock
      BY <2>1
      DEF process_pack, DropExpired, RreqStep, RrepStep, DataStep, RreqFlagged,
          RreqAtDest, RreqDuplicate, RreqFlood, RreqShortcut, RrepAtSource,
          RrepForward, DataAtSource, DataAtDest, DataForward, HandlerFrame, sockets,
          SendToApp
    <2> QED
      BY <1>2, <2>1 DEF Daemon, OdrStep, ServerReply, ServerTimeout, HandleRequest, sockets
  <1>3. ASSUME NEW n \in Nodes, Serves(n)
        PROVE  UNCHANGED << clientVars, sock >>
    BY <1>3 DEF Serves, Serve
  <1> QED BY <1>1, <1>2, <1>3

(* A client that is gone stays gone, and keeps its sockets until then.     *)
LEMMA GoneForGood ==
    ASSUME TypeOK, [Next]_vars, NEW z \in Clients
    PROVE  /\ cpc[z] = "gone" => cpc'[z] = "gone"
           /\ sock[z] # 0 => sock'[z] # 0 \/ cpc'[z] = "gone"
  <1>1. cpc \in [Clients -> CPCs] /\ sock \in [Clients -> 0 .. MaxRequests]
        /\ MaxRequests \in Nat
    BY SocketAssumption DEF TypeOK
  <1>2. CASE UNCHANGED << clientVars, sock >>
    BY <1>2 DEF clientVars
  <1>3. ASSUME NEW y \in Clients, Asks(y) \/ Receives(y) \/ TimesOut(y) \/ Quits(y)
        PROVE  /\ cpc[z] = "gone" => cpc'[z] = "gone"
               /\ sock[z] # 0 => sock'[z] # 0 \/ cpc'[z] = "gone"
    <2>1. /\ cpc[y] # "gone"
          /\ \/ Leave(y)
             \/ sock' = sock /\ \E s \in CPCs : cpc' = [cpc EXCEPT ![y] = s]
             \/ sock' = [sock EXCEPT ![y] = @ + 1] /\ cpc' = [cpc EXCEPT ![y] = "wait1"]
      BY <1>3 DEF Asks, Receives, TimesOut, Quits, Ask, Receive, ReceiveAgain, Timeout,
         GiveUp, Quit, AskAgain, CPCs
    <2>2. CASE Leave(y)
      BY <1>1, <2>2 DEF Leave
    <2>3. ASSUME NEW s \in CPCs, sock' = sock, cpc' = [cpc EXCEPT ![y] = s]
          PROVE  /\ cpc[z] = "gone" => cpc'[z] = "gone"
                 /\ sock[z] # 0 => sock'[z] # 0
      BY <1>1, <2>1, <2>3
    <2>4. CASE sock' = [sock EXCEPT ![y] = @ + 1] /\ cpc' = [cpc EXCEPT ![y] = "wait1"]
      <3>1. sock[z] \in Nat /\ (sock'[z] = sock[z] \/ sock'[z] = sock[z] + 1)
        BY <1>1, <2>4
      <3>2. cpc[z] = "gone" => cpc'[z] = "gone"
        BY <1>1, <2>1, <2>4
      <3> QED BY <3>1, <3>2
    <2> QED BY <2>1, <2>2, <2>3, <2>4
  <1>4. CASE UNCHANGED vars
    BY <1>2, <1>4 DEF vars, sockets
  <1> QED BY <1>2, <1>3, <1>4, OthersKeepClients DEF Next

(* What n has sent for a client was under way before, or n has just read a *)
(* request.                                                                *)
LEMMA UnderwayStep ==
    ASSUME TypeOK, [Next]_vars, NEW n \in Nodes, Underway(n)'
    PROVE  Underway(n) \/ HandleRequest(n)
  <1>1. ASSUME NEW j \in Links, NEW q \in Packet, Carries(chan', j, q), q.src = n
        PROVE  Underway(n) \/ HandleRequest(n)
    <2>1. CASE Carries(chan, j, q)
      BY <1>1, <2>1 DEF Underway
    <2>2. CASE SentOver(j, q)
      <3>1. j.from \in Nodes
        BY LinkType
      <3> QED BY <1>1, <2>2, <3>1 DEF SentOver, Copy, Underway
    <2> QED BY <1>1, <2>1, <2>2, NextSent
  <1>2. ASSUME NEW m \in Nodes, held'[m] \in Packet, held'[m].src = n
        PROVE  Underway(n)
    <2>1. CASE held'[m] = held[m]
      BY <1>2, <2>1 DEF Underway
    <2>2. ASSUME NEW k \in Links, chan[k] # << >>, held'[m] = Head(chan[k])
          PROVE  Underway(n)
      <3>1. Carries(chan, k, Head(chan[k]))
        BY <2>2, HeadCarried DEF TypeOK, Frames
      <3> QED BY <1>2, <2>2, <3>1 DEF Underway
    <2> QED BY <1>2, <2>1, <2>2, HeldStep
  <1> QED BY <1>1, <1>2 DEF Underway

(* The two look-ups of an address without a name give the same index.      *)
OneIndex == \A i, j \in JunkKeys : i = j

(* As long as no client has left n, nothing makes its daemon exit.         *)
LEMMA NoExit ==
    ASSUME IpFits, OneIndex, TypeOK, ClientsKnown, [Next]_vars, crashes' = 0,
           NEW n \in Nodes, ~ Left(n)
    PROVE  crashes = 0 /\ ~ Ends(n)
  <1>1. crashes = 0
    BY CrashesCounted DEF TypeOK
  <1> SUFFICES ASSUME Ends(n) PROVE FALSE
    BY <1>1
  <1>2. PICK k \in Links : k.to = n /\ chan[k] # << >> /\ Fatal(n, Head(chan[k]))
    BY <1>1 DEF Ends
  <1> DEFINE p == Head(chan[k])
  <1>3. p \in Packet /\ Carries(chan, k, p)
    BY <1>2, FrameFacts, HeadCarried DEF TypeOK, Frames
  <1>4. ~ \E i, j \in get_index_from_ip(p.dest) : i # j
    BY DEF get_index_from_ip, OneIndex
  <1>5. p.src = n /\ ~ Reachable(n, al_client_addr[n])
    BY <1>2, <1>4 DEF Fatal, is_self
  <1>6. Underway(n)
    BY <1>3, <1>5 DEF Underway
  <1>7. Answers(n, al_client_addr[n])
    BY <1>1, <1>6 DEF ClientsKnown
  <1> QED BY <1>5, <1>7 DEF Answers, Reachable

(* ClientsKnown is inductive.                                              *)
LEMMA KnownStep ==
    ASSUME IpFits, OneIndex, TypeOK, ClientsKnown, [Next]_vars
    PROVE  ClientsKnown'
  <1> SUFFICES ASSUME crashes' = 0, NEW n \in Nodes, ~ Left(n)'
               PROVE  /\ Up(n)'
                      /\ \A i \in 1 .. Len(un'[n]) : Answers(n, un[n][i].from)'
                      /\ al_client_addr'[n] = NoAddr \/ Answers(n, al_client_addr[n])'
                      /\ Underway(n)' => al_client_addr'[n] # NoAddr
    BY DEF ClientsKnown
  <1>1. crashes = 0
    BY CrashesCounted DEF TypeOK
  <1>2. ~ Left(n)
    BY GoneForGood DEF Left
  <1> DEFINE Kept(addr) == \/ addr = SrvAddr /\ n \in Servers
                           \/ /\ addr \in ClientAddr /\ Home[addr[1]] = n
                              /\ sock'[addr[1]] # 0
  <1>3. /\ Up(n)
        /\ \A i \in 1 .. Len(un[n]) : Answers(n, un[n][i].from)
        /\ al_client_addr[n] = NoAddr \/ Answers(n, al_client_addr[n])
        /\ Underway(n) => al_client_addr[n] # NoAddr
    BY <1>1, <1>2 DEF ClientsKnown
  <1>4. ASSUME NEW addr, Answers(n, addr)
        PROVE  Kept(addr)
    <2>1. CASE addr = SrvAddr /\ n \in Servers
      BY <2>1
    <2>2. CASE addr \in ClientAddr /\ Home[addr[1]] = n /\ sock[addr[1]] # 0
      <3>1. addr[1] \in Clients
        BY <2>2 DEF ClientAddr
      <3>2. cpc'[addr[1]] # "gone"
        BY <2>2, <3>1 DEF Left
      <3> QED BY <2>2, <3>1, <3>2, GoneForGood
    <2> QED BY <1>4, <2>1, <2>2 DEF Answers
  <1>5. ~ Ends(n)
    BY <1>2, NoExit
  <1>6. LocalStep(n) /\ un[n] \in Seq(Datagram) /\ pc[n] # "down"
    BY <1>3, NextLocal DEF TypeOK, Up
  <1>7. Up(n)'
    BY <1>3, <1>5, <1>6
    DEF Up, LocalStep, local, ReadsFrame, AsksServer, EndsWait, ReadsRequest, Starts,
        IsAnswered, IsAsked
  <1>8. ASSUME NEW i \in 1 .. Len(un'[n])
        PROVE  Kept(un'[n][i].from)
    <2>1. CASE un'[n] = un[n]
      BY <1>3, <1>4, <1>8, <2>1
    <2>2. CASE un[n] # << >> /\ un'[n] = Tail(un[n])
      <3>1. i + 1 \in 1 .. Len(un[n]) /\ un'[n][i] = un[n][i + 1]
        BY <1>6, <1>8, <2>2, Queue
      <3> QED BY <1>3, <1>4, <3>1
    <2>3. ASSUME NEW m, un'[n] = Append(un[n], m), Kept(m.from)
          PROVE  Kept(un'[n][i].from)
      <3>1. un'[n][i] = m \/ (i \in 1 .. Len(un[n]) /\ un'[n][i] = un[n][i])
        BY <1>6, <1>8, <2>3, Queue
      <3> QED BY <1>3, <1>4, <2>3, <3>1
    <2>4. CASE IsAnswered(n)
      <3> DEFINE m == [kind |-> "time", from |-> SrvAddr]
      <3>1. un'[n] = Append(un[n], m) /\ n \in Servers
        BY <1>6, <2>4 DEF IsAnswered
      <3>2. Kept(m.from)
        BY <3>1
      <3> HIDE DEF m
      <3> QED BY <2>3, <3>1, <3>2
    <2>5. CASE IsAsked(n)
      <3>1. PICK z \in Clients, h \in 1 .. MaxRequests, d \in Nodes, f \in {0, 1} :
                /\ Home[z] = n /\ sock'[z] # 0
                /\ un'[n] = Append(un[n], [kind |-> "request", from |-> << z, h >>,
                                           dest |-> d, forced |-> f])
        BY <2>5 DEF IsAsked
      <3> DEFINE m == [kind |-> "request", from |-> << z, h >>, dest |-> d, forced |-> f]
      <3>2. Kept(m.from)
        BY <3>1 DEF ClientAddr
      <3>3. un'[n] = Append(un[n], m)
        BY <3>1
      <3> HIDE DEF m
      <3> QED BY <2>3, <3>2, <3>3
    <2>6. un'[n] = un[n] \/ (un[n] # << >> /\ un'[n] = Tail(un[n])) \/ IsAnswered(n) \/ IsAsked(n)
      BY <1>5, <1>6
      DEF LocalStep, local, ReadsFrame, AsksServer, EndsWait, ReadsRequest, Starts
    <2> QED BY <2>1, <2>2, <2>4, <2>5, <2>6
  <1>9. ASSUME ReadsRequest(n)
        PROVE  Answers(n, al_client_addr'[n]) /\ al_client_addr'[n] # NoAddr
    <2>1. un[n] # << >> /\ al_client_addr'[n] = Head(un[n]).from
      BY <1>9 DEF ReadsRequest
    <2>2. 1 \in 1 .. Len(un[n]) /\ un[n][1] = Head(un[n])
      BY <1>6, <2>1, Queue
    <2>3. Answers(n, al_client_addr'[n])
      BY <1>3, <2>1, <2>2
    <2> QED BY <2>3, SocketAssumption DEF Answers, ClientAddr
  <1>10. al_client_addr'[n] = al_client_addr[n] \/ ReadsRequest(n)
    BY <1>5, <1>6
    DEF LocalStep, local, ReadsFrame, AsksServer, EndsWait, Starts, IsAnswered, IsAsked
  <1>11. al_client_addr'[n] = NoAddr \/ Answers(n, al_client_addr[n])'
    <2>1. al_client_addr'[n] = NoAddr \/ Answers(n, al_client_addr'[n])
      BY <1>3, <1>9, <1>10
    <2>2. al_client_addr'[n] = NoAddr \/ Kept(al_client_addr'[n])
      BY <1>4, <2>1
    <2> QED BY <2>2 DEF Answers
  <1>12. ASSUME Underway(n)'
         PROVE  al_client_addr'[n] # NoAddr
    <2>1. CASE Underway(n)
      BY <1>3, <1>9, <1>10, <2>1
    <2>2. CASE HandleRequest(n)
      <3>1. al_client_addr'[n] = Head(un[n]).from /\ un[n] # << >>
        BY <2>2 DEF HandleRequest, KeepClient, TypeOK
      <3>2. 1 \in 1 .. Len(un[n]) /\ un[n][1] = Head(un[n])
        BY <1>6, <3>1, Queue
      <3>3. Answers(n, al_client_addr'[n])
        BY <1>3, <3>1, <3>2
      <3> QED BY <3>3, SocketAssumption DEF Answers, ClientAddr
    <2> QED BY <1>12, <2>1, <2>2, UnderwayStep
  <1>13. \A i \in 1 .. Len(un'[n]) : Answers(n, un[n][i].from)'
    BY <1>8 DEF Answers
  <1> QED BY <1>7, <1>11, <1>12, <1>13

(* As long as none is killed, a daemon exits only where a client has left  *)
(* before (odr_aa19.c:433, 661-664, 679): neither the server's answer read *)
(* as a request, nor a second try, nor another client, nor a lost, late or *)
(* doubled frame leaves it with a reply and nobody to hand it to.          *)
THEOREM ExitsHaveCauses ==
    ASSUME IpFits, OneIndex
    PROVE  Spec => ExitsExplained
  <1>1. Init => ClientsKnown
    <2> SUFFICES ASSUME Init, NEW n \in Nodes
                 PROVE  /\ Up(n) /\ al_client_addr[n] = NoAddr /\ ~ Underway(n)
                        /\ \A i \in 1 .. Len(un[n]) : Answers(n, un[n][i].from)
      BY DEF ClientsKnown
    <2>1. Up(n) /\ al_client_addr[n] = NoAddr /\ un[n] = << >>
      BY DEF Init, OdrInit, SocketInit, Up
    <2>2. ~ Underway(n)
      BY NoPacketHeld DEF Init, LinkInit, OdrInit, Underway, Carries
    <2> QED BY <2>1, <2>2
  <1>2. TypeOK /\ ClientsKnown /\ [Next]_vars => ClientsKnown'
    BY KnownStep
  <1>3. TypeOK /\ ClientsKnown /\ [Next]_vars
           => [crashes' = 0 => \A n \in Nodes :
                  pc[n] # "down" /\ pc'[n] = "down"
                    => \E c \in Clients : Home[c] = n /\ cpc[c] = "gone"]_vars
    <2> SUFFICES ASSUME TypeOK, ClientsKnown, [Next]_vars, crashes' = 0, NEW n \in Nodes,
                        pc[n] # "down", pc'[n] = "down"
                 PROVE  Left(n)
      BY DEF Left
    <2>1. LocalStep(n)
      BY NextLocal
    <2>2. Ends(n)
      BY <2>1 DEF LocalStep, local, ReadsFrame, AsksServer, EndsWait, ReadsRequest, Starts,
         IsAnswered, IsAsked
    <2> QED BY <2>2, NoExit
  <1> QED BY <1>1, <1>2, <1>3, TypeCorrect, PTL DEF Spec, ExitsExplained

=============================================================================
