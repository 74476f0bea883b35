---------------------------- MODULE OdrProperties ----------------------------
(***************************************************************************)
(* What the service is meant to keep true.  Which property holds under     *)
(* which conditions is what the runs of the MC modules show.               *)
(***************************************************************************)
EXTENDS OdrSystem, FiniteSets

Datagram ==
    [kind : {"request"}, from : ClientAddr, dest : Nodes, forced : {0, 1}]
    \cup [kind : {"time"}, from : {SrvAddr}]

Reply == [time : Payloads, ip : Addresses]

(* Every variable has its type.  A char never leaves its range, a packet   *)
(* is held exactly while the daemon waits for the time server              *)
(* (odr_aa19.c:449-471), and a client that waits has a socket to wait on.  *)
TypeOK ==
    /\ chan \in [Links -> Seq(Packet)]
    /\ un \in [Nodes -> Seq(Datagram)]
    /\ srv \in [Nodes -> Nat]
    /\ sock \in [Clients -> 0 .. MaxRequests]
    /\ cli \in [Clients -> Seq(Reply)]
    /\ rtbl \in [Nodes -> Table]
    /\ latest_rreq \in [Nodes -> [Nodes -> -CHAR_HALF .. CHAR_HALF - 1]]
    /\ running_broadcast_no \in [Nodes -> Nat \ {0}]
    /\ route_discovered \in [Nodes -> {0, 1}]
    /\ forced_discovery \in [Nodes -> 0 .. 2]
    /\ al_client_addr \in [Nodes -> Addrs]
    /\ pc \in [Nodes -> PCs]
    /\ held \in [Nodes -> Packet \cup {NoPacket}]
    /\ \A n \in Nodes : held[n] \in Packet <=> pc[n] \in {"await", "awaitUnix"}
    /\ now \in Nat
    /\ crashes \in Nat
    /\ relays \in [Nodes -> Seq(Nodes \X Int)]
    /\ cpc \in [Clients -> CPCs]
    /\ target \in [Clients -> Nodes]
    /\ outcome \in [Clients -> Outcomes]
    /\ \A c \in Clients : cpc[c] \in {"wait1", "wait2"} => sock[c] # 0

Adjacent(m, n) == \E k \in Links : k.from = m /\ k.to = n

(* The nodes at most i segments away from n.                               *)
Within(n, i) ==
    LET W[j \in 0 .. i] ==
          IF j = 0 THEN {n}
          ELSE W[j-1] \cup {m \in Nodes : \E q \in W[j-1] : Adjacent(q, m)}
    IN  W[i]

HasRoute(n, a) == rtbl[n][a] # NoRoute

-----------------------------------------------------------------------------
(* Routing tables.                                                         *)

(* The next hop of every entry has an interface on the segment the entry   *)
(* names, so send_ll_msg (odr_aa19.c:67) reaches a daemon and not nobody.  *)
NextHopAttached ==
    \A n \in Nodes, a \in Addresses : HasRoute(n, a) =>
        [lan |-> rtbl[n][a].lan, from |-> n, to |-> rtbl[n][a].via] \in Links

(* A hop count is one that a path can have: never less than the distance,  *)
(* or update_rtbl_entry (rtbl.h:87) would refuse every real route as worse.*)
HopsAttainable ==
    \A n, a \in Nodes : HasRoute(n, a) /\ n # a =>
        rtbl[n][a].hop >= 0 /\ n \in Within(a, rtbl[n][a].hop)

(* n's next hop towards a; n itself where the path ends.                   *)
NextHop(n, a) == IF n = a \/ ~ HasRoute(n, a) THEN n ELSE rtbl[n][a].via

(* Following next hops ends, at the destination or at a node without an    *)
(* entry: a DATA packet, whose hops nobody counts (odr_aa19.c:489-525),    *)
(* cannot circulate.                                                       *)
LoopFree ==
    \A n, a \in Nodes :
        LET N == Cardinality(Nodes)
            path[i \in 0 .. N] == IF i = 0 THEN n ELSE NextHop(path[i-1], a)
        IN  path[N] = NextHop(path[N], a)

(* The tables keep what RouteMemory promises, to whatever packets in       *)
(* whatever order (rtbl.h:54-289): a fresh route yields only to a shorter  *)
(* one, a stale one to any next hop but to no greater hop count, and none  *)
(* goes away while its daemon runs.                                        *)
Memory == INSTANCE RouteMemory WITH
    table <- rtbl, running <- [n \in Nodes |-> pc[n] # "down"],
    Owners <- Nodes, Keys <- Addresses

RoutesRemembered == Memory!Spec

-----------------------------------------------------------------------------
(* Route discovery.                                                        *)

(* The ids a daemon has noted for s have not outgrown a char.              *)
NoWrap(n, s) ==
    \A i \in DOMAIN relays[n] : relays[n][i][1] = s => relays[n][i][2] < CHAR_HALF

(* A daemon sends the RREQs of another node on in the order of their ids   *)
(* and each at most once ("consider fwding only if the RREQ recvd is       *)
(* unique", odr_aa19.c:293), as long as the ids fit a char.                *)
FloodOnce ==
    \A n \in Nodes : \A i, j \in DOMAIN relays[n] :
        i < j /\ relays[n][i][1] = relays[n][j][1]
          /\ relays[n][i][1] # n /\ NoWrap(n, relays[n][i][1])
        => relays[n][i][2] < relays[n][j][2]

(* A daemon never sends on a RREQ that it has made since its start: those  *)
(* with its name that it does send on have ids it has yet to reach, from a *)
(* life before (README.txt:138, odr_aa19.c:293, 747), as long as the ids   *)
(* fit a char.                                                             *)
SourceIgnoresOwn ==
    [][\A n \in Nodes : \A i \in DOMAIN relays'[n] :
          /\ i > Len(relays[n]) /\ relays'[n][i][1] = n
          /\ running_broadcast_no[n] < CHAR_HALF /\ NoWrap(n, n)'
          => relays'[n][i][2] >= running_broadcast_no[n]]_relays

(* As long as no daemon has been killed, every RREP and DATA packet finds  *)
(* an entry to go on along: none of the three ALERTs is printed            *)
(* (odr_aa19.c:376, 494, 511).                                             *)
RouteKept ==
    crashes = 0 => \A k \in Links : \A i \in 1 .. Len(chan[k]) :
        LET n == k.to
            p == chan[k][i]
        IN  /\ p.type = "RREP" /\ n # p.src => HasRoute(n, p.src)
            /\ p.type = "DATA" /\ n \notin {p.src, p.dest} =>
                  HasRoute(n, IF p.src_dest = 1 THEN p.dest ELSE p.src)

(* As long as no daemon has been killed, whatever travels back to a source *)
(* finds an entry for the source at each node it comes to: neither ALERT   *)
(* of the way back is printed (odr_aa19.c:376, 511), however old the       *)
(* entries are and whatever is lost.                                       *)
WayBackKept ==
    crashes = 0 => \A k \in Links : \A i \in 1 .. Len(chan[k]) :
        LET p == chan[k][i]
        IN  k.to # p.src /\ (p.type = "RREP" \/ (p.type = "DATA" /\ p.src_dest = -1))
            => HasRoute(k.to, p.src)

(* RREPs travel to the source: the destination never receives one          *)
(* (README.txt:160-161).                                                   *)
DestGetsNoRrep ==
    \A k \in Links : \A i \in 1 .. Len(chan[k]) :
        chan[k][i].type = "RREP" => chan[k][i].dest # k.to

-----------------------------------------------------------------------------
(* Requests and replies.                                                   *)

(* What waits in a client's socket is the time of the server the client    *)
(* named (odr_aa19.c:424-433).                                             *)
ReplyMatches ==
    \A c \in Clients : \A i \in 1 .. Len(cli[c]) :
        cli[c][i] = [time |-> target[c], ip |-> target[c]]

(* Whatever waits in a client's socket carries the address of the server   *)
(* the client asked last, and the time of no other one: no second try,     *)
(* stale route or daemon started again mixes two conversations             *)
(* (odr_aa19.c:424-433, 442-471, client_aa19.c:196-231).                   *)
AskedServersTime ==
    \A c \in Clients : \A i \in 1 .. Len(cli[c]) :
        cli[c][i].ip = target[c] /\ cli[c][i].time \in {target[c], NotTime}

(* One request of a client makes one DATA packet, however many RREPs the   *)
(* flood brings back (route_discovered, odr_aa19.c:355-366).               *)
OneDataPacket ==
    Cardinality(UNION {{k} \X {i \in DOMAIN chan[k] : chan[k][i].type = "DATA"} :
                       k \in Links})
    + Cardinality({n \in Nodes : held[n] # NoPacket})
    + Cardinality({c \in Clients : cli[c] # << >>})
      <= Cardinality({c \in Clients : cpc[c] \in {"wait1", "wait2"}})

(* Only the environment ends a daemon: no packet and no client makes it    *)
(* exit (odr_aa19.c:661-664).                                              *)
DaemonsStayUp ==
    [][\A n \in Nodes : pc[n] # "down" /\ pc'[n] = "down" => crashes' > crashes]_vars

(* As long as no daemon has been killed, a daemon exits only when a client *)
(* of its machine has left before: no late or doubled reply, no second try *)
(* and no other client's request leaves it without somebody to send a      *)
(* reply to (odr_aa19.c:433, 661-664, 679).                                *)
ExitsExplained ==
    [][crashes' = 0 => \A n \in Nodes :
          pc[n] # "down" /\ pc'[n] = "down"
            => \E c \in Clients : Home[c] = n /\ cpc[c] = "gone"]_vars

(* A daemon beside a server that finds its Unix socket empty, after the    *)
(* wait for the server has read the datagram that an earlier select found  *)
(* there, does not block for ever: the server still owes it an answer      *)
(* (odr_aa19.c:456-467, 671-679).                                          *)
HearsAgain == \A n \in Servers : pc[n] = "unix" /\ un[n] = << >> => srv[n] > 0

-----------------------------------------------------------------------------
(* The service as its clients see it.                                      *)

(* The server that c asks has looked at its clock, and the time is on its  *)
(* way: in the datagram to the daemon that holds c's packet, or in a reply *)
(* on the network.                                                         *)
TimeUnderway(c) ==
    \/ \E n \in Nodes : \E i \in DOMAIN un[n] :
          un[n][i].kind = "time" /\ held[n] # NoPacket /\ held[n].src = Home[c]
    \/ \E k \in Links : \E i \in DOMAIN chan[k] :
          chan[k][i].type = "DATA" /\ chan[k][i].src_dest = -1 /\ chan[k][i].src = Home[c]

Waits(c) == cpc[c] \in {"wait1", "wait2"}

Phase(c) ==
    CASE cpc[c] = "gone"                            -> "gone"
      [] cpc[c] # "gone" /\ ~ Waits(c)
           /\ ~ TimeUnderway(c)                     -> "idle"
      [] Waits(c) /\ cli[c] # << >>                 -> "answered"
      [] cpc[c] # "gone" /\ cli[c] = << >>
           /\ TimeUnderway(c)                       -> "served"
      [] OTHER                                      -> "asked"

Service == INSTANCE TimeService WITH
    phase  <- [c \in Clients |-> Phase(c)],
    asked  <- [c \in Clients |-> IF Waits(c) THEN target[c] ELSE NotTime],
    answer <- [c \in Clients |-> IF Waits(c) /\ cli[c] # << >> THEN Head(cli[c]).time
                                 ELSE NotTime],
    None   <- NotTime

(* A client is told the time of the server it asked, read after it asked,  *)
(* and once: daemons, routes and second tries together implement           *)
(* TimeService (odr_aa19.c:355-366, 413-433, 442-486).                     *)
ServiceKept == Service!Spec

-----------------------------------------------------------------------------
(* Progress.                                                               *)

(* A client that asks gets its reply at the first attempt, as long as no   *)
(* daemon has been killed (odr_aa19.c:355-366, 424-433).                   *)
Answered == \A c \in Clients : cpc[c] = "wait1" /\ crashes = 0 ~> outcome[c] = "first"

(* A client that asks gets a reply, at the second attempt at the latest.   *)
AnsweredInTwo ==
    \A c \in Clients : cpc[c] = "wait1" ~> outcome[c] \in {"first", "second"}

(* The network falls silent again and again: no packet goes round forever. *)
Settles == []<>(\A k \in Links : Up(k.to) => chan[k] = << >>)

=============================================================================
