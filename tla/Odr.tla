--------------------------------- MODULE Odr ---------------------------------
(***************************************************************************)
(* The daemon of odr_aa19.c, one on each node.  Its loop waits in select   *)
(* for a frame or for a datagram of its Unix socket, handles the frame,    *)
(* then the datagram.  While a DATA packet waits for the time server the   *)
(* daemon reads that same Unix socket.                                     *)
(***************************************************************************)
EXTENDS LinkLayer, RoutingTable, UnixSockets

CONSTANTS
    MAXH,       \* the hop limit
    CHAR_HALF,  \* half the number of values of a char: 128 on the real machine
    JunkHops,   \* what the hop counts of an uninitialized packet can hold
    JunkDests,  \* the addresses an uninitialized address structure can hold
    IpFits,     \* whether an address fits the buffers of is_self_dest/_src
    SlowServer, \* whether the time server may take longer than 3 seconds
    MaxTime,    \* bound: the clock stops here
    MaxCrashes, \* bound: daemons that die by the environment's doing
    NotTime     \* a payload or a reply that holds no server's time

ASSUME OdrAssumption ==
    /\ MAXH \in Nat
    /\ CHAR_HALF \in Nat \ {0}
    /\ JunkHops \subseteq Int
    /\ JunkDests \subseteq Addresses
    /\ {IpFits, SlowServer} \subseteq BOOLEAN
    /\ MaxTime \in Nat
    /\ MaxCrashes \in Nat
    /\ NotTime \notin Nodes

VARIABLES
    rtbl,              \* rtbl[n]: the routing table
    latest_rreq,       \* latest_rreq[n][s]: newest broadcast id of s, a char
    running_broadcast_no,
    route_discovered,
    forced_discovery,  \* 0, 1, or 2 for any other value
    al_client_addr,    \* where the next reply goes
    pc,                \* where in its loop the daemon is
    held,              \* the packet whose time request is at the server
    now,               \* time(NULL), the same on every machine
    crashes,           \* how many times the environment has killed a daemon
    relays             \* history: the <<source, id>> the daemon sent on

Payloads == Nodes \cup {NotTime}

NoPacket == [type |-> "none"]

(* struct odr_pack without the fields nobody reads.                        *)
Packet ==
    [type : {"RREQ", "RREP", "DATA"}, src : Nodes, dest : Addresses,
     rreq_hop : Int, bid : Int, rrep_sent : {0, 1}, rrep_hop : Int,
     src_dest : {0, 1, -1}, payload : Payloads]

(* select: in Select; unix: the datagram socket was found readable;        *)
(* await: in the 3 second Select for the server's answer, awaitUnix: the   *)
(* same with the datagram socket found readable before; down: not running. *)
PCs == {"select", "unix", "await", "awaitUnix", "down"}

session == << running_broadcast_no, route_discovered, forced_discovery, al_client_addr >>
odrVars == << rtbl, latest_rreq, session, pc, held, now, crashes, relays >>

(* An int stored in a char, as latest_rreq does with a broadcast id.       *)
WrapChar(x) == ((x + CHAR_HALF) % (2 * CHAR_HALF)) - CHAR_HALF

OdrInit ==
    /\ rtbl = [n \in Nodes |-> EmptyTable]
    /\ latest_rreq = [n \in Nodes |-> [s \in Nodes |-> 0]]
    /\ running_broadcast_no = [n \in Nodes |-> 1]
    /\ route_discovered = [n \in Nodes |-> 0]
    /\ forced_discovery = [n \in Nodes |-> 0]
    /\ al_client_addr = [n \in Nodes |-> NoAddr]
    /\ pc = [n \in Nodes |-> "select"]
    /\ held = [n \in Nodes |-> NoPacket]
    /\ now = 0
    /\ crashes = 0
    /\ relays = [n \in Nodes |-> << >>]

(* The process at n ends, and its memory and its sockets with it.          *)
Exit(n) ==
    /\ rtbl' = [rtbl EXCEPT ![n] = EmptyTable]
    /\ latest_rreq' = [latest_rreq EXCEPT ![n] = [s \in Nodes |-> 0]]
    /\ running_broadcast_no' = [running_broadcast_no EXCEPT ![n] = 1]
    /\ route_discovered' = [route_discovered EXCEPT ![n] = 0]
    /\ forced_discovery' = [forced_discovery EXCEPT ![n] = 0]
    /\ al_client_addr' = [al_client_addr EXCEPT ![n] = NoAddr]
    /\ pc' = [pc EXCEPT ![n] = "down"]
    /\ held' = [held EXCEPT ![n] = NoPacket]
    /\ relays' = [relays EXCEPT ![n] = << >>]
    /\ un' = [un EXCEPT ![n] = << >>]

-----------------------------------------------------------------------------
(* Helpers of the packet handlers.                                         *)

(* Mutant: the buffers are too short, and nobody looks at inet_ntop.       *)
is_self_ShortBuffer(n, address) == BOOLEAN

(* is_self_dest, is_self_src: inet_ntop fails for an address that does not *)
(* fit and the comparison reads an uninitialized buffer.                   *)
is_self(n, address) == IF IpFits THEN {address = n} ELSE BOOLEAN

Expired(p) == p.rreq_hop > MAXH \/ p.rrep_hop > MAXH

(* The frame that process_pack gets: the oldest of link k, of type t.      *)
Arrives(k, t) ==
    /\ pc[k.to] = "select"
    /\ chan[k] # << >>
    /\ Head(chan[k]).type = t
    /\ ~ Expired(Head(chan[k]))

(* The loop goes on to the datagram that Select found, if it found one.    *)
AfterFrame(n) ==
    pc' = [pc EXCEPT ![n] = IF un[n] # << >> THEN "unix" ELSE "select"]

(* Mutant: only the destination learns the way back from a RREQ.           *)
Updated_EndsOnly(k, dest_key) ==
    IF Head(chan[k]).type = "RREQ" /\ Head(chan[k]).dest # k.to THEN rtbl[k.to]
    ELSE update_rtbl_entry(rtbl[k.to], Head(chan[k]), dest_key, k.from, k.lan, now)

(* Mutant: the source of the packet is taken for its last hop.             *)
Updated_SourceAsHop(k, dest_key) ==
    update_rtbl_entry(rtbl[k.to], Head(chan[k]), dest_key, Head(chan[k]).src, k.lan, now)

(* The table of k.to after update_rtbl_entry on the frame of link k.       *)
Updated(k, dest_key) ==
    update_rtbl_entry(rtbl[k.to], Head(chan[k]), dest_key, k.from, k.lan, now)

SetTable(n, table) == rtbl' = [rtbl EXCEPT ![n] = table]

(* send_ll_msg along an entry, or send_payload: nothing without an entry.  *)
SendAlong(n, route, packet) ==
    IF route = NoRoute THEN Silence ELSE send_ll_msg(n, packet, route.via, route.lan)

(* What every handler but the last one of a request leaves alone.          *)
HandlerFrame == UNCHANGED << session, held, now, crashes, sockets >>

-----------------------------------------------------------------------------
(* RREQ.  The table always learns the way back to the source first.        *)

RreqFlagged(k) ==
    LET n == k.to
        p == Head(chan[k])
    IN  /\ Arrives(k, "RREQ")
        /\ p.rrep_sent = 1
        /\ SetTable(n, Updated(k, p.dest))
        /\ Consume(k, Silence)
        /\ AfterFrame(n)
        /\ HandlerFrame /\ UNCHANGED << latest_rreq, relays >>

(* At the destination every copy is answered.                              *)
RreqAtDest(k) ==
    LET n == k.to
        p == Head(chan[k])
        table == Updated(k, p.dest)
        rrep == [p EXCEPT !.type = "RREP", !.rrep_hop = 1]
    IN  /\ Arrives(k, "RREQ")
        /\ p.rrep_sent # 1
        /\ TRUE \in is_self(n, p.dest)
        /\ SetTable(n, table)
        /\ Consume(k, SendAlong(n, table[p.src], rrep))
        /\ AfterFrame(n)
        /\ HandlerFrame /\ UNCHANGED << latest_rreq, relays >>

RreqAtIntermediate(k) ==
    /\ Arrives(k, "RREQ")
    /\ Head(chan[k]).rrep_sent # 1
    /\ FALSE \in is_self(k.to, Head(chan[k]).dest)

Fresh(n, p) == latest_rreq[n][p.src] < p.bid

RreqDuplicate(k) ==
    LET n == k.to
        p == Head(chan[k])
    IN  /\ RreqAtIntermediate(k)
        /\ ~ Fresh(n, p)
        /\ SetTable(n, Updated(k, p.dest))
        /\ Consume(k, Silence)
        /\ AfterFrame(n)
        /\ HandlerFrame /\ UNCHANGED << latest_rreq, relays >>

(* Mutant: the id is not noted.                                            *)
Note_Forgotten(n, p) ==
    /\ UNCHANGED latest_rreq
    /\ relays' = [relays EXCEPT ![n] = Append(@, << p.src, p.bid >>)]

(* The id is noted in a char, and in the history that goes with it.        *)
Note(n, p) ==
    /\ latest_rreq' = [latest_rreq EXCEPT ![n][p.src] = WrapChar(p.bid)]
    /\ relays' = [relays EXCEPT ![n] = Append(@, << p.src, p.bid >>)]

(* Mutant: a relay does not count as a hop.                                *)
Onward_SameHops(p) == p

Onward(p) == [p EXCEPT !.rreq_hop = @ + 1]

(* No route to the destination, or the flag of this node's own last        *)
(* request says to look for a new one.                                     *)
RreqFlood(k) ==
    LET n == k.to
        p == Head(chan[k])
        table == Updated(k, p.dest)
    IN  /\ RreqAtIntermediate(k)
        /\ Fresh(n, p)
        /\ \E key \in get_index_from_ip(p.dest) :
              ~ entry_exists_for_src(table, key) \/ forced_discovery[n] = 1
        /\ SetTable(n, table)
        /\ Note(n, p)
        /\ Consume(k, broadcast_ll_msg(n, Onward(p), k.lan))
        /\ AfterFrame(n)
        /\ HandlerFrame

(* A route to the destination: a RREP goes out along it, and the RREQ goes *)
(* on everywhere, marked as answered.  The two look-ups of an address      *)
(* without a name can give two indices; one without an entry makes         *)
(* process_pack return -1, and the daemon exits.                           *)
RreqShortcut(k) ==
    LET n == k.to
        p == Head(chan[k])
        table == Updated(k, p.dest)
        rrep(key) == [Onward(p) EXCEPT !.type = "RREP", !.rrep_hop = table[key].hop + 1]
        rreq(key) == [Onward(rrep(key)) EXCEPT !.type = "RREQ", !.rrep_sent = 1]
    IN  /\ RreqAtIntermediate(k)
        /\ Fresh(n, p)
        /\ forced_discovery[n] # 1
        /\ \E found \in get_index_from_ip(p.dest) : entry_exists_for_src(table, found)
        /\ \E key \in get_index_from_ip(p.dest) :
              IF entry_exists_for_src(table, key)
              THEN /\ SetTable(n, table)
                   /\ Note(n, p)
                   /\ Consume(k, Then(SendAlong(n, table[key], rrep(key)),
                                      broadcast_ll_msg(n, rreq(key), NoLan)))
                   /\ AfterFrame(n)
                   /\ HandlerFrame
              ELSE /\ Exit(n)
                   /\ Consume(k, Silence)
                   /\ UNCHANGED << srv, sock, cli, now, crashes >>

-----------------------------------------------------------------------------
(* RREP.  The table always learns the way to the destination first.        *)

(* Mutant: the discovery is never marked as finished.                      *)
FinishDiscovery_Forgotten(n) == UNCHANGED route_discovered

FinishDiscovery(n) == route_discovered' = [route_discovered EXCEPT ![n] = 1]

RrepAtSource(k) ==
    LET n == k.to
        p == Head(chan[k])
        data == [p EXCEPT !.type = "DATA", !.src_dest = 1, !.payload = NotTime]
    IN  /\ Arrives(k, "RREP")
        /\ TRUE \in is_self(n, p.src)
        /\ \E learned, key \in get_index_from_ip(p.dest) :
              LET table == Updated(k, learned)
              IN  /\ SetTable(n, table)
                  /\ Consume(k, IF route_discovered[n] = 0
                                THEN SendAlong(n, table[key], data) ELSE Silence)
        /\ FinishDiscovery(n)
        /\ AfterFrame(n)
        /\ UNCHANGED << latest_rreq, running_broadcast_no, forced_discovery,
                        al_client_addr, held, now, crashes, relays, sockets >>

(* Mutant: a RREP is sent on towards the destination.                      *)
RrepRoute_ToDest(table, p) == table[p.dest]

RrepRoute(table, p) == table[p.src]

(* Elsewhere it goes on towards the source, or is dropped (ALERT 1).       *)
RrepForward(k) ==
    LET n == k.to
        p == Head(chan[k])
        onward == [p EXCEPT !.rrep_hop = @ + 1]
    IN  /\ Arrives(k, "RREP")
        /\ FALSE \in is_self(n, p.src)
        /\ \E learned \in get_index_from_ip(p.dest) :
              LET table == Updated(k, learned)
              IN  /\ SetTable(n, table)
                  /\ Consume(k, SendAlong(n, RrepRoute(table, p), onward))
        /\ AfterFrame(n)
        /\ HandlerFrame /\ UNCHANGED << latest_rreq, relays >>

-----------------------------------------------------------------------------
(* DATA.                                                                   *)

(* Mutant: the client is told its own address.                             *)
ReplyTo_SourceIp(p) == [time |-> p.payload, ip |-> p.src]

(* struct odr_reply.                                                       *)
ReplyTo(p) == [time |-> p.payload, ip |-> p.dest]

(* The reply is back: it goes to whoever sent the last datagram.  If that  *)
(* is nobody, process_pack returns -1 and the daemon exits.                *)
DataAtSource(k) ==
    LET n == k.to
        p == Head(chan[k])
    IN  /\ Arrives(k, "DATA")
        /\ TRUE \in is_self(n, p.src)
        /\ Consume(k, Silence)
        /\ IF Reachable(n, al_client_addr[n])
           THEN /\ \E learned \in get_index_from_ip(p.dest) : SetTable(n, Updated(k, learned))
                /\ SendToApp(n, al_client_addr[n], ReplyTo(p))
                /\ AfterFrame(n)
                /\ UNCHANGED << latest_rreq, session, held, relays, un >>
           ELSE Exit(n) /\ UNCHANGED << srv, sock, cli >>
        /\ UNCHANGED << now, crashes >>

(* The request is at its destination: it goes to the server, if one is     *)
(* running, and the daemon waits for an answer.                            *)
DataAtDest(k) ==
    LET n == k.to
        p == Head(chan[k])
    IN  /\ Arrives(k, "DATA")
        /\ FALSE \in is_self(n, p.src)
        /\ TRUE \in is_self(n, p.dest)
        /\ \E learned \in get_index_from_ip(p.dest) : SetTable(n, Updated(k, learned))
        /\ Consume(k, Silence)
        /\ held' = [held EXCEPT ![n] = p]
        /\ pc' = [pc EXCEPT ![n] = IF un[n] # << >> THEN "awaitUnix" ELSE "await"]
        /\ srv' = IF n \in Servers THEN [srv EXCEPT ![n] = @ + 1] ELSE srv
        /\ UNCHANGED << latest_rreq, session, now, crashes, relays, un, sock, cli >>

(* Mutant: the packet stays held.                                          *)
AfterWait_Held(n) ==
    /\ pc' = [pc EXCEPT ![n] = IF @ = "awaitUnix" THEN "unix" ELSE "select"]
    /\ UNCHANGED held

(* Mutant: the loop goes on to the Unix socket whatever was found before.  *)
AfterWait_Unchecked(n) ==
    /\ pc' = [pc EXCEPT ![n] = "unix"]
    /\ held' = [held EXCEPT ![n] = NoPacket]

(* Where the wait for the server ends.                                     *)
AfterWait(n) ==
    /\ pc' = [pc EXCEPT ![n] = IF @ = "awaitUnix" THEN "unix" ELSE "select"]
    /\ held' = [held EXCEPT ![n] = NoPacket]

(* Any datagram counts as the server's answer, a client's request too.     *)
ServerReply(n) ==
    LET m == Head(un[n])
        reply == [held[n] EXCEPT !.src_dest = -1,
                                 !.payload = IF m.kind = "time" THEN n ELSE NotTime]
    IN  /\ pc[n] \in {"await", "awaitUnix"}
        /\ un[n] # << >>
        /\ un' = [un EXCEPT ![n] = Tail(@)]
        /\ Emit(SendAlong(n, rtbl[n][held[n].src], reply))
        /\ AfterWait(n)
        /\ UNCHANGED << rtbl, latest_rreq, session, now, crashes, relays, srv, sock, cli >>

(* Nothing came within 3 seconds: the request is dropped.                  *)
ServerTimeout(n) ==
    /\ pc[n] \in {"await", "awaitUnix"}
    /\ un[n] = << >>
    /\ SlowServer \/ n \notin Servers
    /\ AfterWait(n)
    /\ UNCHANGED << rtbl, latest_rreq, session, now, crashes, relays, chan, sockets >>

(* Mutant: replies are sent on towards the destination, too.               *)
DataRoute_OneWay(table, p, key) == table[key]

DataRoute(table, p, key) == IF p.src_dest = 1 THEN table[key] ELSE table[p.src]

(* On the way, towards the destination or the source; without an entry it  *)
(* is dropped (ALERT 2 and 3).                                             *)
DataForward(k) ==
    LET n == k.to
        p == Head(chan[k])
    IN  /\ Arrives(k, "DATA")
        /\ FALSE \in is_self(n, p.src)
        /\ FALSE \in is_self(n, p.dest)
        /\ \E learned, key \in get_index_from_ip(p.dest) :
              LET table == Updated(k, learned)
              IN  /\ SetTable(n, table)
                  /\ Consume(k, SendAlong(n, DataRoute(table, p, key), p))
        /\ AfterFrame(n)
        /\ HandlerFrame /\ UNCHANGED << latest_rreq, relays >>

(* A packet that has made more hops than MAXH is dropped unread.           *)
DropExpired(k) ==
    /\ pc[k.to] = "select"
    /\ chan[k] # << >>
    /\ Expired(Head(chan[k]))
    /\ Consume(k, Silence)
    /\ AfterFrame(k.to)
    /\ HandlerFrame /\ UNCHANGED << rtbl, latest_rreq, relays >>

-----------------------------------------------------------------------------
(* A datagram on the daemon's Unix socket.                                 *)

(* What the daemon reads from it.  The server's answer, when nobody waits  *)
(* for one, is read as a request: its text is no address, so the address   *)
(* structure keeps what it held, and it is too short to hold the flag.     *)
Requests(m) ==
    IF m.kind = "request" THEN {[dest |-> m.dest, forced |-> m.forced]}
    ELSE [dest : JunkDests, forced : 0 .. 2]

(* source_packet lives on the stack of main: its hop counts are those of   *)
(* the request before, or junk.                                            *)
LeftoverHops(n) ==
    IF running_broadcast_no[n] = 1 THEN JunkHops \X JunkHops ELSE {<< 1, -1 >>}

OldRoute(n, req, key) ==
    /\ entry_exists_for_src(rtbl[n], key)
    /\ req.forced = 0
    /\ \E hops \in LeftoverHops(n) :
          Emit(SendAlong(n, rtbl[n][key],
            [type |-> "DATA", src |-> n, dest |-> req.dest,
             rreq_hop |-> hops[1], rrep_hop |-> hops[2], bid |-> 0,
             rrep_sent |-> 0, src_dest |-> 1, payload |-> NotTime]))

Discover(n, req, key) ==
    /\ ~ entry_exists_for_src(rtbl[n], key) \/ req.forced # 0
    /\ Emit(broadcast_ll_msg(n,
            [type |-> "RREQ", src |-> n, dest |-> req.dest,
             rreq_hop |-> 1, rrep_hop |-> -1, bid |-> running_broadcast_no[n],
             rrep_sent |-> 0, src_dest |-> 0, payload |-> NotTime], NoLan))

(* Mutant: the daemon does not note its own id.                            *)
NoteOwnId_Forgotten(n) == UNCHANGED latest_rreq

(* One more than the id of the RREQ.                                       *)
NoteOwnId(n) ==
    latest_rreq' = [latest_rreq EXCEPT ![n][n] = WrapChar(running_broadcast_no[n] + 1)]

(* Mutant: the daemon does not keep the address of its client.             *)
KeepClient_Forgotten(n, addr) == UNCHANGED al_client_addr

KeepClient(n, addr) == al_client_addr' = [al_client_addr EXCEPT ![n] = addr]

HandleRequest(n) ==
    LET m == Head(un[n])
    IN  /\ pc[n] \in {"select", "unix"}
        /\ un[n] # << >>
        /\ un' = [un EXCEPT ![n] = Tail(@)]
        /\ route_discovered' = [route_discovered EXCEPT ![n] = 0]
        /\ KeepClient(n, m.from)
        /\ \E req \in Requests(m) :
              /\ forced_discovery' = [forced_discovery EXCEPT ![n] = req.forced]
              /\ \E key \in get_index_from_ip(req.dest) :
                    OldRoute(n, req, key) \/ Discover(n, req, key)
        /\ running_broadcast_no' = [running_broadcast_no EXCEPT ![n] = @ + 1]
        /\ NoteOwnId(n)
        /\ pc' = [pc EXCEPT ![n] = "select"]
        /\ UNCHANGED << rtbl, held, now, crashes, relays, srv, sock, cli >>

-----------------------------------------------------------------------------
(* The environment of the daemons.                                         *)

(* A daemon is killed (kill_apps), or its machine goes down.               *)
Crash(n) ==
    /\ crashes < MaxCrashes
    /\ pc[n] # "down"
    /\ Exit(n)
    /\ crashes' = crashes + 1
    /\ UNCHANGED << now, chan, srv, sock, cli >>

(* start_app starts it again, with an empty table.                         *)
Start(n) ==
    /\ pc[n] = "down"
    /\ pc' = [pc EXCEPT ![n] = "select"]
    /\ UNCHANGED << rtbl, latest_rreq, session, held, now, crashes, relays, chan, sockets >>

(* A frame nobody reads.                                                   *)
Unheard(k) ==
    /\ pc[k.to] = "down"
    /\ Consume(k, Silence)
    /\ UNCHANGED << odrVars, sockets >>

Lose(k) ==
    /\ Consume(k, Silence)
    /\ UNCHANGED << odrVars, sockets >>

Tick ==
    /\ now < MaxTime
    /\ now' = now + 1
    /\ UNCHANGED << rtbl, latest_rreq, session, pc, held, crashes, relays, chan, sockets >>

-----------------------------------------------------------------------------
RreqStep(k) ==
    \/ RreqFlagged(k) \/ RreqAtDest(k) \/ RreqDuplicate(k)
    \/ RreqFlood(k) \/ RreqShortcut(k)

RrepStep(k) == RrepAtSource(k) \/ RrepForward(k)

DataStep(k) == DataAtSource(k) \/ DataAtDest(k) \/ DataForward(k)

process_pack(k) == DropExpired(k) \/ RreqStep(k) \/ RrepStep(k) \/ DataStep(k)

(* Everything the daemon at n does by itself.                              *)
OdrStep(n) ==
    \/ \E k \in {l \in Links : l.to = n} : process_pack(k)
    \/ ServerReply(n) \/ ServerTimeout(n) \/ HandleRequest(n)

=============================================================================
