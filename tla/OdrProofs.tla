------------------------------ MODULE OdrProofs ------------------------------
(***************************************************************************)
(* Proofs, for every network and every value of the constants.  TypeOK is  *)
(* inductive and comes first; the other theorems are proved of a step from *)
(* a state that satisfies it.  TableStep and RelayStep say all that a step *)
(* of the service can do to one routing table and to one node's record of  *)
(* broadcast ids; the rest follows from them.                              *)
(***************************************************************************)
EXTENDS OdrProperties, TLAPS

-----------------------------------------------------------------------------
(* Broadcast ids and routing table entries.                                *)

(* What is stored in a char is a char ...                                  *)
LEMMA WrapCharRange ==
    ASSUME NEW x \in Int
    PROVE  WrapChar(x) \in -CHAR_HALF .. CHAR_HALF - 1
  BY OdrAssumption DEF WrapChar

(* ... and is the number that was stored, if that number is a char.        *)
LEMMA WrapCharFits ==
    ASSUME NEW x \in -CHAR_HALF .. CHAR_HALF - 1
    PROVE  WrapChar(x) = x
  BY OdrAssumption DEF WrapChar

(* The table `new' has a route for `key' that `table' has not: from the     *)
(* packet's last hop and dated, it is the first one, a shorter one, or one  *)
(* that is no longer than the stale one it replaces.                        *)
Changed(table, new, key, via, lan, t) ==
    /\ new = [table EXCEPT ![key] = new[key]]
    /\ new[key] \in Route
    /\ new[key].via = via /\ new[key].lan = lan /\ new[key].ts = t
    /\ \/ table[key] = NoRoute
       \/ new[key].hop < table[key].hop
       \/ Stale(table[key], t) /\ new[key].hop <= table[key].hop

(* A table is left as it is or changed in that way.                        *)
LEMMA LearnEntry ==
    ASSUME NEW table \in Table, NEW key \in Addresses, NEW hop \in Int,
           NEW stale_hop \in Int, NEW via \in Nodes, NEW lan \in Lans, NEW t \in Nat
    PROVE  LET new == Learn(table, key, hop, stale_hop, via, lan, t)
           IN  new \in Table /\ (new = table \/ Changed(table, new, key, via, lan, t))
  <1> DEFINE new == Learn(table, key, hop, stale_hop, via, lan, t)
  <1>1. CASE table[key] = NoRoute
    <2> DEFINE entry == [via |-> via, lan |-> lan, hop |-> hop, ts |-> t]
    <2>1. entry \in Route
      BY DEF Route
    <2>2. new = [table EXCEPT ![key] = entry]
      BY <1>1 DEF Learn, entry_exists_for_src
    <2>3. new \in Table /\ new[key] = entry
      BY <2>1, <2>2 DEF Table
    <2>4. entry.via = via /\ entry.lan = lan /\ entry.ts = t
      OBVIOUS
    <2> HIDE DEF new, entry
    <2> QED BY <1>1, <2>1, <2>2, <2>3, <2>4 DEF Changed, new
  <1>2. CASE table[key] # NoRoute
    <2> DEFINE entry == CompareAndUpdate(table[key], hop, stale_hop, via, lan, t)
    <2>1. table[key] \in Route
      BY <1>2 DEF Table
    <2>2. \/ entry = table[key]
          \/ /\ entry \in Route
             /\ entry.via = via /\ entry.lan = lan /\ entry.ts = t
             /\ \/ entry.hop < table[key].hop
                \/ Stale(table[key], t) /\ entry.hop <= table[key].hop
      BY <2>1, RouteAssumption DEF CompareAndUpdate, Route, Stale
    <2>3. new = [table EXCEPT ![key] = entry]
      BY <1>2 DEF Learn, entry_exists_for_src, Table
    <2> HIDE DEF new, entry
    <2>4. new[key] = entry /\ new \in Table
      BY <2>1, <2>2, <2>3 DEF Table
    <2>5. CASE entry = table[key]
      <3>1. new = table
        BY <2>3, <2>5 DEF Table
      <3> QED BY <2>4, <3>1 DEF new
    <2>6. CASE entry # table[key]
      BY <2>2, <2>3, <2>4, <2>6 DEF Changed, new
    <2> QED BY <2>5, <2>6
  <1> QED BY <1>1, <1>2

(* The same of update_rtbl_entry, for each kind of packet.                 *)
LEMMA UpdateEntry ==
    ASSUME NEW table \in Table, NEW p \in Packet, NEW dest_key \in Addresses,
           NEW via \in Nodes, NEW lan \in Lans, NEW t \in Nat
    PROVE  LET new == update_rtbl_entry(table, p, dest_key, via, lan, t)
           IN  /\ new \in Table
               /\ \/ new = table
                  \/ \E key \in Addresses : Changed(table, new, key, via, lan, t)
  <1> DEFINE new == update_rtbl_entry(table, p, dest_key, via, lan, t)
  <1>1. p.src \in Addresses /\ p.rreq_hop \in Int /\ p.rrep_hop \in Int
    BY DEF Packet, Addresses
  <1>2. \/ new = table
        \/ \E key \in Addresses, hop, stale_hop \in Int :
              new = Learn(table, key, hop, stale_hop, via, lan, t)
    <2>1. p.type \in {"RREQ", "RREP", "DATA"}
      BY DEF Packet
    <2>2. CASE p.type = "RREQ"
      BY <1>1, <2>2 DEF update_rtbl_entry
    <2>3. CASE p.type = "RREP"
      BY <1>1, <2>3 DEF update_rtbl_entry
    <2>4. CASE p.type = "DATA"
      BY <1>1, <2>4 DEF update_rtbl_entry
    <2> QED BY <2>1, <2>2, <2>3, <2>4
  <1> HIDE DEF new
  <1>3. CASE \E key \in Addresses, hop, stale_hop \in Int :
               new = Learn(table, key, hop, stale_hop, via, lan, t)
    BY <1>3, LearnEntry DEF new
  <1> QED BY <1>2, <1>3 DEF new

-----------------------------------------------------------------------------
(* Frames.                                                                 *)

Frames == [Links -> Seq(Packet)]

(* What the senders put on the links are packets.                          *)
LEMMA SendersType ==
    ASSUME NEW n, NEW p \in Packet, NEW i
    PROVE  /\ Silence \in Frames
           /\ broadcast_ll_msg(n, p, i) \in Frames
           /\ \A to : send_ll_msg(n, p, to, i) \in Frames
           /\ \A route : SendAlong(n, route, p) \in Frames
  <1>1. \A lan : Copies(n, lan, p) \in Seq(Packet)
    BY DEF Copies
  <1> QED
    BY <1>1 DEF Silence, broadcast_ll_msg, send_ll_msg, SendAlong, Frames

(* Two calls in a row put packets on the links, too.                        *)
LEMMA ThenType ==
    ASSUME NEW out1 \in Frames, NEW out2 \in Frames
    PROVE  Then(out1, out2) \in Frames
  BY DEF Then, Frames

(* A send keeps the channels typed.                                         *)
LEMMA EmitType ==
    ASSUME chan \in Frames, NEW out \in Frames, Emit(out)
    PROVE  chan' \in Frames
  BY DEF Emit, Frames

(* So does a receive, and what is received is a packet.                     *)
LEMMA ConsumeType ==
    ASSUME chan \in Frames, NEW k \in Links, NEW out \in Frames, Consume(k, out)
    PROVE  chan' \in Frames /\ Head(chan[k]) \in Packet
  BY DEF Consume, Frames

(* A link joins two nodes, and the way back is a link, too.                *)
LEMMA LinkType ==
    ASSUME NEW k \in Links
    PROVE  /\ k.to \in Nodes /\ k.from \in Nodes /\ k.lan \in Lans
           /\ [lan |-> k.lan, from |-> k.to, to |-> k.from] \in Links
  BY DEF Links

(* What a daemon knows of the frame it reads.                              *)
LEMMA FrameFacts ==
    ASSUME TypeOK, NEW k \in Links, chan[k] # << >>
    PROVE  /\ k.to \in Nodes /\ k.from \in Nodes /\ k.lan \in Lans
           /\ Head(chan[k]) \in Packet
           /\ \A key \in Addresses : Updated(k, key) \in Table
           /\ get_index_from_ip(Head(chan[k]).dest) \subseteq Addresses
           /\ Head(chan[k]).dest \in Addresses
  <1>1. k.to \in Nodes /\ k.from \in Nodes /\ k.lan \in Lans
    BY LinkType
  <1>2. Head(chan[k]) \in Packet
    BY DEF TypeOK
  <1>3. rtbl[k.to] \in Table /\ now \in Nat
    BY <1>1 DEF TypeOK
  <1>4. \A key \in Addresses : Updated(k, key) \in Table
    BY <1>1, <1>2, <1>3, UpdateEntry DEF Updated
  <1>5. Head(chan[k]).dest \in Addresses
    BY <1>2 DEF Packet
  <1>6. get_index_from_ip(Head(chan[k]).dest) \subseteq Addresses
    BY RouteAssumption DEF get_index_from_ip, Addresses
  <1> QED BY <1>1, <1>2, <1>4, <1>5, <1>6

-----------------------------------------------------------------------------
(* Types.                                                                  *)

Latest == [Nodes -> [Nodes -> -CHAR_HALF .. CHAR_HALF - 1]]
Relays == [Nodes -> Seq(Nodes \X Int)]

(* The packets the handlers make of the one they got.                      *)
LEMMA OneField ==
    ASSUME NEW p \in Packet
    PROVE  /\ \A t \in {"RREQ", "RREP", "DATA"} : [p EXCEPT !.type = t] \in Packet
           /\ \A h \in Int : [p EXCEPT !.rrep_hop = h] \in Packet
           /\ [p EXCEPT !.rrep_sent = 1] \in Packet
           /\ \A d \in {1, -1} : [p EXCEPT !.src_dest = d] \in Packet
           /\ \A t \in Payloads : [p EXCEPT !.payload = t] \in Packet
  BY DEF Packet

(* ... with two or three fields set at once.                                *)
LEMMA Rewritten ==
    ASSUME NEW p \in Packet
    PROVE  /\ \A h \in Int : [p EXCEPT !.type = "RREP", !.rrep_hop = h] \in Packet
           /\ [p EXCEPT !.type = "RREQ", !.rrep_sent = 1] \in Packet
           /\ \A t \in Payloads : [p EXCEPT !.src_dest = -1, !.payload = t] \in Packet
           /\ [p EXCEPT !.type = "DATA", !.src_dest = 1, !.payload = NotTime] \in Packet
  <1>1. \A h \in Int : [p EXCEPT !.type = "RREP", !.rrep_hop = h] \in Packet
    BY OneField, Zenon
  <1>2. [p EXCEPT !.type = "RREQ", !.rrep_sent = 1] \in Packet
    BY OneField, Zenon
  <1>3. \A t \in Payloads : [p EXCEPT !.src_dest = -1, !.payload = t] \in Packet
    BY OneField, Zenon
  <1>4. NotTime \in Payloads
    BY DEF Payloads
  <1>5. [p EXCEPT !.type = "DATA", !.src_dest = 1, !.payload = NotTime] \in Packet
    BY <1>4, OneField, Zenon
  <1> QED BY <1>1, <1>2, <1>3, <1>5

(* A packet sent on is a packet.                                            *)
LEMMA OnwardType ==
    ASSUME NEW p \in Packet
    PROVE  Onward(p) \in Packet
  BY DEF Onward, Packet

(* NoPacket is no packet, so held tells whether a daemon waits.             *)
LEMMA NoPacketHeld == NoPacket \notin Packet
  BY DEF NoPacket, Packet

(* A handler that ends with AfterFrame and leaves the session alone.       *)
LEMMA HandlerType ==
    ASSUME TypeOK, NEW n \in Nodes, pc[n] = "select",
           chan' \in Frames, rtbl' \in [Nodes -> Table], AfterFrame(n),
           latest_rreq' \in Latest, relays' \in Relays,
           HandlerFrame, UNCHANGED clientVars
    PROVE  TypeOK'
  BY DEF TypeOK, Frames, AfterFrame, Latest, Relays, HandlerFrame, clientVars,
         session, sockets, PCs

(* A daemon that exits leaves every variable typed.                         *)
LEMMA ExitType ==
    ASSUME TypeOK, NEW n \in Nodes, Exit(n), chan' \in Frames, crashes' \in Nat,
           UNCHANGED << srv, sock, cli, now >>, UNCHANGED clientVars
    PROVE  TypeOK'
  <1>1. EmptyTable \in Table
    BY DEF EmptyTable, Table
  <1>2. [s \in Nodes |-> 0] \in [Nodes -> -CHAR_HALF .. CHAR_HALF - 1]
    BY OdrAssumption
  <1>3. NoAddr \in Addrs
    BY DEF Addrs
  <1> QED
    BY <1>1, <1>2, <1>3, NoPacketHeld
    DEF TypeOK, Exit, Frames, clientVars, PCs

(* The RREQ handlers keep TypeOK, junk indices included.                    *)
LEMMA RreqType ==
    ASSUME TypeOK, NEW k \in Links, RreqStep(k), UNCHANGED clientVars
    PROVE  TypeOK'
  <1> DEFINE n == k.to
             p == Head(chan[k])
             table == Updated(k, p.dest)
  <1>1. /\ Arrives(k, "RREQ")
    BY DEF RreqStep, RreqFlagged, RreqAtDest, RreqDuplicate, RreqFlood,
           RreqShortcut, RreqAtIntermediate
  <1>2. /\ n \in Nodes /\ p \in Packet /\ table \in Table /\ pc[n] = "select"
        /\ get_index_from_ip(p.dest) \subseteq Addresses
    BY <1>1, FrameFacts DEF Arrives
  <1>3. chan \in Frames /\ latest_rreq \in Latest /\ relays \in Relays
    BY DEF TypeOK, Frames, Latest, Relays
  <1>4. SetTable(n, table) => rtbl' \in [Nodes -> Table]
    BY <1>2 DEF SetTable, TypeOK
  <1>5. Note(n, p) => latest_rreq' \in Latest /\ relays' \in Relays
    <2>1. p.src \in Nodes /\ p.bid \in Int
      BY <1>2 DEF Packet
    <2>2. WrapChar(p.bid) \in -CHAR_HALF .. CHAR_HALF - 1
      BY <2>1, WrapCharRange
    <2>3. [latest_rreq EXCEPT ![n][p.src] = WrapChar(p.bid)] \in Latest
      BY <1>2, <1>3, <2>1, <2>2 DEF Latest
    <2>4. [relays EXCEPT ![n] = Append(@, << p.src, p.bid >>)] \in Relays
      BY <1>2, <1>3, <2>1 DEF Relays
    <2> QED BY <2>3, <2>4 DEF Note
  <1>6. Onward(p) \in Packet
    BY <1>2, OnwardType
  <1>7. CASE RreqFlagged(k) \/ RreqDuplicate(k)
    <2>1. chan' \in Frames
      BY <1>3, <1>7, SendersType, ConsumeType, <1>2 DEF RreqFlagged, RreqDuplicate
    <2> QED
      BY <1>2, <1>3, <1>4, <1>7, <2>1, HandlerType DEF RreqFlagged, RreqDuplicate
  <1>8. CASE RreqAtDest(k)
    <2> DEFINE rrep == [p EXCEPT !.type = "RREP", !.rrep_hop = 1]
    <2>1. rrep \in Packet
      <3>1. 1 \in Int
        OBVIOUS
      <3> QED BY <1>2, <3>1, Rewritten, Zenon
    <2>2. SendAlong(n, table[p.src], rrep) \in Frames
      BY <2>1, SendersType
    <2>3. chan' \in Frames
      BY <1>3, <1>8, <2>2, ConsumeType DEF RreqAtDest
    <2> QED BY <1>2, <1>3, <1>4, <1>8, <2>3, HandlerType DEF RreqAtDest
  <1>9. CASE RreqFlood(k)
    <2>1. broadcast_ll_msg(n, Onward(p), k.lan) \in Frames
      BY <1>6, SendersType
    <2>2. chan' \in Frames
      BY <1>3, <1>9, <2>1, ConsumeType DEF RreqFlood
    <2> QED BY <1>2, <1>4, <1>5, <1>9, <2>2, HandlerType DEF RreqFlood
  <1>10. CASE RreqShortcut(k)
    <2> DEFINE rrep(key) == [Onward(p) EXCEPT !.type = "RREP",
                                              !.rrep_hop = table[key].hop + 1]
               rreq(key) == [Onward(rrep(key)) EXCEPT !.type = "RREQ", !.rrep_sent = 1]
               out(key) == Then(SendAlong(n, table[key], rrep(key)),
                                broadcast_ll_msg(n, rreq(key), NoLan))
    <2>1. PICK key \in get_index_from_ip(p.dest) :
              IF entry_exists_for_src(table, key)
              THEN /\ SetTable(n, table)
                   /\ Note(n, p)
                   /\ Consume(k, out(key))
                   /\ AfterFrame(n)
                   /\ HandlerFrame
              ELSE /\ Exit(n)
                   /\ Consume(k, Silence)
                   /\ UNCHANGED << srv, sock, cli, now, crashes >>
      BY <1>10 DEF RreqShortcut
    <2>2. CASE entry_exists_for_src(table, key)
      <3>1. table[key] \in Route
        BY <1>2, <2>2 DEF entry_exists_for_src, Table
      <3>2. rrep(key) \in Packet
        <4>1. table[key].hop + 1 \in Int
          BY <3>1 DEF Route
        <4> QED BY <1>6, <4>1, Rewritten
      <3>3. rreq(key) \in Packet
        <4>1. Onward(rrep(key)) \in Packet
          <5> HIDE DEF rrep
          <5> QED BY <3>2, OnwardType
        <4> QED BY <4>1, Rewritten
      <3>4. out(key) \in Frames
        <4> HIDE DEF rrep, rreq
        <4> QED BY <3>2, <3>3, SendersType, ThenType
      <3>5. chan' \in Frames
        <4> HIDE DEF out
        <4> QED BY <1>3, <2>1, <2>2, <3>4, ConsumeType
      <3> QED BY <1>2, <1>4, <1>5, <2>1, <2>2, <3>5, HandlerType
    <2>3. CASE ~ entry_exists_for_src(table, key)
      <3>1. Silence \in Frames
        BY <1>2, SendersType
      <3>2. chan' \in Frames
        BY <1>3, <2>1, <2>3, <3>1, ConsumeType
      <3>3. crashes' \in Nat
        BY <2>1, <2>3 DEF TypeOK
      <3> QED BY <1>2, <2>1, <2>3, <3>2, <3>3, ExitType
    <2> QED BY <2>2, <2>3
  <1> QED BY <1>7, <1>8, <1>9, <1>10 DEF RreqStep

(* The RREP handlers keep TypeOK.                                           *)
LEMMA RrepType ==
    ASSUME TypeOK, NEW k \in Links, RrepStep(k), UNCHANGED clientVars
    PROVE  TypeOK'
  <1> DEFINE n == k.to
             p == Head(chan[k])
             keys == get_index_from_ip(p.dest)
  <1>1. Arrives(k, "RREP")
    BY DEF RrepStep, RrepAtSource, RrepForward
  <1>2. /\ n \in Nodes /\ p \in Packet /\ pc[n] = "select"
        /\ \A key \in keys : Updated(k, key) \in Table
    BY <1>1, FrameFacts DEF Arrives
  <1>3. chan \in Frames /\ latest_rreq \in Latest /\ relays \in Relays
    BY DEF TypeOK, Frames, Latest, Relays
  <1>4. \A key \in keys : SetTable(n, Updated(k, key)) => rtbl' \in [Nodes -> Table]
    BY <1>2 DEF SetTable, TypeOK
  <1>5. CASE RrepAtSource(k)
    <2> DEFINE data == [p EXCEPT !.type = "DATA", !.src_dest = 1, !.payload = NotTime]
               out(table, key) == IF route_discovered[n] = 0
                                  THEN SendAlong(n, table[key], data) ELSE Silence
    <2>1. PICK learned \in keys, key \in keys :
              /\ SetTable(n, Updated(k, learned))
              /\ Consume(k, out(Updated(k, learned), key))
      BY <1>5 DEF RrepAtSource
    <2>2. data \in Packet
      BY <1>2, Rewritten
    <2>3. out(Updated(k, learned), key) \in Frames
      BY <2>2, SendersType
    <2>4. chan' \in Frames
      <3> HIDE DEF out
      <3> QED BY <1>3, <2>1, <2>3, ConsumeType
    <2>5. rtbl' \in [Nodes -> Table]
      BY <1>4, <2>1
    <2> QED
      BY <1>2, <1>5, <2>4, <2>5
      DEF RrepAtSource, TypeOK, Frames, FinishDiscovery, AfterFrame, sockets,
          clientVars, PCs
  <1>6. CASE RrepForward(k)
    <2> DEFINE onward == [p EXCEPT !.rrep_hop = @ + 1]
    <2>1. PICK learned \in keys :
              LET table == Updated(k, learned)
              IN  /\ SetTable(n, table)
                  /\ Consume(k, SendAlong(n, RrepRoute(table, p), onward))
      BY <1>6 DEF RrepForward
    <2>2. onward \in Packet
      BY <1>2 DEF Packet
    <2>3. chan' \in Frames
      <3> HIDE DEF onward
      <3>1. SendAlong(n, RrepRoute(Updated(k, learned), p), onward) \in Frames
        BY <2>2, SendersType
      <3> QED BY <1>3, <2>1, <3>1, ConsumeType
    <2> QED BY <1>2, <1>3, <1>4, <1>6, <2>1, <2>3, HandlerType DEF RrepForward
  <1> QED BY <1>5, <1>6 DEF RrepStep

(* A receive that sends nothing keeps the channels typed.                   *)
LEMMA SilenceType ==
    ASSUME TypeOK, NEW k \in Links, Consume(k, Silence)
    PROVE  chan' \in Frames
  <1>1. Silence \in Frames
    BY DEF Silence, Frames
  <1>2. chan \in Frames
    BY DEF TypeOK, Frames
  <1> QED BY <1>1, <1>2, ConsumeType

(* A reply sent to a local socket keeps the sockets typed.                  *)
LEMMA SendToAppType ==
    ASSUME TypeOK, NEW n \in Nodes, NEW addr, NEW reply \in Reply,
           SendToApp(n, addr, reply)
    PROVE  /\ srv' \in [Nodes -> Nat] /\ sock' = sock
           /\ cli' \in [Clients -> Seq(Reply)]
  <1>1. srv' \in [Nodes -> Nat]
    <2>1. srv \in [Nodes -> Nat]
      BY DEF TypeOK
    <2>2. [srv EXCEPT ![n] = @ + 1] \in [Nodes -> Nat]
      BY <2>1
    <2> QED BY <2>1, <2>2 DEF SendToApp
  <1>2. cli' \in [Clients -> Seq(Reply)]
    <2>1. cli \in [Clients -> Seq(Reply)]
      BY DEF TypeOK
    <2>2. addr \in ClientAddr => addr[1] \in Clients
      BY DEF ClientAddr
    <2>3. \A z \in Clients : [cli EXCEPT ![z] = Append(@, reply)] \in [Clients -> Seq(Reply)]
      BY <2>1
    <2> QED BY <2>1, <2>2, <2>3 DEF SendToApp
  <1> QED BY <1>1, <1>2 DEF SendToApp

(* The DATA handlers keep TypeOK; one of them starts the wait.              *)
LEMMA DataType ==
    ASSUME TypeOK, NEW k \in Links, DataStep(k), UNCHANGED clientVars
    PROVE  TypeOK'
  <1> DEFINE n == k.to
             p == Head(chan[k])
             keys == get_index_from_ip(p.dest)
  <1>1. Arrives(k, "DATA")
    BY DEF DataStep, DataAtSource, DataAtDest, DataForward
  <1>2. /\ n \in Nodes /\ p \in Packet /\ pc[n] = "select"
        /\ \A key \in keys : Updated(k, key) \in Table
    BY <1>1, FrameFacts DEF Arrives
  <1>3. chan \in Frames /\ latest_rreq \in Latest /\ relays \in Relays
    BY DEF TypeOK, Frames, Latest, Relays
  <1>4. \A key \in keys : SetTable(n, Updated(k, key)) => rtbl' \in [Nodes -> Table]
    BY <1>2 DEF SetTable, TypeOK
  <1>5. CASE DataAtSource(k)
    <2>1. chan' \in Frames
      BY <1>5, SilenceType DEF DataAtSource
    <2>2. CASE Reachable(n, al_client_addr[n])
      <3>1. rtbl' \in [Nodes -> Table]
        BY <1>4, <1>5, <2>2 DEF DataAtSource
      <3>2. ReplyTo(p) \in Reply
        BY <1>2 DEF ReplyTo, Reply, Packet
      <3>3. /\ srv' \in [Nodes -> Nat] /\ sock' = sock
            /\ cli' \in [Clients -> Seq(Reply)]
        <4>1. SendToApp(n, al_client_addr[n], ReplyTo(p))
          BY <1>5, <2>2 DEF DataAtSource
        <4> QED BY <1>2, <3>2, <4>1, SendToAppType
      <3>4. UNCHANGED << latest_rreq, session, held, relays, un, now, crashes >>
        BY <1>5, <2>2 DEF DataAtSource
      <3>5. pc' \in [Nodes -> PCs] /\ \A m \in Nodes :
               pc'[m] \in {"await", "awaitUnix"} <=> pc[m] \in {"await", "awaitUnix"}
        BY <1>2, <1>5, <2>2 DEF DataAtSource, AfterFrame, TypeOK, PCs
      <3> QED
        BY <2>1, <3>1, <3>3, <3>4, <3>5 DEF TypeOK, Frames, session, clientVars
    <2>3. CASE ~ Reachable(n, al_client_addr[n])
      <3>1. Exit(n) /\ UNCHANGED << srv, sock, cli, now >> /\ crashes' \in Nat
        BY <1>5, <2>3 DEF DataAtSource, TypeOK
      <3> QED BY <1>2, <2>1, <3>1, ExitType
    <2> QED BY <2>2, <2>3
  <1>6. CASE DataAtDest(k)
    <2>1. chan' \in Frames
      BY <1>6, SilenceType DEF DataAtDest
    <2>2. rtbl' \in [Nodes -> Table]
      BY <1>4, <1>6 DEF DataAtDest
    <2>3. srv' \in [Nodes -> Nat]
      <3>1. srv' = IF n \in Servers THEN [srv EXCEPT ![n] = @ + 1] ELSE srv
        BY <1>6 DEF DataAtDest
      <3>2. srv \in [Nodes -> Nat]
        BY DEF TypeOK
      <3>3. [srv EXCEPT ![n] = @ + 1] \in [Nodes -> Nat]
        <4>1. n \in Nodes
          BY <1>2
        <4> HIDE DEF n
        <4> QED BY <3>2, <4>1
      <3> HIDE DEF n
      <3> QED BY <3>1, <3>2, <3>3
    <2> QED
      BY <1>2, <1>6, <2>1, <2>2, <2>3 DEF DataAtDest, TypeOK, Frames, session,
         clientVars, PCs
  <1>7. CASE DataForward(k)
    <2>1. PICK learned \in keys, key \in keys :
              LET table == Updated(k, learned)
              IN  /\ SetTable(n, table)
                  /\ Consume(k, SendAlong(n, DataRoute(table, p, key), p))
      BY <1>7 DEF DataForward
    <2>2. SendAlong(n, DataRoute(Updated(k, learned), p, key), p) \in Frames
      BY <1>2, SendersType
    <2>3. chan' \in Frames
      BY <1>3, <2>1, <2>2, ConsumeType
    <2> QED BY <1>2, <1>3, <1>4, <1>7, <2>1, <2>3, HandlerType DEF DataForward
  <1> QED BY <1>5, <1>6, <1>7 DEF DataStep

(* Both ends of the wait for the server keep TypeOK.                        *)
LEMMA WaitType ==
    ASSUME TypeOK, NEW n \in Nodes, ServerReply(n) \/ ServerTimeout(n),
           UNCHANGED clientVars
    PROVE  TypeOK'
  <1>1. CASE ServerReply(n)
    <2> DEFINE reply == [held[n] EXCEPT !.src_dest = -1,
                           !.payload = IF Head(un[n]).kind = "time" THEN n ELSE NotTime]
    <2>1. held[n] \in Packet
      BY <1>1 DEF ServerReply, TypeOK
    <2>2. (IF Head(un[n]).kind = "time" THEN n ELSE NotTime) \in Payloads
      BY DEF Payloads
    <2>3. reply \in Packet
      BY <2>1, <2>2, Rewritten, Zenon
    <2>4. Emit(SendAlong(n, rtbl[n][held[n].src], reply))
      BY <1>1 DEF ServerReply
    <2>5. chan' \in Frames
      <3> HIDE DEF reply
      <3>1. SendAlong(n, rtbl[n][held[n].src], reply) \in Frames
        BY <2>3, SendersType
      <3>2. chan \in Frames
        BY DEF TypeOK, Frames
      <3> QED BY <2>4, <3>1, <3>2, EmitType
    <2>6. un' \in [Nodes -> Seq(Datagram)]
      <3>1. un' = [un EXCEPT ![n] = Tail(@)] /\ un[n] # << >>
        BY <1>1 DEF ServerReply
      <3>2. un \in [Nodes -> Seq(Datagram)]
        BY DEF TypeOK
      <3> QED BY <3>1, <3>2
    <2>7. AfterWait(n) /\ UNCHANGED << rtbl, latest_rreq, session, now, crashes, relays,
                                       srv, sock, cli >>
      BY <1>1 DEF ServerReply
    <2> QED
      BY <2>5, <2>6, <2>7, NoPacketHeld
      DEF TypeOK, Frames, AfterWait, session, clientVars, PCs
  <1>2. CASE ServerTimeout(n)
    BY <1>2, NoPacketHeld
    DEF ServerTimeout, TypeOK, AfterWait, session, sockets, clientVars, PCs
  <1> QED BY <1>1, <1>2

(* The handler of client requests keeps TypeOK, stack junk included.        *)
LEMMA RequestType ==
    ASSUME TypeOK, NEW n \in Nodes, HandleRequest(n), UNCHANGED clientVars
    PROVE  TypeOK'
  <1> DEFINE m == Head(un[n])
  <1>1. m \in Datagram /\ un' \in [Nodes -> Seq(Datagram)]
    <2>1. un' = [un EXCEPT ![n] = Tail(@)] /\ un[n] # << >>
      BY DEF HandleRequest
    <2>2. un \in [Nodes -> Seq(Datagram)]
      BY DEF TypeOK
    <2> QED BY <2>1, <2>2
  <1>2. m.from \in Addrs
    BY <1>1 DEF Datagram, Addrs
  <1>3. \A req \in Requests(m) : req.dest \in Addresses /\ req.forced \in 0 .. 2
    <2>1. CASE m.kind = "request"
      <3>1. m.dest \in Nodes /\ m.forced \in {0, 1}
        BY <1>1, <2>1 DEF Datagram
      <3> QED BY <2>1, <3>1 DEF Requests, Addresses
    <2>2. CASE m.kind # "request"
      BY <2>2, OdrAssumption DEF Requests
    <2> QED BY <2>1, <2>2
  <1>4. PICK req \in Requests(m) :
            /\ forced_discovery' = [forced_discovery EXCEPT ![n] = req.forced]
            /\ \E key \in get_index_from_ip(req.dest) :
                  OldRoute(n, req, key) \/ Discover(n, req, key)
    BY DEF HandleRequest
  <1>5. running_broadcast_no[n] \in Nat \ {0}
    BY DEF TypeOK
  <1>6. chan' \in Frames
    <2>1. PICK key \in get_index_from_ip(req.dest) :
              OldRoute(n, req, key) \/ Discover(n, req, key)
      BY <1>4
    <2>2. NotTime \in Payloads /\ chan \in Frames
      BY DEF Payloads, TypeOK, Frames
    <2>3. CASE OldRoute(n, req, key)
      <3> DEFINE data(hops) ==
                   [type |-> "DATA", src |-> n, dest |-> req.dest,
                    rreq_hop |-> hops[1], rrep_hop |-> hops[2], bid |-> 0,
                    rrep_sent |-> 0, src_dest |-> 1, payload |-> NotTime]
      <3>1. PICK hops \in LeftoverHops(n) : Emit(SendAlong(n, rtbl[n][key], data(hops)))
        BY <2>3 DEF OldRoute
      <3>2. hops[1] \in Int /\ hops[2] \in Int
        <4>1. CASE running_broadcast_no[n] = 1
          BY <4>1, OdrAssumption DEF LeftoverHops
        <4>2. CASE running_broadcast_no[n] # 1
          <5>1. hops = << 1, -1 >>
            BY <4>2 DEF LeftoverHops
          <5> QED BY <5>1
        <4> QED BY <4>1, <4>2
      <3>3. data(hops) \in Packet
        BY <1>3, <2>2, <3>2 DEF Packet
      <3> HIDE DEF data
      <3>4. SendAlong(n, rtbl[n][key], data(hops)) \in Frames
        BY <3>3, SendersType
      <3> QED BY <2>2, <3>1, <3>4, EmitType
    <2>4. CASE Discover(n, req, key)
      <3> DEFINE rreq ==
                   [type |-> "RREQ", src |-> n, dest |-> req.dest,
                    rreq_hop |-> 1, rrep_hop |-> -1, bid |-> running_broadcast_no[n],
                    rrep_sent |-> 0, src_dest |-> 0, payload |-> NotTime]
      <3>1. Emit(broadcast_ll_msg(n, rreq, NoLan))
        BY <2>4 DEF Discover
      <3>2. rreq \in Packet
        BY <1>3, <1>5, <2>2 DEF Packet
      <3> HIDE DEF rreq
      <3>3. broadcast_ll_msg(n, rreq, NoLan) \in Frames
        BY <3>2, SendersType
      <3> QED BY <2>2, <3>1, <3>3, EmitType
    <2> QED BY <2>1, <2>3, <2>4
  <1>7. latest_rreq' \in Latest
    <2>1. WrapChar(running_broadcast_no[n] + 1) \in -CHAR_HALF .. CHAR_HALF - 1
      BY <1>5, WrapCharRange
    <2>2. latest_rreq \in Latest
      BY DEF TypeOK, Latest
    <2>3. [latest_rreq EXCEPT ![n][n] = WrapChar(running_broadcast_no[n] + 1)] \in Latest
      BY <2>1, <2>2 DEF Latest
    <2> QED BY <2>3 DEF HandleRequest, NoteOwnId
  <1>8. /\ forced_discovery' \in [Nodes -> 0 .. 2]
        /\ al_client_addr' \in [Nodes -> Addrs]
    BY <1>2, <1>3, <1>4 DEF HandleRequest, KeepClient, TypeOK
  <1>9. running_broadcast_no' \in [Nodes -> Nat \ {0}]
    BY <1>5 DEF HandleRequest, TypeOK
  <1>10. /\ route_discovered' \in [Nodes -> {0, 1}]
         /\ pc[n] \in {"select", "unix"} /\ pc' = [pc EXCEPT ![n] = "select"]
         /\ UNCHANGED << rtbl, held, now, crashes, relays, srv, sock, cli >>
    BY DEF HandleRequest, TypeOK
  <1> QED
    BY <1>1, <1>6, <1>7, <1>8, <1>9, <1>10
    DEF TypeOK, Frames, Latest, clientVars, PCs

(* Every step of a daemon keeps TypeOK.                                     *)
LEMMA DaemonType ==
    ASSUME TypeOK, NEW n \in Nodes, Daemon(n)
    PROVE  TypeOK'
  <1>1. UNCHANGED clientVars
    BY DEF Daemon
  <1>2. ASSUME NEW k \in Links, k.to = n, process_pack(k)
        PROVE  TypeOK'
    <2>1. CASE DropExpired(k)
      <3>1. chan' \in Frames
        BY <2>1, SilenceType DEF DropExpired
      <3>2. /\ rtbl' \in [Nodes -> Table]
            /\ latest_rreq' \in Latest /\ relays' \in Relays
        BY <2>1 DEF DropExpired, TypeOK, Latest, Relays
      <3> QED BY <1>1, <1>2, <2>1, <3>1, <3>2, HandlerType DEF DropExpired
    <2> QED BY <1>1, <1>2, <2>1, RreqType, RrepType, DataType DEF process_pack
  <1> QED BY <1>1, <1>2, WaitType, RequestType DEF Daemon, OdrStep

(* A client's own step types its sockets and its place.                    *)
ClientType ==
    /\ un' \in [Nodes -> Seq(Datagram)]
    /\ sock' \in [Clients -> 0 .. MaxRequests]
    /\ cli' \in [Clients -> Seq(Reply)]
    /\ cpc' \in [Clients -> CPCs]
    /\ target' \in [Clients -> Nodes]
    /\ outcome' \in [Clients -> Outcomes]
    /\ \A z \in Clients : cpc'[z] \in {"wait1", "wait2"} => sock'[z] # 0
    /\ srv' = srv

(* A request put into the daemon's socket keeps the socket typed.           *)
LEMMA MsgSendType ==
    ASSUME TypeOK, NEW z \in Clients, NEW i \in 1 .. MaxRequests, NEW dest \in Nodes,
           NEW flag \in {0, 1}, MsgSend(z, i, dest, flag)
    PROVE  un' \in [Nodes -> Seq(Datagram)]
  <1> DEFINE m == [kind |-> "request", from |-> << z, i >>, dest |-> dest, forced |-> flag]
  <1>1. << z, i >> \in ClientAddr
    BY DEF ClientAddr
  <1>2. m \in Datagram
    BY <1>1 DEF Datagram
  <1>3. Home[z] \in Nodes /\ un \in [Nodes -> Seq(Datagram)]
    BY SocketAssumption DEF TypeOK
  <1>4. un' = [un EXCEPT ![Home[z]] = Append(@, m)]
    BY DEF MsgSend
  <1> HIDE DEF m
  <1> QED BY <1>2, <1>3, <1>4

(* A client that leaves keeps its variables typed.                          *)
LEMMA LeaveType ==
    ASSUME TypeOK, NEW z \in Clients, Leave(z)
    PROVE  /\ cpc' \in [Clients -> CPCs]
           /\ sock' \in [Clients -> 0 .. MaxRequests]
           /\ cli' \in [Clients -> Seq(Reply)]
           /\ \A y \in Clients : cpc'[y] \in {"wait1", "wait2"} => sock'[y] # 0
  BY SocketAssumption DEF TypeOK, CPCs, Leave

(* The second try keeps the client typed: it has a socket to use.           *)
LEMMA AskAgainType ==
    ASSUME TypeOK, NEW z \in Clients, NEW up, cpc[z] = "wait1", AskAgain(z, up)
    PROVE  /\ cpc' \in [Clients -> CPCs]
           /\ sock' \in [Clients -> 0 .. MaxRequests]
           /\ un' \in [Nodes -> Seq(Datagram)]
           /\ \A y \in Clients : cpc'[y] \in {"wait1", "wait2"} => sock'[y] # 0
  <1>1. CASE up
    <2>1. /\ MsgSend(z, sock[z], target[z], 1)
          /\ cpc' = [cpc EXCEPT ![z] = "wait2"]
          /\ UNCHANGED sock
      BY <1>1 DEF AskAgain
    <2>2. sock[z] \in 1 .. MaxRequests /\ target[z] \in Nodes
      BY SocketAssumption DEF TypeOK
    <2>3. un' \in [Nodes -> Seq(Datagram)]
      BY <2>1, <2>2, MsgSendType
    <2> QED BY <2>1, <2>3 DEF TypeOK, CPCs
  <1>2. CASE ~ up
    BY <1>2, LeaveType DEF AskAgain, TypeOK
  <1> QED BY <1>1, <1>2

(* Every step of a client keeps its variables typed.                        *)
LEMMA ClientStepType ==
    ASSUME TypeOK, NEW z \in Clients, NEW up,
           \/ Ask(z, up) \/ Receive(z, up) \/ Timeout(z, up)
           \/ ReceiveAgain(z) \/ GiveUp(z) \/ Quit(z)
    PROVE  ClientType
  <1>1. CASE Ask(z, up)
    <2>1. PICK dest \in Targets[z] :
            /\ target' = [target EXCEPT ![z] = dest]
            /\ IF up
               THEN /\ MsgSend(z, sock[z] + 1, dest, 0)
                    /\ sock' = [sock EXCEPT ![z] = @ + 1]
                    /\ cli' = [cli EXCEPT ![z] = << >>]
                    /\ cpc' = [cpc EXCEPT ![z] = "wait1"]
               ELSE Leave(z) /\ UNCHANGED un
      BY <1>1 DEF Ask
    <2>2. dest \in Nodes
      BY ClientAssumption
    <2>3. sock[z] + 1 \in 1 .. MaxRequests
      BY <1>1, SocketAssumption DEF Ask, TypeOK
    <2>4. /\ outcome' = [outcome EXCEPT ![z] = "asked"] /\ srv' = srv
      BY <1>1 DEF Ask
    <2>5. CASE up
      <3>1. un' \in [Nodes -> Seq(Datagram)]
        BY <2>1, <2>2, <2>3, <2>5, MsgSendType
      <3>2. /\ sock' = [sock EXCEPT ![z] = @ + 1]
            /\ cli' = [cli EXCEPT ![z] = << >>]
            /\ cpc' = [cpc EXCEPT ![z] = "wait1"]
        BY <2>1, <2>5
      <3>3. sock' \in [Clients -> 0 .. MaxRequests] /\ sock'[z] # 0
        BY <2>3, <3>2, SocketAssumption DEF TypeOK
      <3>4. \A y \in Clients : cpc'[y] \in {"wait1", "wait2"} => sock'[y] # 0
        BY <3>2, <3>3 DEF TypeOK
      <3>5. cpc' \in [Clients -> CPCs] /\ cli' \in [Clients -> Seq(Reply)]
        BY <3>2 DEF TypeOK, CPCs
      <3>6. target' \in [Clients -> Nodes] /\ outcome' \in [Clients -> Outcomes]
        BY <2>1, <2>2, <2>4 DEF TypeOK, Outcomes
      <3> QED BY <2>4, <3>1, <3>3, <3>4, <3>5, <3>6 DEF ClientType
    <2>6. CASE ~ up
      BY <2>1, <2>2, <2>4, <2>6, LeaveType DEF ClientType, TypeOK, Outcomes
    <2> QED BY <2>5, <2>6
  <1>2. CASE Receive(z, up)
    <2>1. cli \in [Clients -> Seq(Reply)] /\ cli[z] # << >> /\ cpc[z] = "wait1"
      BY <1>2 DEF Receive, TypeOK
    <2>2. [cli EXCEPT ![z] = Tail(@)] \in [Clients -> Seq(Reply)]
      BY <2>1
    <2>3. [cli EXCEPT ![z] = << >>] \in [Clients -> Seq(Reply)]
      BY <2>1
    <2>4. UNCHANGED << srv, target >>
      BY <1>2 DEF Receive
    <2>5. CASE /\ cli' = [cli EXCEPT ![z] = Tail(@)]
               /\ cpc' = [cpc EXCEPT ![z] = "prompt"]
               /\ outcome' = [outcome EXCEPT ![z] = "first"]
               /\ UNCHANGED << un, sock >>
      BY <2>2, <2>4, <2>5 DEF ClientType, TypeOK, CPCs, Outcomes
    <2>6. CASE /\ AskAgain(z, up)
               /\ cli' = [cli EXCEPT ![z] = IF up THEN Tail(@) ELSE << >>]
               /\ UNCHANGED outcome
      <3>1. cli' \in [Clients -> Seq(Reply)]
        BY <2>2, <2>3, <2>6
      <3> QED BY <2>1, <2>4, <2>6, <3>1, AskAgainType DEF ClientType, TypeOK
    <2> QED BY <1>2, <2>5, <2>6 DEF Receive
  <1>3. CASE Timeout(z, up)
    BY <1>3, AskAgainType DEF Timeout, ClientType, TypeOK
  <1>4. CASE ReceiveAgain(z)
    BY <1>4 DEF ReceiveAgain, ClientType, TypeOK, CPCs, Outcomes
  <1>5. CASE GiveUp(z) \/ Quit(z)
    BY <1>5, LeaveType DEF GiveUp, Quit, ClientType, TypeOK
  <1> QED BY <1>1, <1>2, <1>3, <1>4, <1>5

(* Crashes, restarts, losses and the clock keep TypeOK.                     *)
LEMMA EnvironmentType ==
    ASSUME TypeOK, Environment
    PROVE  TypeOK'
  <1>1. UNCHANGED clientVars
    BY DEF Environment
  <1>2. ASSUME NEW n \in Nodes, Crash(n)
        PROVE  TypeOK'
    <2>1. chan' \in Frames /\ crashes' \in Nat
      BY <1>2 DEF Crash, TypeOK, Frames
    <2> QED BY <1>1, <1>2, <2>1, ExitType DEF Crash
  <1>3. ASSUME NEW n \in Nodes, Start(n)
        PROVE  TypeOK'
    BY <1>1, <1>3 DEF Start, TypeOK, session, sockets, clientVars, PCs
  <1>4. ASSUME NEW k \in Links, Unheard(k) \/ Lose(k)
        PROVE  TypeOK'
    <2>1. chan' \in Frames
      BY <1>4, SilenceType DEF Unheard, Lose
    <2> QED
      BY <1>1, <1>4, <2>1
      DEF Unheard, Lose, TypeOK, Frames, odrVars, session, sockets, clientVars
  <1>5. CASE Tick
    BY <1>1, <1>5 DEF Tick, TypeOK, session, sockets, clientVars
  <1> QED BY <1>2, <1>3, <1>4, <1>5, SystemAssumption DEF Environment

(* The initial states are typed.                                            *)
LEMMA TypeInit == Init => TypeOK
  <1>1. EmptyTable \in Table
    BY DEF EmptyTable, Table
  <1> QED
    BY <1>1, NoPacketHeld, OdrAssumption, SocketAssumption
    DEF Init, LinkInit, SocketInit, OdrInit, ClientInit, TypeOK, Addrs, PCs, CPCs,
        Outcomes

(* TypeOK is inductive.                                                     *)
LEMMA TypeNext == TypeOK /\ [Next]_vars => TypeOK'
  <1> SUFFICES ASSUME TypeOK, [Next]_vars PROVE TypeOK'
    OBVIOUS
  <1>1. ASSUME NEW n \in Nodes, Daemon(n) PROVE TypeOK'
    BY <1>1, DaemonType
  <1>2. ASSUME NEW n \in Nodes, Serves(n) PROVE TypeOK'
    <2>1. srv' \in [Nodes -> Nat]
      BY <1>2 DEF Serves, Serve, TypeOK
    <2>2. un' \in [Nodes -> Seq(Datagram)]
      <3>1. [kind |-> "time", from |-> SrvAddr] \in Datagram
        BY DEF Datagram
      <3> QED BY <1>2, <3>1 DEF Serves, Serve, TypeOK
    <2> QED
      BY <1>2, <2>1, <2>2
      DEF Serves, Serve, TypeOK, odrVars, session, clientVars
  <1>3. ASSUME NEW z \in Clients, Asks(z) \/ Receives(z) \/ TimesOut(z) \/ Quits(z)
        PROVE  TypeOK'
    <2>1. ClientType
      BY <1>3, ClientStepType DEF Asks, Receives, TimesOut, Quits
    <2>2. UNCHANGED << chan, odrVars >>
      BY <1>3 DEF Asks, Receives, TimesOut, Quits
    <2> QED BY <2>1, <2>2 DEF ClientType, TypeOK, odrVars, session
  <1>4. CASE Environment
    BY <1>4, EnvironmentType
  <1>5. CASE UNCHANGED vars
    BY <1>5 DEF vars, TypeOK, odrVars, session, sockets, clientVars
  <1> QED BY <1>1, <1>2, <1>3, <1>4, <1>5 DEF Next

(* Every variable keeps its type: no handler, whatever the junk it reads,  *)
(* takes a char out of its range, holds a packet it does not wait with or  *)
(* loses the one it waits with.                                            *)
THEOREM TypeCorrect == Spec => []TypeOK
  BY TypeInit, TypeNext, PTL DEF Spec

-----------------------------------------------------------------------------
(* Routing tables.                                                         *)

(* The tables stay, or one goes with its process, or one is updated by the *)
(* oldest frame of a link.                                                 *)
TableStep ==
    \/ rtbl' = rtbl
    \/ \E n \in Nodes :
          /\ pc[n] # "down" /\ pc'[n] = "down"
          /\ rtbl' = [rtbl EXCEPT ![n] = EmptyTable]
    \/ \E k \in Links, key \in Addresses :
          /\ chan[k] # << >>
          /\ rtbl' = [rtbl EXCEPT ![k.to] = Updated(k, key)]

(* A daemon that exits loses its table; the others keep theirs.             *)
LEMMA ExitTable ==
    ASSUME TypeOK, NEW m \in Nodes, Exit(m), pc[m] # "down"
    PROVE  TableStep
  BY DEF TypeOK, Exit, TableStep

(* process_pack updates the table of its node by the frame, or leaves it.   *)
LEMMA ProcessTable ==
    ASSUME TypeOK, NEW k \in Links, process_pack(k)
    PROVE  TableStep
  <1> DEFINE p == Head(chan[k])
  <1>1. chan[k] # << >> /\ pc[k.to] # "down"
    BY DEF process_pack, DropExpired, RreqStep, RrepStep, DataStep, RreqFlagged,
       RreqAtDest, RreqDuplicate, RreqFlood, RreqShortcut, RreqAtIntermediate,
       RrepAtSource, RrepForward, DataAtSource, DataAtDest, DataForward, Arrives
  <1>2. /\ k.to \in Nodes /\ p.dest \in Addresses
        /\ get_index_from_ip(p.dest) \subseteq Addresses
    BY <1>1, FrameFacts
  <1>3. (\E key \in Addresses : SetTable(k.to, Updated(k, key))) => TableStep
    BY <1>1 DEF SetTable, TableStep
  <1>4. CASE DropExpired(k)
    BY <1>4 DEF DropExpired, TableStep
  <1>5. CASE RreqStep(k)
    <2>1. SetTable(k.to, Updated(k, p.dest)) \/ Exit(k.to)
      BY <1>5 DEF RreqStep, RreqFlagged, RreqAtDest, RreqDuplicate, RreqFlood,
         RreqShortcut
    <2> QED BY <1>1, <1>2, <1>3, <2>1, ExitTable
  <1>6. CASE RrepStep(k)
    <2>1. \E key \in Addresses : SetTable(k.to, Updated(k, key))
      BY <1>2, <1>6 DEF RrepStep, RrepAtSource, RrepForward
    <2> QED BY <1>3, <2>1
  <1>7. CASE DataStep(k)
    <2>1. (\E key \in Addresses : SetTable(k.to, Updated(k, key))) \/ Exit(k.to)
      BY <1>2, <1>7 DEF DataStep, DataAtSource, DataAtDest, DataForward
    <2> QED BY <1>1, <1>2, <1>3, <2>1, ExitTable
  <1> QED BY <1>4, <1>5, <1>6, <1>7 DEF process_pack

(* No other step does anything to them.                                     *)
LEMMA NextTable ==
    ASSUME TypeOK, [Next]_vars
    PROVE  TableStep
  <1>1. ASSUME NEW m \in Nodes, Daemon(m)
        PROVE  TableStep
    <2>1. CASE \E k \in Links : process_pack(k)
      BY <2>1, ProcessTable
    <2>2. CASE ServerReply(m) \/ ServerTimeout(m) \/ HandleRequest(m)
      BY <2>2 DEF ServerReply, ServerTimeout, HandleRequest, TableStep
    <2> QED BY <1>1, <2>1, <2>2 DEF Daemon, OdrStep
  <1>2. CASE Environment
    <2>1. ASSUME NEW m \in Nodes, Crash(m)
          PROVE  TableStep
      BY <2>1, ExitTable DEF Crash
    <2>2. ASSUME NEW m \in Mortal, Crash(m)
          PROVE  TableStep
      BY <2>1, <2>2, SystemAssumption
    <2>3. CASE ~ \E m \in Mortal : Crash(m)
      BY <1>2, <2>3 DEF Environment, Start, Unheard, Lose, Tick, odrVars, TableStep
    <2> QED BY <2>2, <2>3
  <1>3. CASE \/ \E n \in Nodes : Serves(n)
             \/ \E z \in Clients : Asks(z) \/ Receives(z) \/ TimesOut(z) \/ Quits(z)
             \/ UNCHANGED vars
    BY <1>3 DEF Serves, Asks, Receives, TimesOut, Quits, vars, odrVars, TableStep
  <1> QED BY <1>1, <1>2, <1>3 DEF Next

(* UpdateEntry, of the frame that a daemon reads.                           *)
LEMMA UpdatedEntry ==
    ASSUME TypeOK, NEW k \in Links, chan[k] # << >>, NEW key \in Addresses
    PROVE  /\ k.to \in Nodes /\ rtbl[k.to] \in Table /\ now \in Nat
           /\ \/ Updated(k, key) = rtbl[k.to]
              \/ \E a \in Addresses :
                    Changed(rtbl[k.to], Updated(k, key), a, k.from, k.lan, now)
  <1>1. /\ k.to \in Nodes /\ k.from \in Nodes /\ k.lan \in Lans
        /\ Head(chan[k]) \in Packet
    BY FrameFacts
  <1>2. rtbl[k.to] \in Table /\ now \in Nat
    BY <1>1 DEF TypeOK
  <1> QED BY <1>1, <1>2, UpdateEntry DEF Updated

(* The next hop of every entry is a station on the segment the entry       *)
(* names, because an entry is only ever taken from the frame that came in. *)
THEOREM NextHopsAttached == Spec => []NextHopAttached
  <1> DEFINE Good(n, entry) ==
               [lan |-> entry.lan, from |-> n, to |-> entry.via] \in Links
  <1>1. Init => NextHopAttached
    BY DEF Init, OdrInit, EmptyTable, NextHopAttached, HasRoute
  <1>2. TypeOK /\ NextHopAttached /\ [Next]_vars => NextHopAttached'
    <2> SUFFICES ASSUME TypeOK, NextHopAttached, [Next]_vars,
                        NEW n \in Nodes, NEW a \in Addresses, HasRoute(n, a)'
                 PROVE  Good(n, rtbl'[n][a])
      BY DEF NextHopAttached
    <2>1. rtbl \in [Nodes -> Table] /\ TableStep
      BY NextTable DEF TypeOK
    <2>2. CASE rtbl'[n] = rtbl[n]
      BY <2>2 DEF NextHopAttached, HasRoute
    <2>3. CASE rtbl'[n] = EmptyTable
      BY <2>3 DEF EmptyTable, HasRoute
    <2>4. ASSUME NEW k \in Links, NEW key \in Addresses, k.to = n, chan[k] # << >>,
                 rtbl'[n] = Updated(k, key)
          PROVE  Good(n, rtbl'[n][a])
      <3>1. CASE rtbl'[n][a] = rtbl[n][a]
        BY <3>1 DEF NextHopAttached, HasRoute
      <3>2. CASE rtbl'[n][a] # rtbl[n][a]
        <4>1. PICK b \in Addresses :
                 Changed(rtbl[n], rtbl'[n], b, k.from, k.lan, now)
          BY <2>4, <3>2, UpdatedEntry
        <4>2. a = b
          BY <2>1, <3>2, <4>1 DEF Changed, Table
        <4>3. rtbl'[n][a].via = k.from /\ rtbl'[n][a].lan = k.lan
          BY <4>1, <4>2 DEF Changed
        <4> QED BY <2>4, <4>3, LinkType
      <3> QED BY <3>1, <3>2
    <2> QED BY <2>1, <2>2, <2>3, <2>4 DEF TableStep
  <1> QED BY <1>1, <1>2, TypeCorrect, PTL DEF Spec

(* A changed table is one that RouteMemory lets its owner change.           *)
LEMMA ChangedRemembered ==
    ASSUME NEW n \in Nodes, rtbl \in [Nodes -> Table], now \in Nat,
           NEW new, rtbl' = [rtbl EXCEPT ![n] = new],
           NEW key \in Addresses, NEW via, NEW lan,
           Changed(rtbl[n], new, key, via, lan, now)
    PROVE  Memory!Learn(n, key) \/ Memory!Improve(n, key) \/ Memory!Renew(n, key)
  <1>1. rtbl'[n] = new /\ new = [rtbl[n] EXCEPT ![key] = new[key]]
    BY DEF Changed
  <1>2. rtbl' = [rtbl EXCEPT ![n] = [rtbl[n] EXCEPT ![key] = rtbl'[n][key]]]
    BY <1>1, Zenon
  <1>3. rtbl'[n][key] # NoRoute /\ rtbl'[n][key].ts = now
    BY <1>1, RouteAssumption DEF Changed
  <1>4. Memory!Put(n, key)
    BY <1>2, <1>3 DEF Memory!Put, Memory!Known
  <1>5. CASE rtbl[n][key] = NoRoute
    BY <1>4, <1>5 DEF Memory!Learn, Memory!Known
  <1>6. CASE rtbl[n][key] # NoRoute /\ new[key].hop < rtbl[n][key].hop
    BY <1>1, <1>4, <1>6 DEF Memory!Improve, Memory!Known
  <1>7. CASE /\ rtbl[n][key] # NoRoute
             /\ Stale(rtbl[n][key], now) /\ new[key].hop <= rtbl[n][key].hop
    BY <1>1, <1>4, <1>7 DEF Memory!Renew, Memory!Known, Stale
  <1> QED BY <1>5, <1>6, <1>7 DEF Changed

(* The tables of the daemons implement RouteMemory: whatever frames come,  *)
(* in whatever order, and whichever daemons end, a step learns, improves   *)
(* or renews one route, or is the end of one daemon with all it knew.      *)
THEOREM RoutesAreRemembered == Spec => RoutesRemembered
  <1>1. Init => Memory!Init
    BY DEF Init, OdrInit, EmptyTable, Memory!Init, Memory!Nothing
  <1>2. TypeOK /\ [Next]_vars => [Memory!Next]_rtbl
    <2> SUFFICES ASSUME TypeOK, [Next]_vars, rtbl' # rtbl
                 PROVE  Memory!Next
      OBVIOUS
    <2>1. rtbl \in [Nodes -> Table] /\ now \in Nat
      BY DEF TypeOK
    <2>2. TableStep
      BY NextTable
    <2>3. ASSUME NEW n \in Nodes, pc'[n] = "down",
                 rtbl' = [rtbl EXCEPT ![n] = EmptyTable]
          PROVE  Memory!Next
      BY <2>3 DEF Memory!Next, Memory!Forget, Memory!Nothing, EmptyTable
    <2>4. ASSUME NEW k \in Links, NEW key \in Addresses, chan[k] # << >>,
                 rtbl' = [rtbl EXCEPT ![k.to] = Updated(k, key)]
          PROVE  Memory!Next
      <3>1. k.to \in Nodes
        BY <2>4, UpdatedEntry
      <3>2. Updated(k, key) # rtbl[k.to]
        BY <2>1, <2>4
      <3>3. PICK a \in Addresses :
               Changed(rtbl[k.to], Updated(k, key), a, k.from, k.lan, now)
        BY <2>4, <3>2, UpdatedEntry
      <3>4. \/ Memory!Learn(k.to, a) \/ Memory!Improve(k.to, a)
            \/ Memory!Renew(k.to, a)
        BY <2>1, <2>4, <3>1, <3>3, ChangedRemembered
      <3> QED BY <3>1, <3>4 DEF Memory!Next
    <2> QED BY <2>2, <2>3, <2>4 DEF TableStep
  <1> QED
    BY <1>1, <1>2, TypeCorrect, PTL DEF Spec, RoutesRemembered, Memory!Spec

-----------------------------------------------------------------------------
(* Flooding.                                                               *)

(* Why a duplicate is recognised: as long as the ids of s fit a char, what *)
(* n has noted for s is at least every id of s that n has sent on.         *)
IdsNoted ==
    \A n, s \in Nodes : s # n /\ NoWrap(n, s) =>
        \A i \in DOMAIN relays[n] :
            relays[n][i][1] = s => relays[n][i][2] <= latest_rreq[n][s]

(* The daemon at n sends nothing on, makes a RREQ of its own, loses its    *)
(* memory, or sends on a RREQ that is newer than the one it has noted.     *)
RelayStep(n) ==
    \/ UNCHANGED << relays[n], latest_rreq[n], running_broadcast_no[n] >>
    \/ /\ relays'[n] = relays[n]
       /\ running_broadcast_no'[n] = running_broadcast_no[n] + 1
       /\ latest_rreq'[n] =
             [latest_rreq[n] EXCEPT ![n] = WrapChar(running_broadcast_no[n] + 1)]
    \/ /\ relays'[n] = << >>
       /\ running_broadcast_no'[n] = 1
       /\ latest_rreq'[n][n] = 0
    \/ \E p \in Packet :
          /\ Fresh(n, p)
          /\ running_broadcast_no'[n] = running_broadcast_no[n]
          /\ relays'[n] = Append(relays[n], << p.src, p.bid >>)
          /\ latest_rreq'[n] = [latest_rreq[n] EXCEPT ![p.src] = WrapChar(p.bid)]

(* A daemon that exits forgets what it has sent on.                         *)
LEMMA ExitRelays ==
    ASSUME TypeOK, NEW m \in Nodes, Exit(m)
    PROVE  \A n \in Nodes : RelayStep(n)
  BY DEF TypeOK, Exit, RelayStep

(* A noted id is newer than the one noted before.                           *)
LEMMA NoteRelays ==
    ASSUME TypeOK, NEW m \in Nodes, NEW p \in Packet, Fresh(m, p), Note(m, p),
           UNCHANGED running_broadcast_no
    PROVE  \A n \in Nodes : RelayStep(n)
  <1> SUFFICES ASSUME NEW n \in Nodes PROVE RelayStep(n)
    OBVIOUS
  <1>1. /\ latest_rreq \in [Nodes -> [Nodes -> -CHAR_HALF .. CHAR_HALF - 1]]
        /\ relays \in [Nodes -> Seq(Nodes \X Int)]
    BY DEF TypeOK
  <1>2. /\ latest_rreq' = [latest_rreq EXCEPT ![m][p.src] = WrapChar(p.bid)]
        /\ relays' = [relays EXCEPT ![m] = Append(@, << p.src, p.bid >>)]
    BY DEF Note
  <1>3. CASE n = m
    <2>1. relays'[n] = Append(relays[n], << p.src, p.bid >>)
      BY <1>1, <1>2, <1>3
    <2>2. latest_rreq'[n] = [latest_rreq[n] EXCEPT ![p.src] = WrapChar(p.bid)]
      BY <1>1, <1>2, <1>3
    <2> QED BY <1>3, <2>1, <2>2 DEF RelayStep
  <1>4. CASE n # m
    <2>1. relays'[n] = relays[n] /\ latest_rreq'[n] = latest_rreq[n]
      BY <1>1, <1>2, <1>4
    <2> QED BY <2>1 DEF RelayStep
  <1> QED BY <1>3, <1>4

(* process_pack sends nothing on that is not newer.                         *)
LEMMA ProcessRelays ==
    ASSUME TypeOK, NEW k \in Links, process_pack(k)
    PROVE  \A n \in Nodes : RelayStep(n)
  <1> DEFINE p == Head(chan[k])
  <1>1. CASE RreqFlood(k) \/ RreqShortcut(k)
    <2>1. chan[k] # << >> /\ Fresh(k.to, p)
      BY <1>1 DEF RreqFlood, RreqShortcut, RreqAtIntermediate, Arrives
    <2>2. k.to \in Nodes /\ p \in Packet
      BY <2>1, FrameFacts
    <2>3. (Note(k.to, p) /\ UNCHANGED running_broadcast_no) \/ Exit(k.to)
      BY <1>1 DEF RreqFlood, RreqShortcut, HandlerFrame, session
    <2> QED BY <2>1, <2>2, <2>3, NoteRelays, ExitRelays
  <1>2. CASE DataAtSource(k)
    <2>1. chan[k] # << >> /\ k.to \in Nodes
      BY <1>2, FrameFacts DEF DataAtSource, Arrives
    <2>2. UNCHANGED << relays, latest_rreq, running_broadcast_no >> \/ Exit(k.to)
      BY <1>2 DEF DataAtSource, session
    <2> QED BY <2>1, <2>2, ExitRelays DEF RelayStep
  <1>3. CASE \/ DropExpired(k) \/ RreqFlagged(k) \/ RreqAtDest(k) \/ RreqDuplicate(k)
             \/ RrepStep(k) \/ DataAtDest(k) \/ DataForward(k)
    <2>1. UNCHANGED << relays, latest_rreq, running_broadcast_no >>
      BY <1>3 DEF DropExpired, RreqFlagged, RreqAtDest, RreqDuplicate, RrepStep,
         RrepAtSource, RrepForward, DataAtDest, DataForward, HandlerFrame, session
    <2> QED BY <2>1 DEF RelayStep
  <1> QED BY <1>1, <1>2, <1>3 DEF process_pack, RreqStep, DataStep

(* No other step sends anything on.                                         *)
LEMMA NextRelays ==
    ASSUME TypeOK, [Next]_vars
    PROVE  \A n \in Nodes : RelayStep(n)
  <1>1. ASSUME NEW m \in Nodes, Daemon(m)
        PROVE  \A n \in Nodes : RelayStep(n)
    <2>1. CASE \E k \in Links : process_pack(k)
      BY <2>1, ProcessRelays
    <2>2. CASE ServerReply(m) \/ ServerTimeout(m)
      BY <2>2 DEF ServerReply, ServerTimeout, RelayStep, session
    <2>3. CASE HandleRequest(m)
      <3>1. /\ relays' = relays
            /\ running_broadcast_no' = [running_broadcast_no EXCEPT ![m] = @ + 1]
            /\ latest_rreq' = [latest_rreq EXCEPT
                                 ![m][m] = WrapChar(running_broadcast_no[m] + 1)]
        BY <2>3 DEF HandleRequest, NoteOwnId
      <3>2. /\ latest_rreq \in [Nodes -> [Nodes -> -CHAR_HALF .. CHAR_HALF - 1]]
            /\ running_broadcast_no \in [Nodes -> Nat \ {0}]
        BY DEF TypeOK
      <3>3. ASSUME NEW n \in Nodes
            PROVE  RelayStep(n)
        <4>1. CASE n = m
          <5>1. running_broadcast_no'[n] = running_broadcast_no[n] + 1
            BY <3>1, <3>2, <4>1
          <5>2. latest_rreq'[n] =
                  [latest_rreq[n] EXCEPT ![n] = WrapChar(running_broadcast_no[n] + 1)]
            BY <3>1, <3>2, <4>1
          <5> QED BY <3>1, <5>1, <5>2 DEF RelayStep
        <4>2. CASE n # m
          BY <3>1, <3>2, <4>2 DEF RelayStep
        <4> QED BY <4>1, <4>2
      <3> QED BY <3>3
    <2> QED BY <1>1, <2>1, <2>2, <2>3 DEF Daemon, OdrStep
  <1>2. CASE Environment
    <2>1. ASSUME NEW m \in Nodes, Crash(m)
          PROVE  \A n \in Nodes : RelayStep(n)
      BY <2>1, ExitRelays DEF Crash
    <2>2. ASSUME NEW m \in Mortal, Crash(m)
          PROVE  \A n \in Nodes : RelayStep(n)
      BY <2>1, <2>2, SystemAssumption
    <2>3. CASE ~ \E m \in Mortal : Crash(m)
      BY <1>2, <2>3 DEF Environment, Start, Unheard, Lose, Tick, odrVars, session,
         RelayStep
    <2> QED BY <2>2, <2>3
  <1>3. CASE \/ \E n \in Nodes : Serves(n)
             \/ \E z \in Clients : Asks(z) \/ Receives(z) \/ TimesOut(z) \/ Quits(z)
             \/ UNCHANGED vars
    BY <1>3 DEF Serves, Asks, Receives, TimesOut, Quits, vars, odrVars, session,
       RelayStep
  <1> QED BY <1>1, <1>2, <1>3 DEF Next

(* A newer id than the one noted is newer than all that were sent on.      *)
LEMMA RelayNewer ==
    ASSUME TypeOK, IdsNoted, NEW n \in Nodes, NEW s \in Nodes, s # n, NoWrap(n, s)',
           RelayStep(n)
    PROVE  /\ \A i \in DOMAIN relays'[n] :
                 relays'[n][i][1] = s => relays'[n][i][2] <= latest_rreq'[n][s]
           /\ FloodOnce => \A i, j \in DOMAIN relays'[n] :
                 i < j /\ relays'[n][i][1] = s /\ relays'[n][j][1] = s
                   => relays'[n][i][2] < relays'[n][j][2]
  <1>1. /\ latest_rreq[n] \in [Nodes -> -CHAR_HALF .. CHAR_HALF - 1]
        /\ relays[n] \in Seq(Nodes \X Int)
    BY DEF TypeOK
  <1>2. CASE relays'[n] = << >>
    BY <1>2
  <1>3. CASE relays'[n] = relays[n] /\ latest_rreq'[n][s] = latest_rreq[n][s]
    <2>1. NoWrap(n, s)
      BY <1>3 DEF NoWrap
    <2> QED BY <1>3, <2>1 DEF IdsNoted, FloodOnce
  <1>4. ASSUME NEW p \in Packet, Fresh(n, p),
               relays'[n] = Append(relays[n], << p.src, p.bid >>),
               latest_rreq'[n] = [latest_rreq[n] EXCEPT ![p.src] = WrapChar(p.bid)]
        PROVE  /\ \A i \in DOMAIN relays'[n] :
                     relays'[n][i][1] = s => relays'[n][i][2] <= latest_rreq'[n][s]
               /\ FloodOnce => \A i, j \in DOMAIN relays'[n] :
                     i < j /\ relays'[n][i][1] = s /\ relays'[n][j][1] = s
                       => relays'[n][i][2] < relays'[n][j][2]
    <2> DEFINE L == Len(relays[n])
    <2>1. /\ p.src \in Nodes /\ p.bid \in Int
      BY DEF Packet
    <2>2. /\ L \in Nat /\ DOMAIN relays[n] = 1 .. L /\ DOMAIN relays'[n] = 1 .. L + 1
          /\ relays'[n][L + 1] = << p.src, p.bid >>
          /\ \A i \in 1 .. L : relays'[n][i] = relays[n][i]
          /\ \A i \in 1 .. L : relays[n][i][2] \in Int
      BY <1>1, <1>4, <2>1
    <2>3. NoWrap(n, s)
      BY <2>2 DEF NoWrap
    <2>4. \A i \in 1 .. L : relays[n][i][1] = s => relays[n][i][2] <= latest_rreq[n][s]
      BY <2>2, <2>3 DEF IdsNoted
    <2>5. FloodOnce => \A i, j \in 1 .. L :
             i < j /\ relays[n][i][1] = s /\ relays[n][j][1] = s
               => relays[n][i][2] < relays[n][j][2]
      BY <2>2, <2>3 DEF FloodOnce
    <2>6. CASE p.src = s
      <3>1. p.bid < CHAR_HALF
        BY <2>1, <2>2, <2>6 DEF NoWrap
      <3>2. latest_rreq[n][s] < p.bid /\ latest_rreq[n][s] \in -CHAR_HALF .. CHAR_HALF - 1
        BY <1>1, <1>4, <2>6 DEF Fresh
      <3>3. latest_rreq'[n][s] = p.bid
        <4>1. p.bid \in -CHAR_HALF .. CHAR_HALF - 1
          BY <2>1, <3>1, <3>2, OdrAssumption
        <4>2. WrapChar(p.bid) = p.bid
          BY <4>1, WrapCharFits
        <4> QED BY <1>1, <1>4, <2>6, <4>2
      <3>4. \A i \in 1 .. L : relays[n][i][1] = s => relays[n][i][2] < p.bid
        BY <2>1, <2>2, <2>4, <3>2, OdrAssumption
      <3>5. \A i \in 1 .. L + 1 : relays'[n][i][1] = s =>
               relays'[n][i][2] <= p.bid /\ (i # L + 1 => relays'[n][i][2] < p.bid)
        <4> HIDE DEF L
        <4>1. \A i \in 1 .. L + 1 : i # L + 1 => i \in 1 .. L
          BY <2>2
        <4>2. relays'[n][L + 1][2] = p.bid
          BY <2>2
        <4>3. \A i \in 1 .. L : relays'[n][i][1] = s => relays'[n][i][2] < p.bid
          BY <2>2, <3>4
        <4>4. \A i \in 1 .. L : relays'[n][i][2] \in Int
          BY <2>2
        <4> QED
          <5> SUFFICES ASSUME NEW i \in 1 .. L + 1, relays'[n][i][1] = s
                       PROVE  /\ relays'[n][i][2] <= p.bid
                              /\ i # L + 1 => relays'[n][i][2] < p.bid
            OBVIOUS
          <5>1. CASE i = L + 1
            BY <2>1, <4>2, <5>1
          <5>2. CASE i # L + 1
            BY <2>1, <4>1, <4>3, <4>4, <5>2
          <5> QED BY <5>1, <5>2
      <3>6. \A i \in DOMAIN relays'[n] :
               relays'[n][i][1] = s => relays'[n][i][2] <= latest_rreq'[n][s]
        BY <2>2, <3>3, <3>5
      <3>7. FloodOnce => \A i, j \in 1 .. L + 1 :
               i < j /\ relays'[n][i][1] = s /\ relays'[n][j][1] = s
                 => relays'[n][i][2] < relays'[n][j][2]
        <4> SUFFICES ASSUME FloodOnce, NEW i \in 1 .. L + 1, NEW j \in 1 .. L + 1, i < j,
                            relays'[n][i][1] = s, relays'[n][j][1] = s
                     PROVE  relays'[n][i][2] < relays'[n][j][2]
          OBVIOUS
        <4> HIDE DEF L
        <4>1. i \in 1 .. L
          BY <2>2
        <4>2. CASE j = L + 1
          <5>1. relays'[n][j][2] = p.bid
            BY <2>2, <4>2
          <5> QED BY <2>2, <3>5, <4>1, <4>2, <5>1
        <4>3. CASE j # L + 1
          <5>1. j \in 1 .. L
            BY <2>2, <4>3
          <5>2. relays'[n][i] = relays[n][i] /\ relays'[n][j] = relays[n][j]
            BY <2>2, <4>1, <5>1
          <5> QED BY <2>5, <4>1, <5>1, <5>2
        <4> QED BY <4>2, <4>3
      <3> QED BY <2>2, <3>6, <3>7
    <2>7. CASE p.src # s
      <3>1. latest_rreq'[n][s] = latest_rreq[n][s]
        BY <1>1, <1>4, <2>7
      <3>2. \A i \in 1 .. L + 1 : relays'[n][i][1] = s =>
               i \in 1 .. L /\ relays'[n][i] = relays[n][i]
        <4> HIDE DEF L
        <4>1. \A i \in 1 .. L + 1 : i # L + 1 => i \in 1 .. L
          BY <2>2
        <4>2. relays'[n][L + 1][1] = p.src
          BY <2>2
        <4> QED BY <2>2, <2>7, <4>1, <4>2
      <3>3. \A i \in DOMAIN relays'[n] :
               relays'[n][i][1] = s => relays'[n][i][2] <= latest_rreq'[n][s]
        BY <2>2, <2>4, <3>1, <3>2
      <3>4. FloodOnce => \A i, j \in DOMAIN relays'[n] :
               i < j /\ relays'[n][i][1] = s /\ relays'[n][j][1] = s
                 => relays'[n][i][2] < relays'[n][j][2]
        BY <2>2, <2>5, <3>2
      <3> QED BY <3>3, <3>4
    <2> QED BY <2>6, <2>7
  <1>5. CASE /\ relays'[n] = relays[n]
             /\ latest_rreq'[n] =
                   [latest_rreq[n] EXCEPT ![n] = WrapChar(running_broadcast_no[n] + 1)]
    <2>1. latest_rreq'[n][s] = latest_rreq[n][s]
      BY <1>1, <1>5
    <2> QED BY <1>3, <1>5, <2>1
  <1> QED BY <1>2, <1>3, <1>4, <1>5 DEF RelayStep

(* A daemon sends each RREQ of another node on at most once and in the     *)
(* order of their ids, however many copies reach it over however many      *)
(* links, as long as the ids fit the char they are noted in.               *)
THEOREM FloodsOnce == Spec => []FloodOnce
  <1>1. Init => IdsNoted /\ FloodOnce
    BY DEF Init, OdrInit, IdsNoted, FloodOnce
  <1>2. TypeOK /\ IdsNoted /\ FloodOnce /\ [Next]_vars => IdsNoted' /\ FloodOnce'
    <2> SUFFICES ASSUME TypeOK, IdsNoted, FloodOnce, [Next]_vars
                 PROVE  IdsNoted' /\ FloodOnce'
      OBVIOUS
    <2>1. \A n \in Nodes : RelayStep(n)
      BY NextRelays
    <2>2. IdsNoted'
      BY <2>1, RelayNewer DEF IdsNoted
    <2>3. FloodOnce'
      <3> SUFFICES ASSUME NEW n \in Nodes, NEW i \in DOMAIN relays'[n],
                          NEW j \in DOMAIN relays'[n], i < j,
                          relays'[n][i][1] = relays'[n][j][1],
                          relays'[n][i][1] # n, NoWrap(n, relays[n][i][1])'
                   PROVE  relays'[n][i][2] < relays'[n][j][2]
        BY DEF FloodOnce
      <3>1. relays'[n][i][1] \in Nodes
        BY TypeNext DEF TypeOK
      <3>2. PICK s \in Nodes : s = relays'[n][i][1]
        BY <3>1
      <3>3. s # n /\ NoWrap(n, s)'
        BY <3>2 DEF NoWrap
      <3> QED BY <2>1, <3>2, <3>3, RelayNewer
    <2> QED BY <2>2, <2>3
  <1> QED BY <1>1, <1>2, TypeCorrect, PTL DEF Spec

(* What a daemon has noted for itself is at least every id it has used.    *)
OwnIdsNoted ==
    \A n \in Nodes : running_broadcast_no[n] < CHAR_HALF /\ NoWrap(n, n) =>
        running_broadcast_no[n] <= latest_rreq[n][n] + 1

(* A step of n keeps it so, and what n then sends on is none of its own.   *)
LEMMA OwnNewer ==
    ASSUME TypeOK, OwnIdsNoted, NEW n \in Nodes, RelayStep(n), NoWrap(n, n)'
    PROVE  /\ running_broadcast_no'[n] < CHAR_HALF =>
                 running_broadcast_no'[n] <= latest_rreq'[n][n] + 1
           /\ running_broadcast_no[n] < CHAR_HALF =>
                 \A i \in DOMAIN relays'[n] :
                    i > Len(relays[n]) /\ relays'[n][i][1] = n
                      => relays'[n][i][2] >= running_broadcast_no[n]
  <1>1. /\ latest_rreq[n] \in [Nodes -> -CHAR_HALF .. CHAR_HALF - 1]
        /\ relays[n] \in Seq(Nodes \X Int)
        /\ running_broadcast_no[n] \in Nat \ {0}
    BY DEF TypeOK
  <1>2. CASE /\ relays'[n] = << >>
             /\ running_broadcast_no'[n] = 1 /\ latest_rreq'[n][n] = 0
    BY <1>2
  <1>3. CASE UNCHANGED << relays[n], latest_rreq[n], running_broadcast_no[n] >>
    <2>1. NoWrap(n, n)
      BY <1>3 DEF NoWrap
    <2> QED BY <1>1, <1>3, <2>1 DEF OwnIdsNoted
  <1>4. CASE /\ relays'[n] = relays[n]
             /\ running_broadcast_no'[n] = running_broadcast_no[n] + 1
             /\ latest_rreq'[n] =
                   [latest_rreq[n] EXCEPT ![n] = WrapChar(running_broadcast_no[n] + 1)]
    <2>1. latest_rreq'[n][n] = WrapChar(running_broadcast_no[n] + 1)
      BY <1>1, <1>4
    <2>2. ASSUME running_broadcast_no'[n] < CHAR_HALF
          PROVE  WrapChar(running_broadcast_no[n] + 1) = running_broadcast_no[n] + 1
      <3>1. running_broadcast_no[n] + 1 \in -CHAR_HALF .. CHAR_HALF - 1
        BY <1>1, <1>4, <2>2, OdrAssumption
      <3> QED BY <3>1, WrapCharFits
    <2> QED BY <1>1, <1>4, <2>1, <2>2
  <1>5. ASSUME NEW p \in Packet, Fresh(n, p),
               running_broadcast_no'[n] = running_broadcast_no[n],
               relays'[n] = Append(relays[n], << p.src, p.bid >>),
               latest_rreq'[n] = [latest_rreq[n] EXCEPT ![p.src] = WrapChar(p.bid)]
        PROVE  /\ running_broadcast_no'[n] < CHAR_HALF =>
                     running_broadcast_no'[n] <= latest_rreq'[n][n] + 1
               /\ running_broadcast_no[n] < CHAR_HALF =>
                     \A i \in DOMAIN relays'[n] :
                        i > Len(relays[n]) /\ relays'[n][i][1] = n
                          => relays'[n][i][2] >= running_broadcast_no[n]
    <2>1. p.src \in Nodes /\ p.bid \in Int
      BY DEF Packet
    <2>2. /\ Len(relays[n]) \in Nat
          /\ DOMAIN relays'[n] = 1 .. Len(relays[n]) + 1
          /\ DOMAIN relays[n] = 1 .. Len(relays[n])
          /\ relays'[n][Len(relays[n]) + 1] = << p.src, p.bid >>
          /\ \A i \in 1 .. Len(relays[n]) : relays'[n][i] = relays[n][i]
      BY <1>1, <1>5, <2>1
    <2>3. NoWrap(n, n)
      BY <2>2 DEF NoWrap
    <2>4. running_broadcast_no[n] < CHAR_HALF =>
             running_broadcast_no[n] <= latest_rreq[n][n] + 1
      BY <2>3 DEF OwnIdsNoted
    <2>5. CASE p.src # n
      <3>1. latest_rreq'[n][n] = latest_rreq[n][n]
        BY <1>1, <1>5, <2>5
      <3>2. \A i \in DOMAIN relays'[n] : i > Len(relays[n]) => relays'[n][i][1] # n
        BY <2>2, <2>5
      <3> QED BY <1>5, <2>4, <3>1, <3>2
    <2>6. CASE p.src = n
      <3>1. latest_rreq[n][n] < p.bid
        BY <1>5, <2>6 DEF Fresh
      <3>2. p.bid < CHAR_HALF
        BY <2>2, <2>6 DEF NoWrap
      <3>3. p.bid \in -CHAR_HALF .. CHAR_HALF - 1 /\ latest_rreq[n][n] \in Int
        BY <1>1, <2>1, <3>1, <3>2, OdrAssumption
      <3>4. latest_rreq'[n][n] = p.bid
        BY <1>1, <1>5, <2>6, <3>3, WrapCharFits
      <3>5. running_broadcast_no[n] < CHAR_HALF => running_broadcast_no[n] <= p.bid
        BY <1>1, <2>4, <3>1, <3>3
      <3>6. \A i \in DOMAIN relays'[n] : i > Len(relays[n]) => relays'[n][i][2] = p.bid
        BY <2>2
      <3>7. running_broadcast_no[n] < CHAR_HALF => running_broadcast_no[n] <= p.bid + 1
        BY <1>1, <2>1, <3>5
      <3> QED BY <1>1, <1>5, <2>1, <3>4, <3>5, <3>6, <3>7
    <2> QED BY <2>5, <2>6
  <1> QED BY <1>2, <1>3, <1>4, <1>5 DEF RelayStep

(* A daemon that hears its own RREQ again does not send it on, although it *)
(* notes its own ids one too high, and in a char: only ids of an earlier   *)
(* life, which it has yet to reach again, get past it.                     *)
THEOREM OwnNotSentOn == Spec => SourceIgnoresOwn
  <1> DEFINE Ignored(n) ==
               \A i \in DOMAIN relays'[n] :
                  /\ i > Len(relays[n]) /\ relays'[n][i][1] = n
                  /\ running_broadcast_no[n] < CHAR_HALF /\ NoWrap(n, n)'
                  => relays'[n][i][2] >= running_broadcast_no[n]
  <1>1. Init => OwnIdsNoted
    BY DEF Init, OdrInit, OwnIdsNoted
  <1>2. TypeOK /\ OwnIdsNoted /\ [Next]_vars => OwnIdsNoted'
    BY NextRelays, OwnNewer DEF OwnIdsNoted
  <1>3. TypeOK /\ OwnIdsNoted /\ [Next]_vars => [\A n \in Nodes : Ignored(n)]_relays
    BY NextRelays, OwnNewer
  <1> QED BY <1>1, <1>2, <1>3, TypeCorrect, PTL DEF Spec, SourceIgnoresOwn

=============================================================================
