------------------------------ MODULE OdrSteps ------------------------------
(***************************************************************************)
(* What a step of the service can do, seen from one place: SentOver says   *)
(* where a frame comes from, KnownFrom where an entry does, LocalStep all  *)
(* that can happen to the sockets of one node and ClientStep to one        *)
(* client.  The proofs about the whole service rest on these.              *)
(***************************************************************************)
EXTENDS OdrProofs

-----------------------------------------------------------------------------
(* Where a frame comes from.                                               *)

(* The link j of the channels ch carries q.                                *)
Carries(ch, j, q) == \E i \in 1 .. Len(ch[j]) : ch[j][i] = q

(* q is what a daemon makes of p: with the addresses and the id of p, DATA *)
(* as it is, and new DATA only for the way to the destination.             *)
Copy(q, p) ==
    /\ q.src = p.src /\ q.dest = p.dest /\ q.bid = p.bid
    /\ q.payload \in {p.payload, NotTime}
    /\ p.type = "DATA" => q = p
    /\ q.type = "DATA" => q = p \/ q.src_dest = 1

(* Of a packet with its own address for the source, n makes nothing but    *)
(* DATA for the destination, unless it takes a RREQ for another's.         *)
OwnCopy(n, q, p) ==
    IpFits /\ p.src = n =>
        \/ q.type = "DATA" /\ q.src_dest = 1
        \/ p.type = "RREQ" /\ (Fresh(n, p) \/ p.dest = n)

(* The node at the end j.from has a reason to send q over j: it passes the *)
(* addresses of a frame it has received on, of the packet it held for the  *)
(* server, or of a client's request.  A RREQ is its own or one whose way   *)
(* back it knows; any other packet follows an entry of its table.          *)
SentOver(j, q) ==
    LET n == j.from
    IN  /\ q.type = "RREQ" => q.src = n \/ HasRoute(n, q.src)'
        /\ q.type # "RREQ" =>
              \E a \in Addresses :
                 /\ HasRoute(n, a)' /\ rtbl'[n][a].via = j.to
                 /\ q.type = "DATA" /\ q.src_dest = 1 => a \in get_index_from_ip(q.dest)
        /\ \/ \E k \in Links, p \in Packet :
                 k.to = n /\ Carries(chan, k, p) /\ Copy(q, p) /\ OwnCopy(n, q, p)
           \/ /\ held[n] \in Packet /\ un[n] # << >> /\ q.type = held[n].type
              /\ q.src = held[n].src /\ q.dest = held[n].dest /\ q.src_dest = -1
              /\ q.payload = IF Head(un[n]).kind = "time" THEN n ELSE NotTime
           \/ /\ HandleRequest(n) /\ q.src = n /\ q.payload = NotTime
              /\ \/ q.type = "RREQ" /\ q.bid = running_broadcast_no[n]
                 \/ q.type = "DATA" /\ q.src_dest = 1
              /\ \E req \in Requests(Head(un[n])) : q.dest = req.dest

(* Each element of s \o t is one of s or one of t.                          *)
LEMMA Joined ==
    ASSUME NEW s \in Seq(Packet), NEW t \in Seq(Packet), NEW i \in 1 .. Len(s \o t)
    PROVE  \/ i \in 1 .. Len(s) /\ (s \o t)[i] = s[i]
           \/ i - Len(s) \in 1 .. Len(t) /\ (s \o t)[i] = t[i - Len(s)]
  <1>1. Len(s) \in Nat /\ Len(t) \in Nat /\ Len(s \o t) = Len(s) + Len(t)
    OBVIOUS
  <1>2. CASE i <= Len(s)
    BY <1>1, <1>2
  <1>3. CASE i > Len(s)
    <2>1. i - Len(s) \in 1 .. Len(t)
      BY <1>1, <1>3
    <2>2. (s \o t)[i] = t[i - Len(s)]
      BY <1>1, <1>3
    <2> QED BY <2>1, <2>2
  <1> QED BY <1>1, <1>2, <1>3

(* Nothing is sent in silence.                                             *)
LEMMA SilenceCarries ==
    ASSUME NEW j \in Links, NEW q
    PROVE  ~ Carries(Silence, j, q)
  BY DEF Carries, Silence

(* A second address of an interface makes a second copy, of the same.      *)
LEMMA CopiesSame ==
    ASSUME NEW n, NEW lan, NEW p, NEW i \in 1 .. Len(Copies(n, lan, p))
    PROVE  Copies(n, lan, p)[i] = p
  BY DEF Copies

(* A broadcast sends what it is given, from where it is called.            *)
LEMMA BroadcastCarries ==
    ASSUME NEW n, NEW p, NEW i, NEW j \in Links, NEW q,
           Carries(broadcast_ll_msg(n, p, i), j, q)
    PROVE  q = p /\ j.from = n
  <1>1. j.from = n /\ broadcast_ll_msg(n, p, i)[j] = Copies(n, j.lan, p)
    BY DEF Carries, broadcast_ll_msg
  <1> QED BY <1>1, CopiesSame DEF Carries

(* So does a send along an entry, and to where the entry says.             *)
LEMMA AlongCarries ==
    ASSUME NEW n, NEW p, NEW route, NEW j \in Links, NEW q,
           Carries(SendAlong(n, route, p), j, q)
    PROVE  q = p /\ j.from = n /\ route # NoRoute /\ j.to = route.via
  <1>1. route # NoRoute
    BY SilenceCarries DEF SendAlong
  <1>2. /\ j = [lan |-> route.lan, from |-> n, to |-> route.via]
        /\ SendAlong(n, route, p)[j] = Copies(n, route.lan, p)
    BY <1>1 DEF Carries, SendAlong, send_ll_msg
  <1> QED BY <1>1, <1>2, CopiesSame DEF Carries

(* Two calls in a row send what the one or the other sends.                *)
LEMMA ThenCarries ==
    ASSUME NEW out1 \in Frames, NEW out2 \in Frames, NEW j \in Links, NEW q,
           Carries(Then(out1, out2), j, q)
    PROVE  Carries(out1, j, q) \/ Carries(out2, j, q)
  <1>1. out1[j] \in Seq(Packet) /\ out2[j] \in Seq(Packet)
    BY DEF Frames
  <1>2. PICK i \in 1 .. Len(out1[j] \o out2[j]) : (out1[j] \o out2[j])[i] = q
    BY DEF Carries, Then
  <1> QED BY <1>1, <1>2, Joined DEF Carries

(* A link carries what it carried before and what was sent.                *)
LEMMA EmitCarries ==
    ASSUME chan \in Frames, NEW out \in Frames, Emit(out), NEW j \in Links, NEW q,
           Carries(chan', j, q)
    PROVE  Carries(chan, j, q) \/ Carries(out, j, q)
  <1>1. chan'[j] = Then(chan, out)[j]
    BY DEF Emit, Then
  <1>2. Carries(Then(chan, out), j, q)
    BY <1>1 DEF Carries
  <1> QED BY <1>2, ThenCarries

(* The same after the oldest frame of a link has been taken from it.       *)
LEMMA ConsumeCarries ==
    ASSUME chan \in Frames, NEW k \in Links, NEW out \in Frames, Consume(k, out),
           NEW j \in Links, NEW q, Carries(chan', j, q)
    PROVE  Carries(chan, j, q) \/ Carries(out, j, q)
  <1>1. chan[j] \in Seq(Packet) /\ (j = k => chan[j] # << >>)
    BY DEF Frames, Consume
  <1>2. CASE j # k
    <2>1. chan'[j] = Then(chan, out)[j]
      BY <1>2 DEF Consume, Then
    <2>2. Carries(Then(chan, out), j, q)
      BY <2>1 DEF Carries
    <2> QED BY <2>2, ThenCarries
  <1>3. CASE j = k
    <2>1. chan'[j] = Tail(chan[j]) \o out[j] /\ out[j] \in Seq(Packet)
      BY <1>3 DEF Consume, Frames
    <2>2. PICK i \in 1 .. Len(Tail(chan[j]) \o out[j]) : (Tail(chan[j]) \o out[j])[i] = q
      BY <2>1 DEF Carries
    <2>3. \A h \in 1 .. Len(Tail(chan[j])) :
             h + 1 \in 1 .. Len(chan[j]) /\ Tail(chan[j])[h] = chan[j][h + 1]
      BY <1>1, <1>3
    <2>4. Tail(chan[j]) \in Seq(Packet)
      BY <1>1, <1>3
    <2> QED BY <2>1, <2>2, <2>3, <2>4, Joined DEF Carries
  <1> QED BY <1>2, <1>3

(* The frame that is read was on its link.                                 *)
LEMMA HeadCarried ==
    ASSUME chan \in Frames, NEW k \in Links, chan[k] # << >>
    PROVE  Carries(chan, k, Head(chan[k]))
  <1>1. chan[k] \in Seq(Packet)
    BY DEF Frames
  <1>2. 1 \in 1 .. Len(chan[k]) /\ chan[k][1] = Head(chan[k])
    BY <1>1
  <1> QED BY <1>2 DEF Carries

(* The packets the handlers make of p.                                     *)
AsRrep(p, h) == [p EXCEPT !.type = "RREP", !.rrep_hop = h]
AsAnswered(p) == [p EXCEPT !.type = "RREQ", !.rrep_sent = 1]
AsData(p) == [p EXCEPT !.type = "DATA", !.src_dest = 1, !.payload = NotTime]
WithHops(p, h) == [p EXCEPT !.rrep_hop = h]

(* No way in which a handler rewrites a packet touches its addresses.      *)
LEMMA Copied ==
    ASSUME NEW p \in Packet, p.type # "DATA"
    PROVE  /\ Copy(p, p)
           /\ Onward(p) \in Packet /\ Copy(Onward(p), p) /\ Onward(p).type = p.type
           /\ AsAnswered(p) \in Packet /\ Copy(AsAnswered(p), p)
           /\ AsAnswered(p).type = "RREQ"
           /\ AsData(p) \in Packet /\ Copy(AsData(p), p)
           /\ AsData(p).type = "DATA" /\ AsData(p).src_dest = 1
  <1>1. Copy(p, p)
    BY DEF Copy
  <1>2. Onward(p) \in Packet /\ Copy(Onward(p), p) /\ Onward(p).type = p.type
    BY DEF Onward, Copy, Packet
  <1>3. AsAnswered(p) \in Packet
    BY Rewritten, Zenon DEF AsAnswered
  <1>4. Copy(AsAnswered(p), p) /\ AsAnswered(p).type = "RREQ"
    BY DEF AsAnswered, Copy, Packet
  <1>5. AsData(p) \in Packet
    BY Rewritten, Zenon DEF AsData
  <1>6. Copy(AsData(p), p) /\ AsData(p).type = "DATA" /\ AsData(p).src_dest = 1
    BY DEF AsData, Copy, Packet
  <1> QED BY <1>1, <1>2, <1>3, <1>4, <1>5, <1>6

(* Nor does a new hop count.                                               *)
LEMMA CopiedHops ==
    ASSUME NEW p \in Packet, p.type # "DATA", NEW h \in Int
    PROVE  /\ AsRrep(p, h) \in Packet /\ Copy(AsRrep(p, h), p) /\ AsRrep(p, h).type = "RREP"
           /\ WithHops(p, h) \in Packet /\ Copy(WithHops(p, h), p)
           /\ WithHops(p, h).type = p.type
  <1>1. AsRrep(p, h) \in Packet
    BY Rewritten, Zenon DEF AsRrep
  <1>2. Copy(AsRrep(p, h), p) /\ AsRrep(p, h).type = "RREP"
    BY DEF AsRrep, Copy, Packet
  <1>3. WithHops(p, h) \in Packet /\ Copy(WithHops(p, h), p) /\ WithHops(p, h).type = p.type
    BY DEF WithHops, Copy, Packet
  <1> QED BY <1>1, <1>2, <1>3

(* A copy of a copy is a copy.                                             *)
LEMMA CopyOfCopy ==
    ASSUME NEW p, NEW q, NEW r, Copy(p, q), Copy(q, r)
    PROVE  Copy(p, r)
  BY DEF Copy

(* A table that has learnt from a RREQ knows the way back to its source.   *)
LEMMA WayBackLearnt ==
    ASSUME TypeOK, NEW k \in Links, chan[k] # << >>, Head(chan[k]).type = "RREQ",
           NEW key
    PROVE  Updated(k, key)[Head(chan[k]).src] # NoRoute
  <1> DEFINE n == k.to
             p == Head(chan[k])
  <1>1. /\ n \in Nodes /\ k.from \in Nodes /\ k.lan \in Lans /\ p \in Packet
        /\ rtbl[n] \in Table /\ now \in Nat
    BY FrameFacts DEF TypeOK
  <1>2. p.src \in Addresses /\ p.rreq_hop \in Int
    BY <1>1 DEF Packet, Addresses
  <1> DEFINE new == Learn(rtbl[n], p.src, p.rreq_hop, p.rreq_hop, k.from, k.lan, now)
  <1>3. Updated(k, key) = new
    BY DEF Updated, update_rtbl_entry
  <1>4. new = rtbl[n] \/ Changed(rtbl[n], new, p.src, k.from, k.lan, now)
    BY <1>1, <1>2, LearnEntry
  <1> SUFFICES new[p.src] # NoRoute
    BY <1>3
  <1>5. CASE rtbl[n][p.src] # NoRoute
    BY <1>4, <1>5, RouteAssumption DEF Changed
  <1>6. CASE rtbl[n][p.src] = NoRoute
    <2> DEFINE entry == [via |-> k.from, lan |-> k.lan, hop |-> p.rreq_hop, ts |-> now]
    <2>1. entry \in Route
      BY <1>1, <1>2 DEF Route
    <2>2. new = [rtbl[n] EXCEPT ![p.src] = entry]
      BY <1>6 DEF Learn, entry_exists_for_src
    <2> HIDE DEF entry, new, p, n
    <2>3. new[p.src] = entry
      BY <1>1, <1>2, <2>2 DEF Table
    <2> QED BY <2>1, <2>3, RouteAssumption
  <1> QED BY <1>5, <1>6

(* A copy p of the frame that is read, sent along an entry of the table    *)
(* that the frame has updated.                                             *)
LEMMA PassedAlong ==
    ASSUME TypeOK, NEW k \in Links, chan[k] # << >>,
           NEW p, Copy(p, Head(chan[k])), p.type # "RREQ", OwnCopy(k.to, p, Head(chan[k])),
           NEW table, rtbl'[k.to] = table, NEW a \in Addresses,
           p.type = "DATA" /\ p.src_dest = 1 => a \in get_index_from_ip(p.dest),
           NEW j \in Links, NEW q, Carries(SendAlong(k.to, table[a], p), j, q)
    PROVE  SentOver(j, q)
  <1>1. Carries(chan, k, Head(chan[k])) /\ Head(chan[k]) \in Packet
    BY FrameFacts, HeadCarried DEF TypeOK, Frames
  <1>2. q = p /\ j.from = k.to /\ table[a] # NoRoute /\ j.to = table[a].via
    BY AlongCarries
  <1>3. HasRoute(k.to, a)' /\ rtbl'[k.to][a].via = j.to
    BY <1>2 DEF HasRoute
  <1> QED BY <1>1, <1>2, <1>3 DEF SentOver

(* A copy of a RREQ sent everywhere, by a table that knows the way back.    *)
LEMMA PassedEverywhere ==
    ASSUME TypeOK, NEW k \in Links, chan[k] # << >>,
           NEW p, Copy(p, Head(chan[k])), p.type = "RREQ", OwnCopy(k.to, p, Head(chan[k])),
           rtbl'[k.to][Head(chan[k]).src] # NoRoute, NEW lan,
           NEW j \in Links, NEW q, Carries(broadcast_ll_msg(k.to, p, lan), j, q)
    PROVE  SentOver(j, q)
  <1>1. Carries(chan, k, Head(chan[k])) /\ Head(chan[k]) \in Packet
    BY FrameFacts, HeadCarried DEF TypeOK, Frames
  <1>2. q = p /\ j.from = k.to
    BY BroadcastCarries
  <1>3. HasRoute(k.to, q.src)'
    BY <1>2 DEF HasRoute, Copy
  <1> QED BY <1>1, <1>2, <1>3 DEF SentOver

(* What the RREQ handlers send.                                            *)
LEMMA RreqSent ==
    ASSUME TypeOK, NEW k \in Links, RreqStep(k), NEW j \in Links, NEW q,
           Carries(chan', j, q)
    PROVE  Carries(chan, j, q) \/ SentOver(j, q)
  <1> DEFINE n == k.to
             p == Head(chan[k])
             table == Updated(k, p.dest)
  <1>1. Arrives(k, "RREQ") /\ chan \in Frames
    BY DEF RreqStep, RreqFlagged, RreqAtDest, RreqDuplicate, RreqFlood,
           RreqShortcut, RreqAtIntermediate, TypeOK, Frames
  <1>2. /\ n \in Nodes /\ p \in Packet /\ table \in Table /\ chan[k] # << >>
        /\ p.type = "RREQ" /\ p.src \in Addresses
        /\ get_index_from_ip(p.dest) \subseteq Addresses
    BY <1>1, FrameFacts DEF Arrives, Packet, Addresses
  <1>3. table[p.src] # NoRoute
    BY <1>2, WayBackLearnt
  <1>4. SetTable(n, table) => rtbl'[n] = table
    BY <1>2 DEF SetTable, TypeOK
  <1>5. Silence \in Frames
    BY DEF Silence, Frames
  <1>6. CASE Consume(k, Silence)
    BY <1>1, <1>5, <1>6, ConsumeCarries, SilenceCarries
  <1>7. CASE RreqAtDest(k)
    <2>1. SetTable(n, table) /\ Consume(k, SendAlong(n, table[p.src], AsRrep(p, 1)))
      BY <1>7 DEF RreqAtDest, AsRrep
    <2>2. AsRrep(p, 1) \in Packet /\ Copy(AsRrep(p, 1), p) /\ AsRrep(p, 1).type = "RREP"
      <3>1. p \in Packet /\ 1 \in Int /\ p.type # "DATA"
        BY <1>2
      <3> HIDE DEF p
      <3> QED BY <3>1, CopiedHops
    <2> HIDE DEF table
    <2>3. SendAlong(n, table[p.src], AsRrep(p, 1)) \in Frames
      BY <2>2, SendersType
    <2>4. Carries(chan, j, q) \/ Carries(SendAlong(n, table[p.src], AsRrep(p, 1)), j, q)
      BY <1>1, <2>1, <2>3, ConsumeCarries
    <2>5. OwnCopy(n, AsRrep(p, 1), p)
      BY <1>2, <1>7 DEF RreqAtDest, OwnCopy, is_self
    <2> QED BY <1>2, <1>4, <2>1, <2>2, <2>4, <2>5, PassedAlong
  <1>8. CASE RreqFlood(k)
    <2>1. SetTable(n, table) /\ Consume(k, broadcast_ll_msg(n, Onward(p), k.lan))
      BY <1>8 DEF RreqFlood
    <2>2. Onward(p) \in Packet /\ Copy(Onward(p), p) /\ Onward(p).type = "RREQ"
      BY <1>2, Copied
    <2> HIDE DEF table
    <2>3. broadcast_ll_msg(n, Onward(p), k.lan) \in Frames
      BY <2>2, SendersType
    <2>4. Carries(chan, j, q) \/ Carries(broadcast_ll_msg(n, Onward(p), k.lan), j, q)
      BY <1>1, <2>1, <2>3, ConsumeCarries
    <2>5. OwnCopy(n, Onward(p), p)
      BY <1>2, <1>8 DEF RreqFlood, OwnCopy
    <2> QED BY <1>2, <1>3, <1>4, <2>1, <2>2, <2>4, <2>5, PassedEverywhere
  <1>9. CASE RreqShortcut(k) /\ ~ Consume(k, Silence)
    <2> DEFINE rrep(key) == AsRrep(Onward(p), table[key].hop + 1)
               rreq(key) == AsAnswered(Onward(rrep(key)))
    <2>1. PICK key \in get_index_from_ip(p.dest) :
              /\ entry_exists_for_src(table, key)
              /\ SetTable(n, table)
              /\ Consume(k, Then(SendAlong(n, table[key], rrep(key)),
                                 broadcast_ll_msg(n, rreq(key), NoLan)))
      BY <1>9 DEF RreqShortcut, AsRrep, AsAnswered
    <2>2. key \in Addresses /\ table[key].hop + 1 \in Int
      BY <1>2, <2>1 DEF Table, Route, entry_exists_for_src
    <2> HIDE DEF table
    <2>3. Onward(p) \in Packet /\ Copy(Onward(p), p) /\ Onward(p).type = "RREQ"
      BY <1>2, Copied
    <2>4. rrep(key) \in Packet /\ Copy(rrep(key), Onward(p)) /\ rrep(key).type = "RREP"
      BY <2>2, <2>3, CopiedHops
    <2>5. Copy(rrep(key), p)
      BY <2>3, <2>4, CopyOfCopy
    <2> HIDE DEF rrep
    <2>6. /\ Onward(rrep(key)) \in Packet /\ Copy(Onward(rrep(key)), rrep(key))
          /\ Onward(rrep(key)).type = "RREP"
      BY <2>4, Copied
    <2>7. /\ rreq(key) \in Packet /\ Copy(rreq(key), Onward(rrep(key)))
          /\ rreq(key).type = "RREQ"
      BY <2>6, Copied
    <2>8. Copy(rreq(key), p)
      BY <2>5, <2>6, <2>7, CopyOfCopy
    <2> HIDE DEF rreq
    <2> DEFINE first == SendAlong(n, table[key], rrep(key))
               second == broadcast_ll_msg(n, rreq(key), NoLan)
    <2>9. first \in Frames /\ second \in Frames
      BY <2>4, <2>7, SendersType
    <2>10. Then(first, second) \in Frames
      BY <2>9, ThenType
    <2>11. Carries(chan, j, q) \/ Carries(Then(first, second), j, q)
      BY <1>1, <2>1, <2>10, ConsumeCarries
    <2>12. Carries(chan, j, q) \/ Carries(first, j, q) \/ Carries(second, j, q)
      BY <2>9, <2>11, ThenCarries
    <2>13. \A r : OwnCopy(n, r, p)
      BY <1>2, <1>9 DEF RreqShortcut, OwnCopy
    <2>14. Carries(first, j, q) => SentOver(j, q)
      BY <1>2, <1>4, <2>1, <2>2, <2>4, <2>5, <2>13, PassedAlong
    <2>15. Carries(second, j, q) => SentOver(j, q)
      BY <1>2, <1>3, <1>4, <2>1, <2>7, <2>8, <2>13, PassedEverywhere
    <2> QED BY <2>12, <2>14, <2>15
  <1> QED
    BY <1>6, <1>7, <1>8, <1>9 DEF RreqStep, RreqFlagged, RreqDuplicate

(* What the RREP handlers send.                                            *)
LEMMA RrepSent ==
    ASSUME TypeOK, NEW k \in Links, RrepStep(k), NEW j \in Links, NEW q,
           Carries(chan', j, q)
    PROVE  Carries(chan, j, q) \/ SentOver(j, q)
  <1> DEFINE n == k.to
             p == Head(chan[k])
             keys == get_index_from_ip(p.dest)
  <1>1. Arrives(k, "RREP") /\ chan \in Frames
    BY DEF RrepStep, RrepAtSource, RrepForward, TypeOK, Frames
  <1>2. /\ n \in Nodes /\ p \in Packet /\ chan[k] # << >> /\ p.type = "RREP"
        /\ p.src \in Addresses /\ keys \subseteq Addresses /\ p.rrep_hop + 1 \in Int
    BY <1>1, FrameFacts DEF Arrives, Packet, Addresses
  <1>3. \A table : SetTable(n, table) => rtbl'[n] = table
    BY <1>2 DEF SetTable, TypeOK
  <1>4. CASE Consume(k, Silence)
    <2>1. Silence \in Frames
      BY DEF Silence, Frames
    <2> QED BY <1>1, <1>4, <2>1, ConsumeCarries, SilenceCarries
  <1>5. CASE RrepAtSource(k) /\ ~ Consume(k, Silence)
    <2>1. PICK learned \in keys, key \in keys :
              /\ SetTable(n, Updated(k, learned))
              /\ Consume(k, SendAlong(n, Updated(k, learned)[key], AsData(p)))
      BY <1>5 DEF RrepAtSource, AsData
    <2> DEFINE table == Updated(k, learned)
    <2>2. /\ AsData(p) \in Packet /\ Copy(AsData(p), p)
          /\ AsData(p).type = "DATA" /\ AsData(p).src_dest = 1
      BY <1>2, Copied
    <2>3. /\ rtbl'[n] = table /\ key \in Addresses
          /\ key \in get_index_from_ip(AsData(p).dest) /\ OwnCopy(n, AsData(p), p)
      BY <1>2, <1>3, <2>1, <2>2 DEF Copy, OwnCopy
    <2> HIDE DEF table
    <2>4. SendAlong(n, table[key], AsData(p)) \in Frames
      BY <2>2, SendersType
    <2>5. Consume(k, SendAlong(n, table[key], AsData(p)))
      BY <2>1 DEF table
    <2>6. Carries(chan, j, q) \/ Carries(SendAlong(n, table[key], AsData(p)), j, q)
      BY <1>1, <2>4, <2>5, ConsumeCarries
    <2> QED BY <1>2, <2>2, <2>3, <2>6, PassedAlong
  <1>6. CASE RrepForward(k)
    <2> DEFINE onward == WithHops(p, p.rrep_hop + 1)
    <2>1. onward = [p EXCEPT !.rrep_hop = @ + 1]
      BY DEF WithHops
    <2>2. PICK learned \in keys :
              /\ SetTable(n, Updated(k, learned))
              /\ Consume(k, SendAlong(n, Updated(k, learned)[p.src], onward))
      BY <1>6, <2>1 DEF RrepForward, RrepRoute
    <2> DEFINE table == Updated(k, learned)
    <2>3. onward \in Packet /\ Copy(onward, p) /\ onward.type = "RREP"
      BY <1>2, CopiedHops
    <2>4. rtbl'[n] = table
      BY <1>3, <2>2
    <2>5. Consume(k, SendAlong(n, table[p.src], onward))
      BY <2>2
    <2> HIDE DEF table, onward
    <2>6. SendAlong(n, table[p.src], onward) \in Frames
      BY <2>3, SendersType
    <2>7. Carries(chan, j, q) \/ Carries(SendAlong(n, table[p.src], onward), j, q)
      BY <1>1, <2>5, <2>6, ConsumeCarries
    <2>8. OwnCopy(n, onward, p)
      BY <1>6 DEF RrepForward, OwnCopy, is_self
    <2> QED BY <1>2, <2>3, <2>4, <2>7, <2>8, PassedAlong
  <1> QED BY <1>4, <1>5, <1>6 DEF RrepStep

(* What the DATA handlers send.                                            *)
LEMMA DataSent ==
    ASSUME TypeOK, NEW k \in Links, DataStep(k), NEW j \in Links, NEW q,
           Carries(chan', j, q)
    PROVE  Carries(chan, j, q) \/ SentOver(j, q)
  <1> DEFINE n == k.to
             p == Head(chan[k])
             keys == get_index_from_ip(p.dest)
  <1>1. Arrives(k, "DATA") /\ chan \in Frames
    BY DEF DataStep, DataAtSource, DataAtDest, DataForward, TypeOK, Frames
  <1>2. /\ n \in Nodes /\ p \in Packet /\ chan[k] # << >> /\ p.type = "DATA"
        /\ p.src \in Addresses /\ keys \subseteq Addresses
    BY <1>1, FrameFacts DEF Arrives, Packet, Addresses
  <1>3. \A table : SetTable(n, table) => rtbl'[n] = table
    BY <1>2 DEF SetTable, TypeOK
  <1>4. CASE DataAtSource(k) \/ DataAtDest(k)
    <2>1. Silence \in Frames
      BY DEF Silence, Frames
    <2>2. Consume(k, Silence)
      BY <1>4 DEF DataAtSource, DataAtDest
    <2> QED BY <1>1, <2>1, <2>2, ConsumeCarries, SilenceCarries
  <1>5. CASE DataForward(k)
    <2>1. PICK learned \in keys, key \in keys :
              /\ SetTable(n, Updated(k, learned))
              /\ Consume(k, SendAlong(n, DataRoute(Updated(k, learned), p, key), p))
      BY <1>5 DEF DataForward
    <2> DEFINE table == Updated(k, learned)
    <2>2. PICK to \in Addresses :
              /\ Consume(k, SendAlong(n, table[to], p))
              /\ p.src_dest = 1 => to \in keys
      BY <1>2, <2>1 DEF DataRoute
    <2>3. rtbl'[n] = table /\ Copy(p, p) /\ OwnCopy(n, p, p)
      BY <1>3, <1>5, <2>1 DEF DataForward, Copy, OwnCopy, is_self
    <2> HIDE DEF table
    <2>4. SendAlong(n, table[to], p) \in Frames
      BY <1>2, SendersType
    <2>5. Carries(chan, j, q) \/ Carries(SendAlong(n, table[to], p), j, q)
      BY <1>1, <2>2, <2>4, ConsumeCarries
    <2> QED BY <1>2, <2>2, <2>3, <2>5, PassedAlong
  <1> QED BY <1>4, <1>5 DEF DataStep

(* What the daemon sends when its wait for the server ends.                *)
LEMMA WaitSent ==
    ASSUME TypeOK, NEW n \in Nodes, ServerReply(n) \/ ServerTimeout(n),
           NEW j \in Links, NEW q, Carries(chan', j, q)
    PROVE  Carries(chan, j, q) \/ SentOver(j, q)
  <1>1. CASE ServerReply(n)
    <2> DEFINE payload == IF Head(un[n]).kind = "time" THEN n ELSE NotTime
               reply == [held[n] EXCEPT !.src_dest = -1, !.payload = payload]
               route == rtbl[n][held[n].src]
    <2>1. /\ held[n] \in Packet /\ un[n] # << >>
          /\ Emit(SendAlong(n, route, reply)) /\ rtbl' = rtbl
      BY <1>1 DEF ServerReply, TypeOK
    <2>2. payload \in Payloads
      BY DEF Payloads
    <2> HIDE DEF payload
    <2>3. reply \in Packet
      BY <2>1, <2>2, Rewritten, Zenon
    <2>4. /\ reply.src = held[n].src /\ reply.dest = held[n].dest
          /\ reply.type = held[n].type /\ reply.src_dest = -1 /\ reply.payload = payload
      BY <2>1 DEF Packet
    <2>5. SendAlong(n, route, reply) \in Frames /\ chan \in Frames
      BY <2>3, SendersType DEF TypeOK, Frames
    <2>6. Carries(chan, j, q) \/ Carries(SendAlong(n, route, reply), j, q)
      BY <2>1, <2>5, EmitCarries
    <2>7. ASSUME Carries(SendAlong(n, route, reply), j, q)
          PROVE  SentOver(j, q)
      <3> HIDE DEF reply, route
      <3>1. q = reply /\ j.from = n /\ route # NoRoute /\ j.to = route.via
        BY <2>7, AlongCarries
      <3>2. PICK a \in Addresses : a = held[n].src
        BY <2>1 DEF Packet, Addresses
      <3>3. rtbl'[n][a] = route
        BY <2>1, <3>2 DEF route
      <3>4. HasRoute(n, a)' /\ rtbl'[n][a].via = j.to
        BY <3>1, <3>3 DEF HasRoute
      <3>5. /\ q.src = a /\ q.dest = held[n].dest /\ q.type = held[n].type
            /\ q.src_dest = -1 /\ q.payload = payload
        BY <2>4, <3>1, <3>2
      <3> QED BY <2>1, <3>1, <3>2, <3>4, <3>5 DEF SentOver, payload
    <2> QED BY <2>6, <2>7
  <1>2. CASE ServerTimeout(n)
    BY <1>2 DEF ServerTimeout, Carries
  <1> QED BY <1>1, <1>2

(* What the daemon sends for a client.                                     *)
LEMMA RequestSent ==
    ASSUME TypeOK, NEW n \in Nodes, HandleRequest(n), NEW j \in Links, NEW q,
           Carries(chan', j, q)
    PROVE  Carries(chan, j, q) \/ SentOver(j, q)
  <1> DEFINE m == Head(un[n])
  <1>1. un[n] # << >> /\ rtbl' = rtbl /\ chan \in Frames
    BY DEF HandleRequest, TypeOK, Frames
  <1>2. PICK req \in Requests(m) : \E key \in get_index_from_ip(req.dest) :
            OldRoute(n, req, key) \/ Discover(n, req, key)
    BY DEF HandleRequest
  <1>3. PICK key \in get_index_from_ip(req.dest) :
            OldRoute(n, req, key) \/ Discover(n, req, key)
    BY <1>2
  <1>4. req.dest \in Addresses /\ key \in Addresses
    <2>1. m \in Datagram
      BY <1>1 DEF TypeOK
    <2>2. req.dest \in Addresses
      BY <2>1, OdrAssumption DEF Requests, Datagram, Addresses
    <2> QED BY <2>2, RouteAssumption DEF get_index_from_ip, Addresses
  <1>5. running_broadcast_no[n] \in Int /\ NotTime \in Payloads
    BY DEF TypeOK, Payloads
  <1>6. CASE OldRoute(n, req, key)
    <2> DEFINE data(hops) ==
                 [type |-> "DATA", src |-> n, dest |-> req.dest,
                  rreq_hop |-> hops[1], rrep_hop |-> hops[2], bid |-> 0,
                  rrep_sent |-> 0, src_dest |-> 1, payload |-> NotTime]
    <2>1. PICK hops \in LeftoverHops(n) : Emit(SendAlong(n, rtbl[n][key], data(hops)))
      BY <1>6 DEF OldRoute
    <2>2. hops[1] \in Int /\ hops[2] \in Int
      <3>1. CASE running_broadcast_no[n] = 1
        BY <3>1, OdrAssumption DEF LeftoverHops
      <3>2. CASE running_broadcast_no[n] # 1
        <4>1. hops = << 1, -1 >>
          BY <3>2 DEF LeftoverHops
        <4> QED BY <4>1
      <3> QED BY <3>1, <3>2
    <2>3. data(hops) \in Packet
      BY <1>4, <1>5, <2>2 DEF Packet
    <2>4. /\ data(hops).type = "DATA" /\ data(hops).src = n /\ data(hops).src_dest = 1
          /\ data(hops).dest = req.dest /\ data(hops).payload = NotTime
      OBVIOUS
    <2> HIDE DEF data
    <2>5. SendAlong(n, rtbl[n][key], data(hops)) \in Frames
      BY <2>3, SendersType
    <2>6. Carries(chan, j, q) \/ Carries(SendAlong(n, rtbl[n][key], data(hops)), j, q)
      BY <1>1, <2>1, <2>5, EmitCarries
    <2>7. ASSUME Carries(SendAlong(n, rtbl[n][key], data(hops)), j, q)
          PROVE  SentOver(j, q)
      <3>1. /\ q = data(hops) /\ j.from = n /\ rtbl[n][key] # NoRoute
            /\ j.to = rtbl[n][key].via
        BY <2>7, AlongCarries
      <3>2. HasRoute(n, key)' /\ rtbl'[n][key].via = j.to
        BY <1>1, <3>1 DEF HasRoute
      <3> QED BY <1>1, <1>4, <2>4, <3>1, <3>2 DEF SentOver
    <2> QED BY <2>6, <2>7
  <1>7. CASE Discover(n, req, key)
    <2> DEFINE rreq ==
                 [type |-> "RREQ", src |-> n, dest |-> req.dest,
                  rreq_hop |-> 1, rrep_hop |-> -1, bid |-> running_broadcast_no[n],
                  rrep_sent |-> 0, src_dest |-> 0, payload |-> NotTime]
    <2>1. Emit(broadcast_ll_msg(n, rreq, NoLan))
      BY <1>7 DEF Discover
    <2>2. rreq \in Packet
      BY <1>4, <1>5 DEF Packet
    <2>3. /\ rreq.type = "RREQ" /\ rreq.src = n /\ rreq.bid = running_broadcast_no[n]
          /\ rreq.dest = req.dest /\ rreq.payload = NotTime
      OBVIOUS
    <2> HIDE DEF rreq
    <2>4. broadcast_ll_msg(n, rreq, NoLan) \in Frames
      BY <2>2, SendersType
    <2>5. Carries(chan, j, q) \/ Carries(broadcast_ll_msg(n, rreq, NoLan), j, q)
      BY <1>1, <2>1, <2>4, EmitCarries
    <2>6. ASSUME Carries(broadcast_ll_msg(n, rreq, NoLan), j, q)
          PROVE  SentOver(j, q)
      <3>1. q = rreq /\ j.from = n
        BY <2>6, BroadcastCarries
      <3> QED BY <1>1, <2>3, <3>1 DEF SentOver
    <2> QED BY <2>5, <2>6
  <1> QED BY <1>3, <1>6, <1>7

(* Every frame on the network has been sent for one of these reasons; no   *)
(* other step puts one there.                                              *)
LEMMA NextSent ==
    ASSUME TypeOK, [Next]_vars, NEW j \in Links, NEW q, Carries(chan', j, q)
    PROVE  Carries(chan, j, q) \/ SentOver(j, q)
  <1>1. chan \in Frames /\ Silence \in Frames
    BY DEF TypeOK, Frames, Silence
  <1>2. ASSUME NEW k \in Links, Consume(k, Silence)
        PROVE  Carries(chan, j, q)
    BY <1>1, <1>2, ConsumeCarries, SilenceCarries
  <1>3. CASE chan' = chan
    BY <1>3 DEF Carries
  <1>4. ASSUME NEW m \in Nodes, Daemon(m)
        PROVE  Carries(chan, j, q) \/ SentOver(j, q)
    <2>1. ASSUME NEW k \in Links, process_pack(k)
          PROVE  Carries(chan, j, q) \/ SentOver(j, q)
      <3>1. CASE DropExpired(k)
        BY <1>2, <3>1 DEF DropExpired
      <3> QED BY <2>1, <3>1, RreqSent, RrepSent, DataSent DEF process_pack
    <2> QED BY <1>4, <2>1, WaitSent, RequestSent DEF Daemon, OdrStep
  <1>5. CASE Environment
    <2>1. chan' = chan \/ \E k \in Links : Consume(k, Silence)
      BY <1>5 DEF Environment, Crash, Start, Unheard, Lose, Tick
    <2> QED BY <1>2, <1>3, <2>1
  <1>6. CASE \/ \E n \in Nodes : Serves(n)
             \/ \E z \in Clients : Asks(z) \/ Receives(z) \/ TimesOut(z) \/ Quits(z)
             \/ UNCHANGED vars
    BY <1>3, <1>6 DEF Serves, Asks, Receives, TimesOut, Quits, vars
  <1> QED BY <1>4, <1>5, <1>6 DEF Next

-----------------------------------------------------------------------------
(* Where an entry comes from.                                              *)

(* The packets that travel from the source towards the destination.        *)
Outbound(p) == p.type = "RREQ" \/ (p.type = "DATA" /\ p.src_dest = 1)

(* The entry for a comes from a frame that n reads, and leads to its last  *)
(* hop; one that travels from its source makes one for the source only.    *)
KnownFrom(n, a, k) ==
    /\ k.to = n /\ chan[k] # << >>
    /\ rtbl'[n][a].via = k.from
    /\ Outbound(Head(chan[k])) => a = Head(chan[k]).src

(* What update_rtbl_entry changes for a frame.                             *)
LEMMA UpdatedFrom ==
    ASSUME TypeOK, NEW k \in Links, chan[k] # << >>, NEW key \in Addresses,
           NEW a \in Addresses
    PROVE  LET new == Updated(k, key)
           IN  \/ new[a] = rtbl[k.to][a]
               \/ /\ new[a] # NoRoute /\ new[a].via = k.from
                  /\ Outbound(Head(chan[k])) => a = Head(chan[k]).src
  <1> DEFINE n == k.to
             p == Head(chan[k])
             new == Updated(k, key)
  <1>1. /\ n \in Nodes /\ k.from \in Nodes /\ k.lan \in Lans /\ p \in Packet
        /\ rtbl[n] \in Table /\ now \in Nat
    BY FrameFacts DEF TypeOK
  <1>2. p.src \in Addresses /\ p.rreq_hop \in Int
    BY <1>1 DEF Packet, Addresses
  <1>3. ASSUME NEW b \in Addresses, Changed(rtbl[n], new, b, k.from, k.lan, now), a # b
        PROVE  new[a] = rtbl[n][a]
    <2> HIDE DEF new
    <2> QED BY <1>1, <1>3 DEF Changed, Table
  <1>4. CASE Outbound(p)
    <2>1. \/ new = Learn(rtbl[n], p.src, p.rreq_hop, p.rreq_hop, k.from, k.lan, now)
          \/ new = rtbl[n]
      BY <1>4 DEF Outbound, Updated, update_rtbl_entry
    <2>2. new = rtbl[n] \/ Changed(rtbl[n], new, p.src, k.from, k.lan, now)
      BY <1>1, <1>2, <2>1, LearnEntry
    <2> HIDE DEF new, p, n
    <2>3. CASE new = rtbl[n]
      BY <2>3 DEF new, n
    <2>4. CASE Changed(rtbl[n], new, p.src, k.from, k.lan, now) /\ a = p.src
      BY <2>4, RouteAssumption DEF Changed, new, p
    <2> QED BY <1>2, <1>3, <2>2, <2>3, <2>4 DEF new, n
  <1>5. CASE ~ Outbound(p)
    <2>1. \/ new = rtbl[n]
          \/ \E b \in Addresses : Changed(rtbl[n], new, b, k.from, k.lan, now)
      BY UpdatedEntry
    <2> HIDE DEF new, n
    <2>2. CASE new = rtbl[n]
      BY <2>2 DEF new, n
    <2>3. ASSUME NEW b \in Addresses, Changed(rtbl[n], new, b, k.from, k.lan, now)
          PROVE  \/ new[a] = rtbl[n][a]
                 \/ new[a] # NoRoute /\ new[a].via = k.from
      BY <1>3, <2>3, RouteAssumption DEF Changed
    <2> QED BY <1>5, <2>1, <2>2, <2>3 DEF new, n
  <1> QED BY <1>4, <1>5

(* An entry was there before, with the same next hop, or comes from a      *)
(* frame; and one goes away only with its daemon.                          *)
LEMMA NextKnown ==
    ASSUME TypeOK, [Next]_vars, NEW n \in Nodes, NEW a \in Addresses
    PROVE  /\ HasRoute(n, a)' =>
                 \/ HasRoute(n, a) /\ rtbl'[n][a] = rtbl[n][a]
                 \/ \E k \in Links : KnownFrom(n, a, k)
           /\ HasRoute(n, a) => HasRoute(n, a)' \/ (pc[n] # "down" /\ pc'[n] = "down")
  <1>1. TableStep /\ rtbl \in [Nodes -> Table]
    BY NextTable DEF TypeOK
  <1>2. CASE rtbl'[n] = rtbl[n]
    BY <1>2 DEF HasRoute
  <1>3. CASE pc[n] # "down" /\ pc'[n] = "down" /\ rtbl'[n] = EmptyTable
    BY <1>3 DEF HasRoute, EmptyTable
  <1>4. ASSUME NEW k \in Links, NEW key \in Addresses, k.to = n, chan[k] # << >>,
               rtbl'[n] = Updated(k, key)
        PROVE  /\ HasRoute(n, a)' =>
                     \/ HasRoute(n, a) /\ rtbl'[n][a] = rtbl[n][a]
                     \/ KnownFrom(n, a, k)
               /\ HasRoute(n, a) => HasRoute(n, a)'
    BY <1>4, UpdatedFrom DEF HasRoute, KnownFrom
  <1> QED BY <1>1, <1>2, <1>3, <1>4 DEF TableStep

-----------------------------------------------------------------------------
(* What a step does to the sockets of one node.                            *)

local(n) == << pc[n], un[n], srv[n], held[n], al_client_addr[n] >>

(* The daemon has read a frame.  A reply can go to SRV_UN_PATH, too.       *)
ReadsFrame(n) ==
    /\ pc[n] = "select" /\ pc'[n] = IF un[n] # << >> THEN "unix" ELSE "select"
    /\ srv'[n] = srv[n] \/ al_client_addr[n] = SrvAddr
    /\ UNCHANGED << un[n], held[n], al_client_addr[n] >>

(* It has read a packet for its own address and asked the server.          *)
AsksServer(n) ==
    /\ pc[n] = "select" /\ pc'[n] = IF un[n] # << >> THEN "awaitUnix" ELSE "await"
    /\ \E k \in Links :
          /\ k.to = n /\ chan[k] # << >> /\ held'[n] = Head(chan[k])
          /\ TRUE \in is_self(n, Head(chan[k]).dest) /\ Head(chan[k]).type = "DATA"
    /\ srv'[n] = IF n \in Servers THEN srv[n] + 1 ELSE srv[n]
    /\ UNCHANGED << un[n], al_client_addr[n] >>

(* It has read an answer, or waited for too long.                          *)
EndsWait(n) ==
    /\ pc[n] \in {"await", "awaitUnix"}
    /\ pc'[n] = IF pc[n] = "awaitUnix" THEN "unix" ELSE "select"
    /\ held'[n] = NoPacket
    /\ \/ un[n] # << >> /\ un'[n] = Tail(un[n])
       \/ un[n] = << >> /\ un'[n] = un[n] /\ (SlowServer \/ n \notin Servers)
    /\ UNCHANGED << srv[n], al_client_addr[n] >>

(* It has read a request.                                                  *)
ReadsRequest(n) ==
    /\ pc[n] \in {"select", "unix"} /\ pc'[n] = "select"
    /\ un[n] # << >> /\ un'[n] = Tail(un[n])
    /\ al_client_addr'[n] = Head(un[n]).from
    /\ UNCHANGED << srv[n], held[n] >>

(* What makes a daemon exit that nobody kills.                             *)
Fatal(n, p) ==
    \/ p.dest \notin Nodes /\ \E i, j \in get_index_from_ip(p.dest) : i # j
    \/ /\ p.type = "DATA" /\ TRUE \in is_self(n, p.src)
       /\ ~ Reachable(n, al_client_addr[n])

Ends(n) ==
    /\ pc[n] # "down" /\ pc'[n] = "down"
    /\ \/ crashes' = crashes + 1 /\ n \in Mortal
       \/ \E k \in Links : k.to = n /\ chan[k] # << >> /\ Fatal(n, Head(chan[k]))
    /\ un'[n] = << >> /\ held'[n] = NoPacket /\ al_client_addr'[n] = NoAddr
    /\ srv'[n] = srv[n]

Starts(n) ==
    /\ pc[n] = "down" /\ pc'[n] = "select"
    /\ UNCHANGED << un[n], srv[n], held[n], al_client_addr[n] >>

(* The server has answered the daemon, if that was running.                *)
IsAnswered(n) ==
    /\ n \in Servers /\ srv[n] > 0 /\ srv'[n] = srv[n] - 1
    /\ un'[n] = IF pc[n] # "down" THEN Append(un[n], [kind |-> "time", from |-> SrvAddr])
                ELSE un[n]
    /\ UNCHANGED << pc[n], held[n], al_client_addr[n] >>

(* A client of the node has asked for one of its targets.                  *)
IsAsked(n) ==
    /\ pc[n] # "down"
    /\ \E z \in Clients, i \in 1 .. MaxRequests, d \in Nodes, f \in {0, 1} :
          /\ Home[z] = n /\ sock'[z] # 0
          /\ d \in Targets[z] \/ (d = target[z] /\ sock[z] # 0)
          /\ un'[n] = Append(un[n], [kind |-> "request", from |-> << z, i >>,
                                     dest |-> d, forced |-> f])
    /\ UNCHANGED << pc[n], srv[n], held[n], al_client_addr[n] >>

LocalStep(n) ==
    \/ UNCHANGED local(n)
    \/ ReadsFrame(n) \/ AsksServer(n) \/ EndsWait(n) \/ ReadsRequest(n)
    \/ Ends(n) \/ Starts(n) \/ IsAnswered(n) \/ IsAsked(n)

(* The frame handlers: AfterFrame, the exits, and the server's question.   *)
LEMMA ProcessLocal ==
    ASSUME TypeOK, NEW k \in Links, process_pack(k), NEW n \in Nodes
    PROVE  LocalStep(n)
  <1> DEFINE m == k.to
             p == Head(chan[k])
  <1>1. chan[k] # << >> /\ pc[m] = "select"
    BY DEF process_pack, DropExpired, RreqStep, RrepStep, DataStep, RreqFlagged,
       RreqAtDest, RreqDuplicate, RreqFlood, RreqShortcut, RreqAtIntermediate,
       RrepAtSource, RrepForward, DataAtSource, DataAtDest, DataForward, Arrives
  <1>2. m \in Nodes
    BY LinkType
  <1>3. /\ pc \in [Nodes -> PCs] /\ un \in [Nodes -> Seq(Datagram)]
        /\ srv \in [Nodes -> Nat] /\ held \in [Nodes -> Packet \cup {NoPacket}]
        /\ al_client_addr \in [Nodes -> Addrs]
    BY DEF TypeOK
  <1>4. ASSUME AfterFrame(m), UNCHANGED << un, srv, held, al_client_addr >>
        PROVE  LocalStep(n)
    <2>1. CASE n = m
      <3>1. pc'[n] = IF un[n] # << >> THEN "unix" ELSE "select"
        BY <1>2, <1>3, <1>4, <2>1 DEF AfterFrame
      <3> QED BY <1>1, <1>4, <2>1, <3>1 DEF LocalStep, ReadsFrame
    <2>2. CASE n # m
      BY <1>3, <1>4, <2>2 DEF AfterFrame, LocalStep, local
    <2> QED BY <2>1, <2>2
  <1>5. ASSUME Exit(m), Fatal(m, p), UNCHANGED srv
        PROVE  LocalStep(n)
    <2>1. CASE n = m
      <3>1. /\ pc'[n] = "down" /\ un'[n] = << >> /\ held'[n] = NoPacket
            /\ al_client_addr'[n] = NoAddr
        BY <1>2, <1>3, <1>5, <2>1 DEF Exit
      <3>2. pc[n] # "down"
        BY <1>1, <2>1
      <3> QED BY <1>1, <1>5, <2>1, <3>1, <3>2 DEF LocalStep, Ends
    <2>2. CASE n # m
      BY <1>3, <1>5, <2>2 DEF Exit, LocalStep, local
    <2> QED BY <2>1, <2>2
  <1>6. CASE DropExpired(k)
    BY <1>4, <1>6 DEF DropExpired, HandlerFrame, session, sockets
  <1>7. CASE RreqStep(k)
    <2>1. CASE AfterFrame(m) /\ HandlerFrame
      BY <1>4, <2>1 DEF HandlerFrame, session, sockets
    <2>2. CASE RreqShortcut(k) /\ ~ (AfterFrame(m) /\ HandlerFrame)
      <3>1. PICK found \in get_index_from_ip(p.dest) :
                entry_exists_for_src(Updated(k, p.dest), found)
        BY <2>2 DEF RreqShortcut
      <3>2. PICK key \in get_index_from_ip(p.dest) :
                /\ ~ entry_exists_for_src(Updated(k, p.dest), key)
                /\ Exit(m) /\ UNCHANGED srv
        BY <2>2 DEF RreqShortcut
      <3>3. p.dest \notin Nodes
        BY <3>1, <3>2 DEF get_index_from_ip
      <3>4. found # key
        BY <3>1, <3>2
      <3> QED BY <1>5, <3>2, <3>3, <3>4 DEF Fatal
    <2> QED BY <1>7, <2>1, <2>2 DEF RreqStep, RreqFlagged, RreqAtDest, RreqDuplicate,
          RreqFlood
  <1>8. CASE RrepStep(k)
    BY <1>4, <1>8 DEF RrepStep, RrepAtSource, RrepForward, HandlerFrame, session, sockets
  <1>9. CASE DataAtSource(k)
    <2>1. CASE Reachable(m, al_client_addr[m])
      <3>1. /\ SendToApp(m, al_client_addr[m], ReplyTo(p)) /\ AfterFrame(m)
            /\ UNCHANGED << un, held, al_client_addr >>
        BY <1>9, <2>1 DEF DataAtSource, session
      <3>2. CASE n = m
        <4>1. pc'[n] = IF un[n] # << >> THEN "unix" ELSE "select"
          BY <1>2, <1>3, <3>1, <3>2 DEF AfterFrame
        <4>2. srv'[n] = srv[n] \/ al_client_addr[n] = SrvAddr
          BY <3>1, <3>2 DEF SendToApp
        <4> QED BY <1>1, <3>1, <3>2, <4>1, <4>2 DEF LocalStep, ReadsFrame
      <3>3. CASE n # m
        <4>1. pc'[n] = pc[n] /\ srv'[n] = srv[n]
          BY <1>3, <3>1, <3>3 DEF AfterFrame, SendToApp
        <4> QED BY <3>1, <4>1 DEF LocalStep, local
      <3> QED BY <3>2, <3>3
    <2>2. CASE ~ Reachable(m, al_client_addr[m])
      BY <1>5, <1>9, <2>2 DEF DataAtSource, Arrives, Fatal
    <2> QED BY <2>1, <2>2
  <1>10. CASE DataAtDest(k)
    <2>1. /\ held' = [held EXCEPT ![m] = p]
          /\ pc' = [pc EXCEPT ![m] = IF un[m] # << >> THEN "awaitUnix" ELSE "await"]
          /\ srv' = IF m \in Servers THEN [srv EXCEPT ![m] = @ + 1] ELSE srv
          /\ UNCHANGED << un, al_client_addr >>
          /\ TRUE \in is_self(m, p.dest) /\ p.type = "DATA"
      BY <1>10 DEF DataAtDest, Arrives, session
    <2>2. CASE n = m
      <3>1. /\ pc'[n] = IF un[n] # << >> THEN "awaitUnix" ELSE "await"
            /\ held'[n] = p /\ srv'[n] = IF n \in Servers THEN srv[n] + 1 ELSE srv[n]
        BY <1>2, <1>3, <2>1, <2>2
      <3> QED BY <1>1, <2>1, <2>2, <3>1 DEF LocalStep, AsksServer
    <2>3. CASE n # m
      <3>1. pc'[n] = pc[n] /\ held'[n] = held[n] /\ srv'[n] = srv[n]
        BY <1>3, <2>1, <2>3
      <3> QED BY <2>1, <3>1 DEF LocalStep, local
    <2> QED BY <2>2, <2>3
  <1>11. CASE DataForward(k)
    BY <1>4, <1>11 DEF DataForward, HandlerFrame, session, sockets
  <1> QED
    BY <1>6, <1>7, <1>8, <1>9, <1>10, <1>11 DEF process_pack, DataStep

(* A client asks: the daemon finds the request in its socket.              *)
LEMMA AskLocal ==
    ASSUME TypeOK, NEW z \in Clients, NEW i \in 1 .. MaxRequests, NEW d \in Nodes,
           NEW f \in {0, 1}, MsgSend(z, i, d, f), Up(Home[z]),
           d \in Targets[z] \/ (d = target[z] /\ sock[z] # 0), sock'[z] # 0,
           UNCHANGED << pc, srv, held, al_client_addr >>, NEW n \in Nodes
    PROVE  LocalStep(n)
  <1> DEFINE m == [kind |-> "request", from |-> << z, i >>, dest |-> d, forced |-> f]
  <1>1. un' = [un EXCEPT ![Home[z]] = Append(@, m)] /\ un \in [Nodes -> Seq(Datagram)]
    BY DEF MsgSend, TypeOK
  <1> HIDE DEF m
  <1>2. CASE n = Home[z]
    <2>1. un'[n] = Append(un[n], m) /\ pc[n] # "down"
      BY <1>1, <1>2 DEF Up
    <2> QED BY <1>2, <2>1 DEF LocalStep, IsAsked, m
  <1>3. CASE n # Home[z]
    BY <1>1, <1>3 DEF LocalStep, local
  <1> QED BY <1>2, <1>3

(* What a client's step does to a node: it asks, or the node sees nothing. *)
LEMMA ClientLocal ==
    ASSUME TypeOK, NEW z \in Clients, Asks(z) \/ Receives(z) \/ TimesOut(z) \/ Quits(z),
           NEW n \in Nodes
    PROVE  LocalStep(n)
  <1>1. UNCHANGED << pc, srv, held, al_client_addr >>
    BY DEF Asks, Receives, TimesOut, Quits, Ask, Receive, ReceiveAgain, Timeout, GiveUp,
       Quit, odrVars, session
  <1>2. CASE un' = un
    BY <1>1, <1>2 DEF LocalStep, local
  <1>3. sock[z] \in 0 .. MaxRequests /\ MaxRequests \in Nat /\ target[z] \in Nodes
    BY SocketAssumption DEF TypeOK
  <1>4. CASE Asks(z) /\ un' # un
    <2>1. PICK d \in Targets[z] : MsgSend(z, sock[z] + 1, d, 0) /\ Up(Home[z])
      BY <1>4 DEF Asks, Ask
    <2>2. sock[z] + 1 \in 1 .. MaxRequests /\ d \in Nodes
      BY <1>3, <1>4, ClientAssumption DEF Asks, Ask
    <2>3. sock'[z] # 0
      <3>1. sock' = [sock EXCEPT ![z] = @ + 1] /\ sock \in [Clients -> 0 .. MaxRequests]
        BY <1>4 DEF Asks, Ask, TypeOK
      <3> QED BY <1>3, <3>1
    <2> QED BY <1>1, <2>1, <2>2, <2>3, AskLocal
  <1>5. CASE (Receives(z) \/ TimesOut(z)) /\ un' # un
    <2>1. /\ MsgSend(z, sock[z], target[z], 1) /\ Up(Home[z])
          /\ cpc[z] = "wait1" /\ sock' = sock
      BY <1>5 DEF Receives, TimesOut, Receive, ReceiveAgain, Timeout, GiveUp, AskAgain
    <2>2. sock[z] \in 1 .. MaxRequests /\ sock[z] # 0
      BY <1>3, <2>1 DEF TypeOK
    <2> QED BY <1>1, <1>3, <2>1, <2>2, AskLocal
  <1>6. CASE Quits(z)
    BY <1>2, <1>6 DEF Quits, Quit
  <1> QED BY <1>2, <1>4, <1>5, <1>6

(* LocalStep is all that a step can do to the sockets of a node.           *)
LEMMA NextLocal ==
    ASSUME TypeOK, [Next]_vars, NEW n \in Nodes
    PROVE  LocalStep(n)
  <1>1. /\ pc \in [Nodes -> PCs] /\ un \in [Nodes -> Seq(Datagram)]
        /\ srv \in [Nodes -> Nat] /\ held \in [Nodes -> Packet \cup {NoPacket}]
        /\ al_client_addr \in [Nodes -> Addrs]
    BY DEF TypeOK
  <1>2. CASE UNCHANGED << pc, un, srv, held, al_client_addr >>
    BY <1>2 DEF LocalStep, local
  <1>3. ASSUME NEW m \in Nodes, Daemon(m)
        PROVE  LocalStep(n)
    <2>1. CASE ServerReply(m) \/ ServerTimeout(m)
      <3>1. /\ pc[m] \in {"await", "awaitUnix"} /\ AfterWait(m)
            /\ \/ un[m] # << >> /\ un' = [un EXCEPT ![m] = Tail(@)]
               \/ un[m] = << >> /\ un' = un /\ (SlowServer \/ m \notin Servers)
            /\ UNCHANGED << srv, al_client_addr >>
        BY <2>1 DEF ServerReply, ServerTimeout, session, sockets
      <3>2. CASE n = m
        <4>1. /\ pc'[n] = IF pc[n] = "awaitUnix" THEN "unix" ELSE "select"
              /\ held'[n] = NoPacket
          BY <1>1, <3>1, <3>2 DEF AfterWait
        <4>2. \/ un[n] # << >> /\ un'[n] = Tail(un[n])
              \/ un[n] = << >> /\ un'[n] = un[n] /\ (SlowServer \/ n \notin Servers)
          BY <1>1, <3>1, <3>2
        <4> QED BY <3>1, <3>2, <4>1, <4>2 DEF LocalStep, EndsWait
      <3>3. CASE n # m
        <4>1. pc'[n] = pc[n] /\ held'[n] = held[n] /\ un'[n] = un[n]
          BY <1>1, <3>1, <3>3 DEF AfterWait
        <4> QED BY <3>1, <4>1 DEF LocalStep, local
      <3> QED BY <3>2, <3>3
    <2>2. CASE HandleRequest(m)
      <3>1. /\ pc[m] \in {"select", "unix"} /\ pc' = [pc EXCEPT ![m] = "select"]
            /\ un[m] # << >> /\ un' = [un EXCEPT ![m] = Tail(@)]
            /\ al_client_addr' = [al_client_addr EXCEPT ![m] = Head(un[m]).from]
            /\ UNCHANGED << srv, held >>
        BY <2>2 DEF HandleRequest, KeepClient
      <3>2. CASE n = m
        <4>1. /\ pc'[n] = "select" /\ un'[n] = Tail(un[n])
              /\ al_client_addr'[n] = Head(un[n]).from
          BY <1>1, <3>1, <3>2
        <4> QED BY <3>1, <3>2, <4>1 DEF LocalStep, ReadsRequest
      <3>3. CASE n # m
        BY <1>1, <3>1, <3>3 DEF LocalStep, local
      <3> QED BY <3>2, <3>3
    <2> QED BY <1>3, <2>1, <2>2, ProcessLocal DEF Daemon, OdrStep
  <1>4. CASE Environment
    <2>1. ASSUME NEW m \in Mortal, Crash(m)
          PROVE  LocalStep(n)
      <3>1. CASE n = m
        <4>1. /\ pc'[n] = "down" /\ un'[n] = << >> /\ held'[n] = NoPacket
              /\ al_client_addr'[n] = NoAddr
          BY <1>1, <2>1, <3>1 DEF Crash, Exit
        <4> QED BY <2>1, <3>1, <4>1 DEF Crash, LocalStep, Ends
      <3>2. CASE n # m
        BY <1>1, <2>1, <3>2 DEF Crash, Exit, LocalStep, local
      <3> QED BY <3>1, <3>2
    <2>2. ASSUME NEW m \in Nodes, Start(m)
          PROVE  LocalStep(n)
      <3>1. pc[m] = "down" /\ UNCHANGED << un, srv, held, al_client_addr >>
        BY <2>2 DEF Start, session, sockets
      <3>2. pc'[n] = IF n = m THEN "select" ELSE pc[n]
        BY <1>1, <2>2 DEF Start
      <3> QED BY <3>1, <3>2 DEF LocalStep, Starts, local
    <2>3. ASSUME NEW k \in Links, Unheard(k) \/ Lose(k)
          PROVE  LocalStep(n)
      BY <1>2, <2>3 DEF Unheard, Lose, odrVars, session, sockets
    <2>4. ASSUME Tick
          PROVE  LocalStep(n)
      BY <1>2, <2>4 DEF Tick, session, sockets
    <2> QED BY <1>4, <2>1, <2>2, <2>3, <2>4 DEF Environment
  <1>5. ASSUME NEW m \in Nodes, Serves(m)
        PROVE  LocalStep(n)
    <2>1. /\ m \in Servers /\ srv[m] > 0 /\ srv' = [srv EXCEPT ![m] = @ - 1]
          /\ un' = IF pc[m] # "down"
                   THEN [un EXCEPT ![m] = Append(@, [kind |-> "time", from |-> SrvAddr])]
                   ELSE un
          /\ UNCHANGED << pc, held, al_client_addr >>
      BY <1>5 DEF Serves, Serve, Up, odrVars, session
    <2>2. CASE n = m
      <3>1. /\ srv'[n] = srv[n] - 1
            /\ un'[n] = IF pc[n] # "down"
                        THEN Append(un[n], [kind |-> "time", from |-> SrvAddr]) ELSE un[n]
        BY <1>1, <2>1, <2>2
      <3> QED BY <2>1, <2>2, <3>1 DEF LocalStep, IsAnswered
    <2>3. CASE n # m
      BY <1>1, <2>1, <2>3 DEF LocalStep, local
    <2> QED BY <2>2, <2>3
  <1>6. CASE UNCHANGED vars
    BY <1>2, <1>6 DEF vars, odrVars, session, sockets
  <1> QED BY <1>3, <1>4, <1>5, <1>6, ClientLocal DEF Next

(* A packet that is held is the one that was, or the frame just read.      *)
LEMMA HeldStep ==
    ASSUME TypeOK, [Next]_vars, NEW n \in Nodes, held'[n] \in Packet
    PROVE  \/ held'[n] = held[n]
           \/ \E k \in Links :
                 /\ k.to = n /\ chan[k] # << >> /\ held'[n] = Head(chan[k])
                 /\ TRUE \in is_self(n, Head(chan[k]).dest)
                 /\ Head(chan[k]).type = "DATA"
  <1>1. LocalStep(n)
    BY NextLocal
  <1> QED
    BY <1>1, NoPacketHeld DEF LocalStep, local, ReadsFrame, AsksServer, EndsWait,
       ReadsRequest, Ends, Starts, IsAnswered, IsAsked

-----------------------------------------------------------------------------
(* What a step does to one client.                                         *)

(* A daemon hands the client's newest socket the reply it has read.        *)
IsTold(z) ==
    /\ \E k \in Links :
          /\ chan[k] # << >> /\ TRUE \in is_self(k.to, Head(chan[k]).src)
          /\ Head(chan[k]).type = "DATA"
          /\ al_client_addr[k.to] = << z, sock[z] >> /\ sock[z] # 0
          /\ cli'[z] = Append(cli[z], ReplyTo(Head(chan[k])))
    /\ UNCHANGED << sock[z], target[z] >>

(* The client takes a reply.                                               *)
Takes(z) ==
    cli[z] # << >> /\ cli'[z] = Tail(cli[z]) /\ UNCHANGED << sock[z], target[z] >>

(* The client makes a new socket, or leaves.                               *)
Renews(z) == cli'[z] = << >> /\ (target'[z] \in Targets[z] \/ sock'[z] = 0)

ClientStep(z) ==
    UNCHANGED << cli[z], sock[z], target[z] >> \/ IsTold(z) \/ Takes(z) \/ Renews(z)

(* The steps of the clients themselves.                                    *)
LEMMA ClientsStep ==
    ASSUME TypeOK, NEW y \in Clients, Asks(y) \/ Receives(y) \/ TimesOut(y) \/ Quits(y),
           NEW z \in Clients
    PROVE  ClientStep(z)
  <1>1. /\ cli \in [Clients -> Seq(Reply)] /\ sock \in [Clients -> 0 .. MaxRequests]
        /\ target \in [Clients -> Nodes]
    BY DEF TypeOK
  <1>2. ASSUME Leave(y), target' = target \/ target' = [target EXCEPT ![y] = target'[y]]
        PROVE  ClientStep(z)
    <2>1. CASE z = y
      BY <1>1, <1>2, <2>1 DEF Leave, ClientStep, Renews
    <2>2. CASE z # y
      BY <1>1, <1>2, <2>2 DEF Leave, ClientStep
    <2> QED BY <2>1, <2>2
  <1>3. ASSUME cli[y] # << >>, cli' = [cli EXCEPT ![y] = Tail(@)],
               UNCHANGED << sock, target >>
        PROVE  ClientStep(z)
    <2>1. CASE z = y
      BY <1>1, <1>3, <2>1 DEF ClientStep, Takes
    <2>2. CASE z # y
      BY <1>1, <1>3, <2>2 DEF ClientStep
    <2> QED BY <2>1, <2>2
  <1>4. CASE UNCHANGED << cli, sock, target >>
    BY <1>4 DEF ClientStep
  <1>5. CASE Asks(y)
    <2>1. PICK d \in Targets[y] :
              /\ target' = [target EXCEPT ![y] = d]
              /\ \/ /\ sock' = [sock EXCEPT ![y] = @ + 1]
                    /\ cli' = [cli EXCEPT ![y] = << >>]
                 \/ Leave(y)
      BY <1>5 DEF Asks, Ask
    <2>2. (sock'[z] = sock[z] /\ cli'[z] = cli[z] /\ target'[z] = target[z]) \/ z = y
      BY <1>1, <2>1 DEF Leave
    <2>3. CASE z = y
      <3>1. cli'[z] = << >> /\ target'[z] = d
        BY <1>1, <2>1, <2>3 DEF Leave
      <3> QED BY <3>1, <2>3 DEF ClientStep, Renews
    <2> QED BY <2>2, <2>3 DEF ClientStep
  <1>6. CASE Receives(y)
    <2>1. CASE ReceiveAgain(y)
      BY <1>3, <2>1 DEF ReceiveAgain
    <2>2. CASE Receive(y, Up(Home[y]))
      <3>1. cli[y] # << >> /\ UNCHANGED target
        BY <2>2 DEF Receive
      <3>2. \/ cli' = [cli EXCEPT ![y] = Tail(@)] /\ UNCHANGED sock
            \/ Leave(y)
        BY <2>2 DEF Receive, AskAgain
      <3> QED BY <1>2, <1>3, <3>1, <3>2
    <2> QED BY <1>6, <2>1, <2>2 DEF Receives
  <1>7. CASE TimesOut(y)
    <2>1. CASE GiveUp(y)
      BY <1>2, <2>1 DEF GiveUp
    <2>2. CASE Timeout(y, Up(Home[y]))
      <3>1. UNCHANGED << cli, target >> /\ (UNCHANGED sock \/ Leave(y))
        BY <2>2 DEF Timeout, AskAgain
      <3> QED BY <1>2, <1>4, <3>1
    <2> QED BY <1>7, <2>1, <2>2 DEF TimesOut
  <1>8. CASE Quits(y)
    BY <1>2, <1>8 DEF Quits, Quit
  <1> QED BY <1>5, <1>6, <1>7, <1>8

(* No other step but that of a daemon with a reply concerns a client.      *)
LEMMA NextClient ==
    ASSUME TypeOK, [Next]_vars, NEW z \in Clients
    PROVE  ClientStep(z)
  <1>1. CASE UNCHANGED << cli, sock, target >>
    BY <1>1 DEF ClientStep
  <1>2. ASSUME NEW k \in Links, DataAtSource(k), UNCHANGED clientVars
        PROVE  ClientStep(z)
    <2> DEFINE addr == al_client_addr[k.to]
               reply == ReplyTo(Head(chan[k]))
    <2>1. CASE Reachable(k.to, addr)
      <3>1. /\ SendToApp(k.to, addr, reply) /\ UNCHANGED target
            /\ chan[k] # << >> /\ TRUE \in is_self(k.to, Head(chan[k]).src)
            /\ Head(chan[k]).type = "DATA"
        BY <1>2, <2>1 DEF DataAtSource, Arrives, clientVars
      <3>2. UNCHANGED sock /\ cli \in [Clients -> Seq(Reply)]
        BY <3>1 DEF SendToApp, TypeOK
      <3>3. CASE addr \in ClientAddr /\ sock[addr[1]] = addr[2]
        <4>1. addr[1] \in Clients /\ addr = << addr[1], addr[2] >> /\ addr[2] # 0
          BY <3>3, SocketAssumption DEF ClientAddr
        <4>2. cli' = [cli EXCEPT ![addr[1]] = Append(@, reply)]
          BY <3>1, <3>3 DEF SendToApp
        <4>3. CASE z = addr[1]
          <5>1. cli'[z] = Append(cli[z], reply)
            BY <3>2, <4>2, <4>3
          <5>2. addr = << z, sock[z] >> /\ sock[z] # 0
            BY <3>3, <4>1, <4>3
          <5> QED BY <3>1, <3>2, <5>1, <5>2 DEF ClientStep, IsTold
        <4>4. CASE z # addr[1]
          <5>1. cli'[z] = cli[z]
            BY <3>2, <4>2, <4>4
          <5> QED BY <3>1, <3>2, <5>1 DEF ClientStep
        <4> QED BY <4>3, <4>4
      <3>4. CASE ~ (addr \in ClientAddr /\ sock[addr[1]] = addr[2])
        BY <1>1, <3>1, <3>2, <3>4 DEF SendToApp
      <3> QED BY <3>3, <3>4
    <2>2. CASE ~ Reachable(k.to, addr)
      BY <1>1, <1>2, <2>2 DEF DataAtSource, clientVars
    <2> QED BY <2>1, <2>2
  <1>3. ASSUME NEW m \in Nodes, Daemon(m)
        PROVE  ClientStep(z)
    <2>1. UNCHANGED clientVars
      BY <1>3 DEF Daemon
    <2>2. ASSUME NEW k \in Links, process_pack(k)
          PROVE  ClientStep(z)
      <3>1. UNCHANGED << cli, sock >> \/ DataAtSource(k)
        BY <2>2 DEF process_pack, DropExpired, RreqStep, RrepStep, DataStep, RreqFlagged,
           RreqAtDest, RreqDuplicate, RreqFlood, RreqShortcut, RrepAtSource, RrepForward,
           DataAtDest, DataForward, HandlerFrame, sockets
      <3> QED BY <1>1, <1>2, <2>1, <3>1 DEF clientVars
    <2>3. CASE ServerReply(m) \/ ServerTimeout(m) \/ HandleRequest(m)
      BY <1>1, <2>1, <2>3 DEF ServerReply, ServerTimeout, HandleRequest, clientVars, sockets
    <2> QED BY <1>3, <2>2, <2>3 DEF Daemon, OdrStep
  <1>4. CASE Environment \/ (\E m \in Nodes : Serves(m)) \/ UNCHANGED vars
    BY <1>1, <1>4 DEF Environment, Crash, Start, Unheard, Lose, Tick, Serves, Serve,
       clientVars, sockets, vars
  <1> QED BY <1>3, <1>4, ClientsStep DEF Next

(* What a queue holds after a datagram has come or gone.                   *)
LEMMA Queue ==
    ASSUME NEW S, NEW s \in Seq(S), NEW e
    PROVE  /\ \A i \in 1 .. Len(Append(s, e)) :
                 Append(s, e)[i] = e \/ (i \in 1 .. Len(s) /\ Append(s, e)[i] = s[i])
           /\ s # << >> => \A i \in 1 .. Len(Tail(s)) :
                 i + 1 \in 1 .. Len(s) /\ Tail(s)[i] = s[i + 1]
           /\ s # << >> => 1 \in 1 .. Len(s) /\ s[1] = Head(s)
  OBVIOUS

=============================================================================
