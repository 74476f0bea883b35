------------------------------ MODULE TokenProofs ------------------------------
(***************************************************************************)
(* Why one request makes one DATA packet: it is on the network, at the     *)
(* server or, as a reply, with the client, and what could make a second    *)
(* one is gone or switched off while it lasts.                             *)
(***************************************************************************)
EXTENDS ServiceProofs, FiniteSetTheorems, FunctionTheorems

(* One request of each client over the daemon of its own machine, with a   *)
(* client that waits as long as anything is under way.  Frames may be lost,*)
(* routes be stale, and replies be taken for errors.                       *)
Plain ==
    /\ Sound /\ Patient /\ Aliased = {} /\ Mortal = {} /\ MaxRequests = 1
    /\ \A y, z \in Clients : Home[y] = Home[z] => y = z

-----------------------------------------------------------------------------
(* The DATA packets of one source among the frames on the links.           *)

Token(q, h) == q.type = "DATA" /\ q.src = h

None(ch, h) == \A j \in Links : \A i \in 1 .. Len(ch[j]) : ~ Token(ch[j][i], h)

AtMostOne(ch, h) ==
    \A j, l \in Links : \A i \in 1 .. Len(ch[j]), m \in 1 .. Len(ch[l]) :
        Token(ch[j][i], h) /\ Token(ch[l][m], h) => j = l /\ i = m

(* What is true of every frame that is carried is so of every place.       *)
LEMMA NoneCarried ==
    ASSUME NEW ch \in Frames, NEW h,
           \A j \in Links, q \in Packet : Carries(ch, j, q) => ~ Token(q, h)
    PROVE  None(ch, h) /\ AtMostOne(ch, h)
  <1>1. ASSUME NEW j \in Links, NEW i \in 1 .. Len(ch[j])
        PROVE  ~ Token(ch[j][i], h)
    <2>1. ch[j] \in Seq(Packet)
      BY DEF Frames
    <2>2. ch[j][i] \in Packet /\ Carries(ch, j, ch[j][i])
      BY <2>1 DEF Carries
    <2> QED BY <2>2
  <1> QED BY <1>1 DEF None, AtMostOne

(* Frames sent after others.                                               *)
LEMMA ThenTokens ==
    ASSUME NEW ch \in Frames, NEW out \in Frames, NEW h
    PROVE  /\ None(out, h) => (None(ch, h) => None(Then(ch, out), h))
           /\ None(out, h) => (AtMostOne(ch, h) => AtMostOne(Then(ch, out), h))
           /\ AtMostOne(out, h) => (None(ch, h) => AtMostOne(Then(ch, out), h))
  <1> DEFINE all == Then(ch, out)
  <1>1. ASSUME NEW j \in Links, NEW i \in 1 .. Len(all[j])
        PROVE  \/ i \in 1 .. Len(ch[j]) /\ all[j][i] = ch[j][i]
               \/ /\ i - Len(ch[j]) \in 1 .. Len(out[j])
                  /\ all[j][i] = out[j][i - Len(ch[j])]
    <2>1. ch[j] \in Seq(Packet) /\ out[j] \in Seq(Packet) /\ all[j] = ch[j] \o out[j]
      BY DEF Frames, Then
    <2> HIDE DEF all
    <2>2. i \in 1 .. Len(ch[j] \o out[j]) /\ all[j][i] = (ch[j] \o out[j])[i]
      BY <1>1, <2>1
    <2> QED BY <2>1, <2>2, Joined
  <1> HIDE DEF all
  <1>2. ASSUME None(out, h), None(ch, h)
        PROVE  None(all, h)
    BY <1>1, <1>2 DEF None
  <1>3. ASSUME None(out, h), AtMostOne(ch, h)
        PROVE  AtMostOne(all, h)
    <2>1. \A j \in Links : \A i \in 1 .. Len(all[j]) : Token(all[j][i], h) =>
             i \in 1 .. Len(ch[j]) /\ all[j][i] = ch[j][i]
      BY <1>1, <1>3 DEF None
    <2> QED BY <1>3, <2>1 DEF AtMostOne
  <1>4. ASSUME AtMostOne(out, h), None(ch, h)
        PROVE  AtMostOne(all, h)
    <2> SUFFICES ASSUME NEW j \in Links, NEW l \in Links,
                        NEW i \in 1 .. Len(all[j]), NEW m \in 1 .. Len(all[l]),
                        Token(all[j][i], h), Token(all[l][m], h)
                 PROVE  j = l /\ i = m
      BY DEF AtMostOne
    <2>1. /\ i - Len(ch[j]) \in 1 .. Len(out[j])
          /\ all[j][i] = out[j][i - Len(ch[j])]
      BY <1>1, <1>4 DEF None
    <2>2. /\ m - Len(ch[l]) \in 1 .. Len(out[l])
          /\ all[l][m] = out[l][m - Len(ch[l])]
      BY <1>1, <1>4 DEF None
    <2>3. j = l /\ i - Len(ch[j]) = m - Len(ch[l])
      <3>1. PICK x \in 1 .. Len(out[j]) : x = i - Len(ch[j])
        BY <2>1
      <3>2. PICK y \in 1 .. Len(out[l]) : y = m - Len(ch[l])
        BY <2>2
      <3>3. Token(out[j][x], h) /\ Token(out[l][y], h)
        BY <2>1, <2>2, <3>1, <3>2
      <3>4. j = l /\ x = y
        BY <1>4, <3>3 DEF AtMostOne
      <3> QED BY <3>1, <3>2, <3>4
    <2>4. Len(ch[j]) \in Int
      BY DEF Frames
    <2> QED BY <2>3, <2>4
  <1> QED BY <1>2, <1>3, <1>4 DEF all

(* The frames left when the oldest of a link has been taken.               *)
LEMMA RestTokens ==
    ASSUME chan \in Frames, NEW k \in Links, chan[k] # << >>, NEW h
    PROVE  LET rest == [chan EXCEPT ![k] = Tail(@)]
           IN  /\ rest \in Frames
               /\ \A out : Consume(k, out) => chan' = Then(rest, out)
               /\ None(chan, h) => None(rest, h)
               /\ AtMostOne(chan, h) => AtMostOne(rest, h)
               /\ AtMostOne(chan, h) /\ Token(Head(chan[k]), h) => None(rest, h)
  <1> DEFINE rest == [chan EXCEPT ![k] = Tail(@)]
  <1>1. rest \in Frames
    BY DEF Frames
  <1>2. \A out : Consume(k, out) => chan' = Then(rest, out)
    BY DEF Consume, Then, Frames
  <1>3. chan[k] \in Seq(Packet) /\ 1 \in 1 .. Len(chan[k]) /\ chan[k][1] = Head(chan[k])
    BY DEF Frames
  <1>4. ASSUME NEW j \in Links, NEW i \in 1 .. Len(rest[j])
        PROVE  \/ j # k /\ i \in 1 .. Len(chan[j]) /\ rest[j][i] = chan[j][i]
               \/ j = k /\ i + 1 \in 1 .. Len(chan[j]) /\ rest[j][i] = chan[j][i + 1]
    <2>1. rest[j] = IF j = k THEN Tail(chan[j]) ELSE chan[j]
      BY DEF Frames
    <2> HIDE DEF rest
    <2> QED BY <1>3, <1>4, <2>1
  <1> HIDE DEF rest
  <1>5. None(chan, h) => None(rest, h)
    BY <1>4 DEF None
  <1>6. ASSUME AtMostOne(chan, h)
        PROVE  AtMostOne(rest, h)
    <2> SUFFICES ASSUME NEW j \in Links, NEW l \in Links,
                        NEW i \in 1 .. Len(rest[j]), NEW m \in 1 .. Len(rest[l]),
                        Token(rest[j][i], h), Token(rest[l][m], h)
                 PROVE  j = l /\ i = m
      BY DEF AtMostOne
    <2>1. i \in Int /\ m \in Int
      BY <1>4
    <2> QED BY <1>4, <1>6, <2>1 DEF AtMostOne
  <1>7. ASSUME AtMostOne(chan, h), Token(Head(chan[k]), h)
        PROVE  None(rest, h)
    <2> SUFFICES ASSUME NEW j \in Links, NEW i \in 1 .. Len(rest[j]), Token(rest[j][i], h)
                 PROVE  FALSE
      BY DEF None
    <2>1. i \in 1 .. Len(rest[j]) /\ i \in Int /\ i >= 1
      OBVIOUS
    <2>2. PICK m \in 1 .. Len(chan[j]) :
              rest[j][i] = chan[j][m] /\ (j # k \/ m # 1)
      BY <1>4, <2>1
    <2> QED BY <1>3, <1>7, <2>2 DEF AtMostOne
  <1> QED BY <1>1, <1>2, <1>5, <1>6, <1>7 DEF rest

(* What a handler's reading and sending does to the packets of h.          *)
LEMMA ConsumeTokens ==
    ASSUME chan \in Frames, NEW k \in Links, NEW out \in Frames, Consume(k, out), NEW h
    PROVE  /\ None(out, h) => /\ None(chan, h) => None(chan', h)
                              /\ AtMostOne(chan, h) => AtMostOne(chan', h)
           /\ AtMostOne(out, h) /\ None(chan, h) => AtMostOne(chan', h)
           /\ AtMostOne(chan, h) /\ Token(Head(chan[k]), h) =>
                 /\ None(out, h) => None(chan', h)
                 /\ AtMostOne(out, h) => AtMostOne(chan', h)
  <1>1. chan[k] # << >>
    BY DEF Consume
  <1> DEFINE rest == [chan EXCEPT ![k] = Tail(@)]
  <1>2. /\ rest \in Frames /\ chan' = Then(rest, out)
        /\ None(chan, h) => None(rest, h)
        /\ AtMostOne(chan, h) => AtMostOne(rest, h)
        /\ AtMostOne(chan, h) /\ Token(Head(chan[k]), h) => None(rest, h)
    BY <1>1, RestTokens
  <1> HIDE DEF rest
  <1> QED BY <1>2, ThenTokens

(* The same for a daemon that only sends.                                  *)
LEMMA EmitTokens ==
    ASSUME chan \in Frames, NEW out \in Frames, Emit(out), NEW h
    PROVE  /\ None(out, h) => /\ None(chan, h) => None(chan', h)
                              /\ AtMostOne(chan, h) => AtMostOne(chan', h)
           /\ AtMostOne(out, h) /\ None(chan, h) => AtMostOne(chan', h)
  <1>1. chan' = Then(chan, out)
    BY DEF Emit, Then
  <1> QED BY <1>1, ThenTokens

(* A send along an entry is one packet, where interfaces have one address. *)
LEMMA AlongTokens ==
    ASSUME Aliased = {}, NEW n, NEW p \in Packet, NEW route, NEW h
    PROVE  /\ SendAlong(n, route, p) \in Frames
           /\ AtMostOne(SendAlong(n, route, p), h)
           /\ ~ Token(p, h) => None(SendAlong(n, route, p), h)
  <1> DEFINE out == SendAlong(n, route, p)
  <1>1. out \in Frames
    BY SendersType
  <1>2. ~ Token(p, h) => None(out, h)
    BY <1>1, AlongCarries, NoneCarried
  <1>3. AtMostOne(out, h)
    <2>1. \A j \in Links : Len(out[j]) # 0 =>
             j = [lan |-> route.lan, from |-> n, to |-> route.via] /\ Len(out[j]) = 1
      BY DEF SendAlong, send_ll_msg, Copies, Silence
    <2>2. \A j \in Links : Len(out[j]) \in Nat
      BY <1>1 DEF Frames
    <2> HIDE DEF out
    <2> QED BY <2>1, <2>2 DEF AtMostOne
  <1> QED BY <1>1, <1>2, <1>3

(* A broadcast of a RREQ is none, and nothing is none.                     *)
LEMMA OtherTokens ==
    ASSUME NEW n, NEW p \in Packet, NEW i, NEW h, ~ Token(p, h)
    PROVE  /\ broadcast_ll_msg(n, p, i) \in Frames /\ None(broadcast_ll_msg(n, p, i), h)
           /\ Silence \in Frames /\ None(Silence, h)
  <1>1. broadcast_ll_msg(n, p, i) \in Frames /\ Silence \in Frames
    BY SendersType
  <1>2. None(broadcast_ll_msg(n, p, i), h)
    <2> DEFINE out == broadcast_ll_msg(n, p, i)
    <2>1. ASSUME NEW j \in Links, NEW q \in Packet, Carries(out, j, q)
          PROVE  ~ Token(q, h)
      <3>1. q = p
        BY <2>1, BroadcastCarries
      <3> QED BY <3>1
    <2> HIDE DEF out
    <2> QED BY <1>1, <2>1, NoneCarried DEF out
  <1>3. None(Silence, h)
    BY DEF None, Silence
  <1> QED BY <1>1, <1>2, <1>3

-----------------------------------------------------------------------------
(* What a step of the daemons, the servers or the network does to one      *)
(* client's conversation.                                                  *)

HeldFor(n, h) == held[n] \in Packet /\ held[n].src = h

(* A discovery of h's is under way.                                        *)
Seeks(h) == \E j \in Links, q \in Packet :
               Carries(chan, j, q) /\ q.src = h /\ q.type # "DATA"

HeldLess(h) == \A n \in Nodes : HeldFor(n, h)' => HeldFor(n, h)
Kept(h) == UNCHANGED << route_discovered[h], un[h], al_client_addr[h] >>

(* The packet stays where it is, or goes on to the next node, or is lost.  *)
Fades(z) ==
    /\ None(chan, Home[z]) => None(chan', Home[z])
    /\ AtMostOne(chan, Home[z]) => AtMostOne(chan', Home[z])
    /\ HeldLess(Home[z]) /\ cli'[z] = cli[z]

(* It comes into being.                                                    *)
Begins(z) ==
    /\ None(chan, Home[z]) => AtMostOne(chan', Home[z])
    /\ HeldLess(Home[z]) /\ cli'[z] = cli[z]

(* It leaves the network, for n's server or for the client.                *)
Leaves(z) == 
    /\ ~ None(chan, Home[z])
    /\ AtMostOne(chan, Home[z]) => None(chan', Home[z])

ReachesServer(z) ==
    /\ Leaves(z) /\ cli'[z] = cli[z]
    /\ \E n \in Nodes : \A m \in Nodes :
          HeldFor(m, Home[z])' => m = n \/ HeldFor(m, Home[z])

ReachesClient(z) == Leaves(z) /\ HeldLess(Home[z]) /\ Len(cli'[z]) <= Len(cli[z]) + 1

(* It comes back from the server.                                          *)
ComesBack(z) ==
    /\ None(chan, Home[z]) => AtMostOne(chan', Home[z])
    /\ HeldLess(Home[z]) /\ cli'[z] = cli[z]
    /\ \E n \in Nodes : HeldFor(n, Home[z]) /\ ~ HeldFor(n, Home[z])'

Moves(z) ==
    LET h == Home[z]
    IN  \/ Fades(z) /\ (Kept(h) \/ HandleRequest(h))
        \/ /\ Begins(z) /\ HandleRequest(h) /\ Head(un[h]).forced = 0
           /\ Seeks(h)' => Seeks(h)
        \/ /\ Begins(z) /\ Seeks(h)
           /\ route_discovered[h] = 0 /\ route_discovered'[h] = 1
           /\ UNCHANGED << un[h], al_client_addr[h] >>
        \/ (ReachesServer(z) \/ ReachesClient(z) \/ ComesBack(z)) /\ Kept(h)

(* A handler that sends no DATA of the client's.                           *)
LEMMA PassesBy ==
    ASSUME TypeOK, NEW z \in Clients, NEW k \in Links, NEW out \in Frames,
           Consume(k, out), None(out, Home[z]), HandlerFrame
    PROVE  Moves(z)
  <1>1. chan \in Frames
    BY DEF TypeOK, Frames
  <1>2. /\ None(chan, Home[z]) => None(chan', Home[z])
        /\ AtMostOne(chan, Home[z]) => AtMostOne(chan', Home[z])
    BY <1>1, ConsumeTokens
  <1>3. HeldLess(Home[z]) /\ cli'[z] = cli[z] /\ Kept(Home[z])
    BY DEF HandlerFrame, session, sockets, HeldLess, HeldFor, Kept
  <1> QED BY <1>2, <1>3 DEF Moves, Fades

(* The RREQ handlers.                                                      *)
LEMMA RreqMoves ==
    ASSUME Aliased = {}, TypeOK, NEW z \in Clients, NEW k \in Links, RreqStep(k)
    PROVE  Moves(z) \/ pc'[k.to] = "down"
  <1> DEFINE n == k.to
             p == Head(chan[k])
             h == Home[z]
             table == Updated(k, p.dest)
  <1>1. Arrives(k, "RREQ")
    BY DEF RreqStep, RreqFlagged, RreqAtDest, RreqDuplicate, RreqFlood,
           RreqShortcut, RreqAtIntermediate
  <1>2. /\ n \in Nodes /\ p \in Packet /\ table \in Table /\ chan[k] # << >>
        /\ p.type = "RREQ"
        /\ get_index_from_ip(p.dest) \subseteq Addresses
    BY <1>1, FrameFacts DEF Arrives, Packet, Addresses
  <1>3. Onward(p) \in Packet /\ Onward(p).type = "RREQ"
    BY <1>2, Copied
  <1>4. CASE Consume(k, Silence) /\ HandlerFrame
    BY <1>2, <1>4, PassesBy, OtherTokens DEF Token
  <1>5. CASE RreqAtDest(k)
    <2> DEFINE out == SendAlong(n, table[p.src], AsRrep(p, 1))
    <2>1. Consume(k, out) /\ HandlerFrame
      BY <1>5 DEF RreqAtDest, AsRrep
    <2>2. AsRrep(p, 1) \in Packet /\ AsRrep(p, 1).type = "RREP"
      <3>1. p \in Packet /\ 1 \in Int /\ p.type # "DATA"
        BY <1>2
      <3> HIDE DEF p
      <3> QED BY <3>1, CopiedHops
    <2> HIDE DEF table
    <2>3. out \in Frames /\ None(out, h)
      BY <2>2, AlongTokens DEF Token
    <2> HIDE DEF out
    <2> QED BY <2>1, <2>3, PassesBy
  <1>6. CASE RreqFlood(k)
    <2> DEFINE out == broadcast_ll_msg(n, Onward(p), k.lan)
    <2>1. Consume(k, out) /\ HandlerFrame
      BY <1>6 DEF RreqFlood
    <2>2. out \in Frames /\ None(out, h)
      BY <1>3, OtherTokens DEF Token
    <2> HIDE DEF out
    <2> QED BY <2>1, <2>2, PassesBy
  <1>7. CASE RreqShortcut(k)
    <2> DEFINE rrep(key) == AsRrep(Onward(p), table[key].hop + 1)
               rreq(key) == AsAnswered(Onward(rrep(key)))
               first(key) == SendAlong(n, table[key], rrep(key))
               second(key) == broadcast_ll_msg(n, rreq(key), NoLan)
    <2>1. PICK key \in get_index_from_ip(p.dest) :
              IF entry_exists_for_src(table, key)
              THEN Consume(k, Then(first(key), second(key))) /\ HandlerFrame
              ELSE Exit(n)
      BY <1>7 DEF RreqShortcut, AsRrep, AsAnswered
    <2>2. CASE ~ entry_exists_for_src(table, key)
      BY <1>2, <2>1, <2>2 DEF Exit, TypeOK
    <2>3. CASE entry_exists_for_src(table, key)
      <3>1. table[key].hop + 1 \in Int
        BY <1>2, <2>3 DEF Table, Route, entry_exists_for_src
      <3>2. Consume(k, Then(first(key), second(key))) /\ HandlerFrame
        BY <2>1, <2>3
      <3> HIDE DEF table
      <3>3. rrep(key) \in Packet /\ rrep(key).type = "RREP"
        BY <1>3, <3>1, CopiedHops
      <3> HIDE DEF rrep
      <3>4. Onward(rrep(key)) \in Packet /\ Onward(rrep(key)).type = "RREP"
        BY <3>3, Copied
      <3>5. rreq(key) \in Packet /\ rreq(key).type = "RREQ"
        BY <3>4, Copied
      <3> HIDE DEF rreq
      <3>6. first(key) \in Frames /\ None(first(key), h)
        BY <3>3, AlongTokens DEF Token
      <3>7. second(key) \in Frames /\ None(second(key), h)
        BY <3>5, OtherTokens DEF Token
      <3> HIDE DEF first, second
      <3>8. Then(first(key), second(key)) \in Frames
            /\ None(Then(first(key), second(key)), h)
        BY <3>6, <3>7, ThenType, ThenTokens
      <3> QED BY <3>2, <3>8, PassesBy
    <2> QED BY <2>2, <2>3
  <1> QED
    BY <1>4, <1>5, <1>6, <1>7 DEF RreqStep, RreqFlagged, RreqDuplicate

(* The RREP handlers.                                                      *)
LEMMA RrepMoves ==
    ASSUME IpFits, Aliased = {}, TypeOK, NEW z \in Clients, NEW k \in Links, RrepStep(k)
    PROVE  Moves(z)
  <1> DEFINE n == k.to
             p == Head(chan[k])
             h == Home[z]
             keys == get_index_from_ip(p.dest)
  <1>0. Arrives(k, "RREP") /\ chan \in Frames
    BY DEF RrepStep, RrepAtSource, RrepForward, TypeOK, Frames
  <1>1. /\ n \in Nodes /\ p \in Packet /\ chan[k] # << >> /\ p.type = "RREP"
        /\ p.rrep_hop + 1 \in Int /\ chan \in Frames
    BY <1>0, FrameFacts DEF Arrives, Packet
  <1>2. CASE RrepForward(k)
    <2> DEFINE onward == WithHops(p, p.rrep_hop + 1)
    <2>1. PICK route : Consume(k, SendAlong(n, route, onward)) /\ HandlerFrame
      BY <1>2 DEF RrepForward, WithHops
    <2>2. onward \in Packet /\ onward.type = "RREP"
      BY <1>1, CopiedHops
    <2> HIDE DEF onward
    <2>3. SendAlong(n, route, onward) \in Frames /\ None(SendAlong(n, route, onward), h)
      BY <2>2, AlongTokens DEF Token
    <2> QED BY <2>1, <2>3, PassesBy
  <1>3. CASE RrepAtSource(k)
    <2>1. PICK route : Consume(k, IF route_discovered[n] = 0
                                  THEN SendAlong(n, route, AsData(p)) ELSE Silence)
      BY <1>3 DEF RrepAtSource, AsData
    <2> DEFINE out == IF route_discovered[n] = 0
                      THEN SendAlong(n, route, AsData(p)) ELSE Silence
    <2>2. /\ n = p.src /\ route_discovered' = [route_discovered EXCEPT ![n] = 1]
          /\ UNCHANGED << un, al_client_addr, held, cli >>
      BY <1>3 DEF RrepAtSource, FinishDiscovery, is_self, sockets
    <2>3. AsData(p) \in Packet /\ AsData(p).src = n
      BY <1>1, <2>2, Copied DEF Copy
    <2>4. ~ Token(p, h)
      BY <1>1 DEF Token
    <2>5. SendAlong(n, route, AsData(p)) \in Frames
          /\ AtMostOne(SendAlong(n, route, AsData(p)), h)
          /\ (n # h => None(SendAlong(n, route, AsData(p)), h))
      BY <2>3, AlongTokens DEF Token
    <2>6. Silence \in Frames /\ None(Silence, h) /\ AtMostOne(Silence, h)
      BY <1>1, <2>4, OtherTokens DEF None, AtMostOne
    <2>7. out \in Frames /\ Consume(k, out)
      BY <2>1, <2>5, <2>6
    <2>8. HeldLess(h) /\ cli'[z] = cli[z] /\ UNCHANGED << un[h], al_client_addr[h] >>
      BY <2>2 DEF HeldLess, HeldFor
    <2>9. route_discovered[h] \in {0, 1} /\ h \in Nodes
      BY SocketAssumption DEF TypeOK
    <2>10. route_discovered'[h] = IF h = n THEN 1 ELSE route_discovered[h]
      BY <2>2, <2>9 DEF TypeOK
    <2>11. CASE n # h \/ route_discovered[h] = 1
      <3>1. None(out, h)
        BY <2>5, <2>6, <2>11
      <3>2. Kept(h)
        BY <2>8, <2>10, <2>11 DEF Kept
      <3> HIDE DEF out
      <3> QED BY <1>1, <2>7, <2>8, <3>1, <3>2, ConsumeTokens DEF Moves, Fades
    <2>12. CASE n = h /\ route_discovered[h] = 0
      <3>1. AtMostOne(out, h)
        BY <2>5, <2>6
      <3>2. Seeks(h)
        <4>1. Carries(chan, k, p)
          BY <1>1, HeadCarried
        <4> QED BY <1>1, <2>2, <2>12, <4>1 DEF Seeks
      <3> HIDE DEF out
      <3> QED BY <1>1, <2>7, <2>8, <2>10, <2>12, <3>1, <3>2, ConsumeTokens DEF Moves, Begins
    <2> QED BY <2>9, <2>11, <2>12
  <1> QED BY <1>2, <1>3 DEF RrepStep

(* The DATA handlers.                                                      *)
LEMMA DataMoves ==
    ASSUME IpFits, Aliased = {}, TypeOK, AddressesKept, NEW z \in Clients, NEW k \in Links,
           DataStep(k)
    PROVE  Moves(z) \/ pc'[k.to] = "down"
  <1> DEFINE n == k.to
             p == Head(chan[k])
             h == Home[z]
  <1>1. /\ n \in Nodes /\ p \in Packet /\ chan[k] # << >> /\ p.type = "DATA"
        /\ chan \in Frames /\ h \in Nodes
    BY FrameFacts, SocketAssumption
    DEF DataStep, DataAtSource, DataAtDest, DataForward, Arrives, TypeOK, Frames
  <1>2. Silence \in Frames /\ None(Silence, h)
    <2>1. Silence \in Frames
      BY DEF Silence, Frames
    <2>2. None(Silence, h)
      BY DEF None, Silence
    <2> QED BY <2>1, <2>2
  <1>3. Token(p, h) => ~ None(chan, h)
    <2>1. chan[k] \in Seq(Packet)
      BY <1>1 DEF Frames
    <2>2. 1 \in 1 .. Len(chan[k]) /\ chan[k][1] = p
      BY <1>1, <2>1
    <2> QED BY <2>2 DEF None
  <1>4. CASE DataForward(k)
    <2>1. PICK route : Consume(k, SendAlong(n, route, p)) /\ HandlerFrame
      BY <1>4 DEF DataForward
    <2>2. /\ SendAlong(n, route, p) \in Frames /\ AtMostOne(SendAlong(n, route, p), h)
          /\ ~ Token(p, h) => None(SendAlong(n, route, p), h)
      BY <1>1, AlongTokens
    <2>3. CASE ~ Token(p, h)
      BY <2>1, <2>2, <2>3, PassesBy
    <2>4. CASE Token(p, h)
      <3>1. AtMostOne(chan, h) => AtMostOne(chan', h)
        BY <1>1, <2>1, <2>2, <2>4, ConsumeTokens
      <3>2. HeldLess(h) /\ cli'[z] = cli[z] /\ Kept(h)
        BY <2>1 DEF HandlerFrame, session, sockets, HeldLess, HeldFor, Kept
      <3> QED BY <1>3, <2>4, <3>1, <3>2 DEF Moves, Fades
    <2> QED BY <2>3, <2>4
  <1>5. CASE DataAtDest(k)
    <2>1. /\ Consume(k, Silence) /\ held' = [held EXCEPT ![n] = p]
          /\ cli' = cli /\ Kept(h)
      BY <1>5 DEF DataAtDest, session, Kept
    <2>2. CASE Token(p, h)
      <3>1. Leaves(z)
        BY <1>1, <1>2, <1>3, <2>1, <2>2, ConsumeTokens DEF Leaves
      <3>2. \A m \in Nodes : HeldFor(m, h)' => m = n \/ HeldFor(m, h)
        BY <2>1 DEF HeldFor, TypeOK
      <3> QED BY <1>1, <2>1, <3>1, <3>2 DEF Moves, ReachesServer
    <2>3. CASE ~ Token(p, h)
      <3>1. HeldLess(h)
        BY <1>1, <2>1, <2>3 DEF HeldLess, HeldFor, TypeOK, Token
      <3> QED BY <1>1, <1>2, <2>1, <3>1, ConsumeTokens DEF Moves, Fades
    <2> QED BY <2>2, <2>3
  <1>6. CASE DataAtSource(k)
    <2>1. Consume(k, Silence) /\ n = p.src
      BY <1>6 DEF DataAtSource, is_self
    <2>2. CASE ~ Reachable(n, al_client_addr[n])
      BY <1>1, <1>6, <2>2 DEF DataAtSource, Exit, TypeOK
    <2>3. CASE Reachable(n, al_client_addr[n])
      <3>1. SendToApp(n, al_client_addr[n], ReplyTo(p)) /\ held' = held /\ Kept(h)
        BY <1>6, <2>3 DEF DataAtSource, session, Kept
      <3>2. HeldLess(h)
        BY <3>1 DEF HeldLess, HeldFor
      <3>3. CASE n # h
        <4>1. al_client_addr[n] \in ClientAddr => al_client_addr[n][1] # z
          BY <1>1, <3>3 DEF AddressesKept
        <4>2. cli'[z] = cli[z]
          BY <3>1, <4>1 DEF SendToApp, TypeOK
        <4> QED BY <1>1, <1>2, <2>1, <3>1, <3>2, <4>2, ConsumeTokens DEF Moves, Fades
      <3>4. CASE n = h
        <4>1. Leaves(z)
          BY <1>1, <1>2, <1>3, <2>1, <3>4, ConsumeTokens DEF Leaves, Token
        <4>2. cli \in [Clients -> Seq(Reply)]
          BY DEF TypeOK
        <4>3. \E r : cli'[z] = cli[z] \/ cli'[z] = Append(cli[z], r)
          BY <3>1, <4>2 DEF SendToApp
        <4>4. Len(cli'[z]) <= Len(cli[z]) + 1
          BY <4>2, <4>3
        <4> QED BY <3>1, <3>2, <4>1, <4>4 DEF Moves, ReachesClient
      <3> QED BY <3>3, <3>4
    <2> QED BY <2>2, <2>3
  <1> QED BY <1>4, <1>5, <1>6 DEF DataStep

(* The wait for the server.                                                *)
LEMMA WaitMoves ==
    ASSUME IpFits, Aliased = {}, TypeOK, ServerTurn, Steady, NEW z \in Clients,
           NEW n \in Nodes, ServerReply(n) \/ ServerTimeout(n)
    PROVE  Moves(z)
  <1> DEFINE h == Home[z]
  <1>1. /\ held' = [held EXCEPT ![n] = NoPacket] /\ cli' = cli /\ pc[n] \in {"await", "awaitUnix"}
        /\ UNCHANGED << route_discovered, al_client_addr >> /\ h \in Nodes
    BY SocketAssumption DEF ServerReply, ServerTimeout, AfterWait, session, sockets
  <1>2. n # h
    BY <1>1 DEF ServerTurn, Turn, Homes
  <1>3. un'[h] = un[h]
    <2>1. un \in [Nodes -> Seq(Datagram)]
      BY DEF TypeOK
    <2>2. un' = un \/ un' = [un EXCEPT ![n] = Tail(@)]
      BY DEF ServerReply, ServerTimeout, sockets
    <2> QED BY <1>1, <1>2, <2>1, <2>2
  <1>4. HeldLess(h) /\ Kept(h) /\ cli'[z] = cli[z]
    BY <1>1, <1>3, NoPacketHeld DEF HeldLess, HeldFor, Kept, TypeOK
  <1>5. CASE ServerTimeout(n)
    <2>1. chan' = chan
      BY <1>5 DEF ServerTimeout
    <2> QED BY <1>4, <2>1 DEF Moves, Fades
  <1>6. CASE ServerReply(n)
    <2> DEFINE payload == IF Head(un[n]).kind = "time" THEN n ELSE NotTime
               reply == [held[n] EXCEPT !.src_dest = -1, !.payload = payload]
    <2>1. PICK route : Emit(SendAlong(n, route, reply))
      BY <1>6 DEF ServerReply
    <2>2. held[n] \in Packet /\ payload \in Payloads /\ chan \in Frames
      BY <1>1 DEF TypeOK, Payloads, Frames
    <2> HIDE DEF payload
    <2>3. reply \in Packet
      BY <2>2, Rewritten, Zenon
    <2>4. reply.src = held[n].src
      BY <2>2 DEF Packet
    <2> HIDE DEF reply
    <2>5. /\ SendAlong(n, route, reply) \in Frames /\ AtMostOne(SendAlong(n, route, reply), h)
          /\ held[n].src # h => None(SendAlong(n, route, reply), h)
      BY <2>3, <2>4, AlongTokens DEF Token
    <2>6. CASE held[n].src # h
      BY <1>4, <2>1, <2>2, <2>5, <2>6, EmitTokens DEF Moves, Fades
    <2>7. CASE held[n].src = h
      <3>1. HeldFor(n, h) /\ ~ HeldFor(n, h)'
        BY <1>1, <2>2, <2>7, NoPacketHeld DEF HeldFor, TypeOK
      <3>2. None(chan, h) => AtMostOne(chan', h)
        BY <2>1, <2>2, <2>5, EmitTokens
      <3> QED BY <1>4, <3>1, <3>2 DEF Moves, ComesBack
    <2> QED BY <2>6, <2>7
  <1> QED BY <1>5, <1>6

(* What the daemon sends for a client: DATA only for one of its own, and   *)
(* when no new discovery is asked for.                                     *)
LEMMA RequestTokens ==
    ASSUME Aliased = {}, TypeOK, NEW n \in Nodes, HandleRequest(n), NEW h
    PROVE  \E out \in Frames :
              /\ Emit(out) /\ AtMostOne(out, h)
              /\ \/ None(out, h)
                 \/ /\ h = n /\ \E req \in Requests(Head(un[n])) : req.forced = 0
                    /\ \A j \in Links : \A q : Carries(out, j, q) => q.type = "DATA"
  <1> DEFINE m == Head(un[n])
  <1>1. un[n] # << >>
    BY DEF HandleRequest
  <1>2. PICK req \in Requests(m) : \E key \in get_index_from_ip(req.dest) :
            OldRoute(n, req, key) \/ Discover(n, req, key)
    BY DEF HandleRequest
  <1>3. PICK key \in get_index_from_ip(req.dest) :
            OldRoute(n, req, key) \/ Discover(n, req, key)
    BY <1>2
  <1>4. req.dest \in Addresses
    <2>1. m \in Datagram
      BY <1>1 DEF TypeOK
    <2> QED BY <2>1, OdrAssumption DEF Requests, Datagram, Addresses
  <1>5. running_broadcast_no[n] \in Int /\ NotTime \in Payloads
    BY DEF TypeOK, Payloads
  <1>6. CASE OldRoute(n, req, key)
    <2> DEFINE data(hops) ==
                 [type |-> "DATA", src |-> n, dest |-> req.dest,
                  rreq_hop |-> hops[1], rrep_hop |-> hops[2], bid |-> 0,
                  rrep_sent |-> 0, src_dest |-> 1, payload |-> NotTime]
               out(hops) == SendAlong(n, rtbl[n][key], data(hops))
    <2>1. PICK hops \in LeftoverHops(n) : Emit(out(hops))
      BY <1>6 DEF OldRoute
    <2>2. hops[1] \in Int /\ hops[2] \in Int
      <3>1. CASE running_broadcast_no[n] = 1
        BY <3>1, OdrAssumption DEF LeftoverHops
      <3>2. CASE running_broadcast_no[n] # 1
        <4>1. hops = << 1, -1 >>
          BY <3>2 DEF LeftoverHops
        <4> QED BY <4>1
      <3> QED BY <3>1, <3>2
    <2>3. data(hops) \in Packet
      BY <1>4, <1>5, <2>2 DEF Packet
    <2>4. data(hops).src = n /\ data(hops).type = "DATA"
      OBVIOUS
    <2> HIDE DEF data
    <2>5. /\ out(hops) \in Frames /\ AtMostOne(out(hops), h)
          /\ ~ Token(data(hops), h) => None(out(hops), h)
      BY <2>3, AlongTokens
    <2>6. req.forced = 0
      BY <1>6 DEF OldRoute
    <2>7. \A j \in Links : \A q : Carries(out(hops), j, q) => q.type = "DATA"
      BY <2>4, AlongCarries
    <2> QED BY <1>2, <2>1, <2>4, <2>5, <2>6, <2>7 DEF Token
  <1>7. CASE Discover(n, req, key)
    <2> DEFINE rreq ==
                 [type |-> "RREQ", src |-> n, dest |-> req.dest,
                  rreq_hop |-> 1, rrep_hop |-> -1, bid |-> running_broadcast_no[n],
                  rrep_sent |-> 0, src_dest |-> 0, payload |-> NotTime]
               out == broadcast_ll_msg(n, rreq, NoLan)
    <2>1. Emit(out)
      BY <1>7 DEF Discover
    <2>2. rreq \in Packet
      BY <1>4, <1>5 DEF Packet
    <2>3. rreq.type = "RREQ"
      OBVIOUS
    <2> HIDE DEF rreq
    <2>4. out \in Frames /\ None(out, h)
      BY <2>2, <2>3, OtherTokens DEF Token
    <2>5. AtMostOne(out, h)
      BY <2>4 DEF None, AtMostOne
    <2> QED BY <2>1, <2>4, <2>5
  <1> QED BY <1>3, <1>6, <1>7

(* A client's request.                                                     *)
LEMMA RequestMoves ==
    ASSUME Aliased = {}, TypeOK, AddressesKept, NEW z \in Clients, NEW n \in Nodes,
           HandleRequest(n)
    PROVE  Moves(z)
  <1> DEFINE h == Home[z]
  <1>1. PICK out \in Frames :
              /\ Emit(out) /\ AtMostOne(out, h)
              /\ \/ None(out, h)
                 \/ /\ h = n /\ \E req \in Requests(Head(un[n])) : req.forced = 0
                    /\ \A j \in Links : \A q : Carries(out, j, q) => q.type = "DATA"
    BY RequestTokens
  <1>2. /\ chan \in Frames /\ h \in Nodes /\ HeldLess(h) /\ cli'[z] = cli[z]
        /\ un[n] # << >>
    BY SocketAssumption DEF HandleRequest, HeldLess, HeldFor, TypeOK, Frames
  <1>3. CASE n # h
    <2>1. un'[h] = un[h]
      BY <1>2, <1>3 DEF HandleRequest, TypeOK
    <2>2. route_discovered'[h] = route_discovered[h]
      BY <1>2, <1>3 DEF HandleRequest, TypeOK
    <2>3. al_client_addr'[h] = al_client_addr[h]
      BY <1>2, <1>3 DEF HandleRequest, KeepClient, TypeOK
    <2> QED BY <1>1, <1>2, <1>3, <2>1, <2>2, <2>3, EmitTokens DEF Moves, Fades, Kept
  <1>4. CASE None(out, h) /\ n = h
    BY <1>1, <1>2, <1>4, EmitTokens DEF Moves, Fades
  <1>5. ASSUME NEW req \in Requests(Head(un[n])), req.forced = 0, n = h,
               \A j \in Links : \A q : Carries(out, j, q) => q.type = "DATA"
        PROVE  Moves(z)
    <2>1. un[n] \in Seq(Datagram)
      BY DEF TypeOK
    <2>2. 1 \in 1 .. Len(un[n]) /\ un[n][1] = Head(un[n])
      BY <1>2, <2>1
    <2>3. Heard(n, Head(un[n]))
      BY <2>2 DEF AddressesKept
    <2>4. Head(un[n]).kind = "request"
      BY <1>5, <2>3 DEF Heard, Homes
    <2>5. Head(un[n]).forced = 0
      BY <1>5, <2>4 DEF Requests
    <2>6. Seeks(h)' => Seeks(h)
      <3>1. \A j \in Links, q \in Packet :
               Carries(chan', j, q) /\ q.type # "DATA" => Carries(chan, j, q)
        BY <1>1, <1>2, <1>5, EmitCarries
      <3> QED BY <3>1 DEF Seeks, Carries
    <2> QED BY <1>1, <1>2, <1>5, <2>5, <2>6, EmitTokens DEF Moves, Begins
  <1> QED BY <1>1, <1>3, <1>4, <1>5

(* All that a step of the daemons, the servers or the network does to it.  *)
LEMMA NetworkMoves ==
    ASSUME Sound, Aliased = {}, Mortal = {}, TypeOK, AddressesKept, ServerTurn,
           \/ \E n \in Nodes : Daemon(n) \/ Serves(n)
           \/ Environment,
           \A n \in Nodes : pc'[n] # "down",
           NEW z \in Clients
    PROVE  Moves(z)
  <1> DEFINE h == Home[z]
  <1>1. /\ chan \in Frames /\ h \in Nodes /\ IpFits /\ ServerTurn /\ Steady
        /\ Silence \in Frames /\ None(Silence, h)
    <2>1. Silence \in Frames
      BY DEF Silence, Frames
    <2>2. None(Silence, h)
      BY DEF None, Silence
    <2> QED BY <2>1, <2>2, SocketAssumption DEF Sound, Steady, TypeOK, Frames
  <1>2. CASE UNCHANGED << chan, held, route_discovered, al_client_addr, un[h], cli[z] >>
    BY <1>2 DEF Moves, Fades, Kept, HeldLess, HeldFor, None, AtMostOne
  <1>3. ASSUME NEW k \in Links, Consume(k, Silence),
               UNCHANGED << held, route_discovered, al_client_addr, un, cli >>
        PROVE  Moves(z)
    <2>1. /\ None(chan, h) => None(chan', h)
          /\ AtMostOne(chan, h) => AtMostOne(chan', h)
      BY <1>1, <1>3, ConsumeTokens
    <2> QED BY <1>3, <2>1 DEF Moves, Fades, Kept, HeldLess, HeldFor
  <1>4. ASSUME NEW n \in Nodes, Daemon(n)
        PROVE  Moves(z)
    <2>1. ASSUME NEW k \in Links, process_pack(k)
          PROVE  Moves(z)
      <3>1. pc'[k.to] # "down"
        BY LinkType
      <3>2. CASE DropExpired(k)
        BY <1>3, <3>2 DEF DropExpired, HandlerFrame, session, sockets
      <3> QED BY <1>1, <2>1, <3>1, <3>2, RreqMoves, RrepMoves, DataMoves DEF process_pack
    <2> QED BY <1>1, <1>4, <2>1, WaitMoves, RequestMoves DEF Daemon, OdrStep
  <1>5. ASSUME NEW n \in Nodes, Serves(n)
        PROVE  Moves(z)
    <2>1. n # h
      BY <1>5 DEF Serves, Serve, Sound, Apart, Homes
    <2>2. un \in [Nodes -> Seq(Datagram)]
      BY DEF TypeOK
    <2>3. un'[h] = un[h]
      BY <1>1, <1>5, <2>1, <2>2 DEF Serves, Serve
    <2> QED BY <1>2, <1>5, <2>3 DEF Serves, Serve, odrVars, session
  <1>6. CASE Environment
    <2>1. CASE \E k \in Links : Unheard(k) \/ Lose(k)
      BY <1>3, <2>1 DEF Unheard, Lose, odrVars, session, sockets
    <2>2. CASE (\E n \in Nodes : Start(n)) \/ Tick
      BY <1>2, <2>2 DEF Start, Tick, session, sockets
    <2> QED BY <1>6, <2>1, <2>2 DEF Environment
  <1> QED BY <1>4, <1>5, <1>6

-----------------------------------------------------------------------------
(* One conversation of each client.                                        *)

(* What waits for a server is DATA.                                        *)
HeldData == \A n \in Nodes : held[n] \in Packet => held[n].type = "DATA"

(* No DATA packet of the client's is anywhere.                             *)
NoData(z) ==
    /\ None(chan, Home[z]) /\ cli[z] = << >>
    /\ \A n \in Nodes : ~ HeldFor(n, Home[z])

(* There is one at most: on the network, with a server or a reply.         *)
OnePlace(z) ==
    LET h == Home[z]
    IN  /\ AtMostOne(chan, h) /\ Len(cli[z]) <= 1
        /\ \A m, n \in Nodes : HeldFor(m, h) /\ HeldFor(n, h) => m = n
        /\ None(chan, h) \/ (cli[z] = << >> /\ \A n \in Nodes : ~ HeldFor(n, h))
        /\ cli[z] = << >> \/ \A n \in Nodes : ~ HeldFor(n, h)

(* While there is one, nothing can make another: no request is unread, and *)
(* if RREQs or RREPs of the client's still go round, route_discovered      *)
(* tells their source to make nothing of them.  And a reply that comes     *)
(* finds the address of a client.                                          *)
OneConversation(z) ==
    LET h == Home[z]
    IN  /\ OnePlace(z)
        /\ ~ NoData(z) => /\ Waits(z) /\ un[h] = << >>
                          /\ route_discovered[h] = 1 \/ ~ Seeks(h)
        /\ Seeks(h) /\ route_discovered[h] = 0 => Waits(z) /\ un[h] = << >>
        /\ cpc[z] = "prompt" /\ sock[z] = 0 => ~ Seeks(h)
        /\ un[h] # << >> => /\ Waits(z) /\ Len(un[h]) = 1
                            /\ Head(un[h]).forced = 0 => ~ Seeks(h)
        /\ (NoData(z) /\ ~ Seeks(h)) \/ al_client_addr[h] \in ClientAddr

(* Every daemon runs, and every client has one conversation.               *)
Conversations ==
    /\ \A n \in Nodes : Up(n)
    /\ HeldData
    /\ \A z \in Clients : OneConversation(z)

(* HeldData is inductive.                                                  *)
LEMMA HeldDataStep ==
    ASSUME TypeOK, HeldData, [Next]_vars
    PROVE  HeldData'
  BY HeldStep DEF HeldData

(* Only a request makes RREQs where no RREQ and no RREP was.               *)
LEMMA SeeksStep ==
    ASSUME TypeOK, HeldData, [Next]_vars, NEW h, Seeks(h)'
    PROVE  Seeks(h) \/ HandleRequest(h)
  <1>1. PICK j \in Links, q \in Packet : Carries(chan', j, q) /\ q.src = h /\ q.type # "DATA"
    BY DEF Seeks, Carries
  <1>2. CASE Carries(chan, j, q)
    BY <1>1, <1>2 DEF Seeks
  <1>3. CASE SentOver(j, q)
    <2>1. j.from \in Nodes
      BY LinkType
    <2>2. ASSUME NEW k \in Links, NEW p \in Packet, Carries(chan, k, p), Copy(q, p)
          PROVE  Seeks(h)
      <3>1. p.src = h /\ p.type # "DATA"
        BY <1>1, <2>2 DEF Copy
      <3> QED BY <2>2, <3>1 DEF Seeks
    <2>3. ~ (held[j.from] \in Packet /\ q.type = held[j.from].type)
      BY <1>1, <2>1 DEF HeldData
    <2> QED BY <1>1, <1>3, <2>2, <2>3 DEF SentOver
  <1> QED BY <1>1, <1>2, <1>3, NextSent

(* No daemon ends: only a packet of its own client's could make it, and    *)
(* that client still has its socket.                                       *)
LEMMA StaysUp ==
    ASSUME Plain, TypeOK, AddressesKept, ServerTurn, Conversations, [Next]_vars,
           NEW n \in Nodes
    PROVE  Up(n)'
  <1> SUFFICES ASSUME pc[n] # "down", pc'[n] = "down"
               PROVE  FALSE
    BY DEF Up, Conversations
  <1>1. Ends(n)
    BY NextLocal
    DEF LocalStep, local, ReadsFrame, AsksServer, EndsWait, ReadsRequest, Starts,
        IsAnswered, IsAsked
  <1>2. PICK k \in Links : k.to = n /\ chan[k] # << >> /\ Fatal(n, Head(chan[k]))
    BY <1>1 DEF Ends, Plain
  <1> DEFINE p == Head(chan[k])
  <1>3. p \in Packet /\ Carries(chan, k, p)
    BY <1>2, FrameFacts, HeadCarried DEF TypeOK, Frames
  <1>4. Meant(p) /\ p.src \in Homes
    BY <1>3 DEF AddressesKept, ServerTurn, Steady, Plain
  <1>5. p.dest \in Nodes
    BY <1>4, MeantForServer DEF Plain
  <1>6. p.src = n /\ p.type = "DATA" /\ ~ Reachable(n, al_client_addr[n])
    BY <1>2, <1>5 DEF Fatal, is_self, Plain, Sound
  <1>7. PICK z \in Clients : Home[z] = n
    BY <1>4, <1>6 DEF Homes
  <1>8. ~ None(chan, n)
    BY <1>3, <1>6 DEF None, Carries, Token
  <1>9. Waits(z) /\ al_client_addr[n] \in ClientAddr
    BY <1>7, <1>8 DEF Conversations, OneConversation, NoData
  <1>10. sock[z] # 0
    BY <1>9 DEF TypeOK, Waits
  <1>11. Home[al_client_addr[n][1]] = n /\ al_client_addr[n][1] \in Clients
    BY <1>9 DEF AddressesKept, ClientAddr
  <1>12. al_client_addr[n][1] = z
    BY <1>7, <1>11 DEF Plain
  <1> QED BY <1>6, <1>9, <1>10, <1>12 DEF Reachable

(* A queue of one, when it has been taken.                                 *)
LEMMA LastTaken ==
    ASSUME NEW S, NEW s \in Seq(S), s # << >>, Len(s) <= 1
    PROVE  Tail(s) = << >>
  <1>1. Len(s) = 1
    <2>1. Len(s) \in Nat /\ Len(s) # 0
      OBVIOUS
    <2> QED BY <2>1
  <1>2. Tail(s) \in Seq(S)
    OBVIOUS
  <1>3. Len(Tail(s)) = 0
    BY <1>1
  <1> QED BY <1>2, <1>3

(* A step of the daemons, the servers or the network.                      *)
LEMMA NetworkKeeps ==
    ASSUME Plain, TypeOK, AddressesKept, HeldData, NEW z \in Clients, OneConversation(z),
           [Next]_vars, Moves(z), UNCHANGED << clientVars, sock >>
    PROVE  OneConversation(z)'
  <1> DEFINE h == Home[z]
  <1>1. /\ Waits(z)' = Waits(z) /\ cpc'[z] = cpc[z] /\ sock'[z] = sock[z]
        /\ Waits(z) => cpc[z] # "prompt"
    BY DEF clientVars, Waits
  <1>2. Seeks(h)' => Seeks(h) \/ HandleRequest(h)
    BY SeeksStep
  <1>3. h \in Nodes /\ un[h] \in Seq(Datagram) /\ route_discovered[h] \in {0, 1}
        /\ cli[z] \in Seq(Reply)
    BY SocketAssumption DEF TypeOK
  <1>4. ASSUME HandleRequest(h)
        PROVE  /\ NoData(z) /\ Waits(z) /\ (Head(un[h]).forced = 0 => ~ Seeks(h))
               /\ un'[h] = << >> /\ route_discovered'[h] = 0
               /\ al_client_addr'[h] \in ClientAddr
    <2>1. un[h] # << >> /\ un'[h] = Tail(un[h]) /\ route_discovered'[h] = 0
          /\ al_client_addr'[h] = Head(un[h]).from
      BY <1>3, <1>4 DEF HandleRequest, KeepClient, TypeOK
    <2>2. /\ NoData(z) /\ Waits(z) /\ (Head(un[h]).forced = 0 => ~ Seeks(h))
          /\ Len(un[h]) = 1
      BY <2>1 DEF OneConversation
    <2>3. un'[h] = << >>
      <3>1. un[h] \in Seq(Datagram) /\ un[h] # << >> /\ Len(un[h]) <= 1
        BY <1>3, <2>1, <2>2
      <3>2. Tail(un[h]) = << >>
        BY <3>1, LastTaken
      <3> QED BY <2>1, <3>2
    <2>4. 1 \in 1 .. Len(un[h]) /\ un[h][1] = Head(un[h]) /\ Head(un[h]) \in Datagram
      BY <1>3, <2>1
    <2>5. Heard(h, Head(un[h]))
      BY <1>3, <2>4 DEF AddressesKept
    <2>6. Head(un[h]).from \in ClientAddr
      BY <2>4, <2>5 DEF Heard, Homes, Datagram
    <2> QED BY <2>1, <2>2, <2>3, <2>6
  <1>5. CASE Fades(z) /\ HandleRequest(h)
    <2>1. NoData(z)'
      BY <1>4, <1>5 DEF Fades, HeldLess, NoData
    <2>2. OnePlace(z)'
      BY <1>3, <1>4, <1>5 DEF Fades, HeldLess, NoData, OnePlace, None, AtMostOne
    <2> QED BY <1>1, <1>4, <1>5, <2>1, <2>2 DEF OneConversation
  <1>6. CASE Fades(z) /\ Kept(h) /\ ~ HandleRequest(h)
    <2>1. NoData(z) => NoData(z)'
      BY <1>6 DEF Fades, HeldLess, NoData
    <2>2. OnePlace(z)'
      BY <1>6 DEF OneConversation, Fades, HeldLess, OnePlace
    <2> QED BY <1>1, <1>2, <1>6, <2>1, <2>2 DEF OneConversation, Kept
  <1>7. CASE Begins(z) /\ HandleRequest(h) /\ Head(un[h]).forced = 0 /\ (Seeks(h)' => Seeks(h))
    <2>1. OnePlace(z)'
      BY <1>3, <1>4, <1>7 DEF Begins, HeldLess, NoData, OnePlace
    <2> QED BY <1>1, <1>4, <1>7, <2>1 DEF OneConversation
  <1>8. CASE /\ Begins(z) /\ Seeks(h) /\ route_discovered[h] = 0 /\ route_discovered'[h] = 1
             /\ UNCHANGED << un[h], al_client_addr[h] >>
    <2>1. NoData(z) /\ Waits(z) /\ un[h] = << >> /\ al_client_addr[h] \in ClientAddr
      BY <1>8 DEF OneConversation
    <2>2. OnePlace(z)'
      BY <1>3, <1>8, <2>1 DEF Begins, HeldLess, NoData, OnePlace
    <2> QED BY <1>1, <1>8, <2>1, <2>2 DEF OneConversation
  <1>9. CASE (ReachesServer(z) \/ ReachesClient(z) \/ ComesBack(z)) /\ Kept(h)
    <2>1. ~ NoData(z)
      BY <1>9 DEF ReachesServer, ReachesClient, ComesBack, Leaves, NoData
    <2>2. /\ Waits(z) /\ un[h] = << >> /\ (route_discovered[h] = 1 \/ ~ Seeks(h))
          /\ al_client_addr[h] \in ClientAddr /\ OnePlace(z)
      BY <2>1 DEF OneConversation
    <2>3. Seeks(h)' => Seeks(h)
      BY <1>2, <2>2 DEF HandleRequest
    <2>4. ASSUME ReachesServer(z)
          PROVE  OnePlace(z)'
      BY <1>3, <2>2, <2>4 DEF ReachesServer, Leaves, OnePlace, None, AtMostOne
    <2>5. ASSUME ReachesClient(z)
          PROVE  OnePlace(z)'
      <3>1. cli[z] = << >> /\ Len(cli'[z]) <= 1
        BY <1>3, <2>2, <2>5 DEF ReachesClient, Leaves, OnePlace
      <3> QED BY <2>2, <2>5, <3>1 DEF ReachesClient, Leaves, HeldLess, OnePlace, None, AtMostOne
    <2>6. ASSUME ComesBack(z)
          PROVE  OnePlace(z)'
      BY <2>2, <2>6 DEF ComesBack, HeldLess, OnePlace
    <2>7. OnePlace(z)'
      BY <1>9, <2>4, <2>5, <2>6
    <2> QED BY <1>1, <1>9, <2>2, <2>3, <2>7 DEF OneConversation, Kept
  <1> QED BY <1>5, <1>6, <1>7, <1>8, <1>9 DEF Moves

(* A step of another client is nothing to this one.                        *)
LEMMA OthersKeep ==
    ASSUME Plain, TypeOK, NEW y \in Clients, NEW z \in Clients, y # z, OneConversation(z),
           Asks(y) \/ Receives(y) \/ TimesOut(y) \/ Quits(y)
    PROVE  OneConversation(z)'
  <1> DEFINE h == Home[z]
  <1>1. /\ UNCHANGED << chan, held, route_discovered, al_client_addr >>
        /\ h # Home[y] /\ h \in Nodes
    BY SocketAssumption
    DEF Plain, Asks, Receives, TimesOut, Quits, odrVars, session
  <1>2. /\ un \in [Nodes -> Seq(Datagram)] /\ cli \in [Clients -> Seq(Reply)]
        /\ sock \in [Clients -> 0 .. MaxRequests] /\ cpc \in [Clients -> CPCs]
    BY DEF TypeOK
  <1>3. un'[h] = un[h]
    BY <1>1, <1>2
    DEF Asks, Receives, TimesOut, Quits, Ask, Receive, ReceiveAgain, Timeout, GiveUp, Quit,
        AskAgain, MsgSend
  <1>4. cli'[z] = cli[z] /\ sock'[z] = sock[z] /\ cpc'[z] = cpc[z]
    <2>1. CASE Asks(y)
      BY <1>2, <2>1 DEF Asks, Ask, Leave
    <2>2. CASE Receives(y)
      BY <1>2, <2>2 DEF Receives, Receive, ReceiveAgain, AskAgain, Leave
    <2>3. CASE TimesOut(y)
      BY <1>2, <2>3 DEF TimesOut, Timeout, GiveUp, AskAgain, Leave
    <2>4. CASE Quits(y)
      BY <1>2, <2>4 DEF Quits, Quit, Leave
    <2> QED BY <2>1, <2>2, <2>3, <2>4
  <1> QED
    BY <1>1, <1>3, <1>4
    DEF OneConversation, OnePlace, NoData, Waits, None, AtMostOne, HeldFor, Seeks, Carries

(* What a client that asks sends, where nothing is unread.                 *)
LEMMA OnlyRequest ==
    ASSUME TypeOK, NEW z \in Clients, NEW i, NEW d \in Nodes, NEW f \in {0, 1},
           un[Home[z]] = << >>, MsgSend(z, i, d, f)
    PROVE  Len(un'[Home[z]]) = 1 /\ Head(un'[Home[z]]).forced = f
  <1> DEFINE m == [kind |-> "request", from |-> << z, i >>, dest |-> d, forced |-> f]
  <1>1. un'[Home[z]] = Append(un[Home[z]], m)
    BY SocketAssumption DEF MsgSend, TypeOK
  <1>2. m.forced = f
    OBVIOUS
  <1> HIDE DEF m
  <1>3. un'[Home[z]] = << m >>
    BY <1>1
  <1> QED BY <1>2, <1>3

(* The step of the client itself.                                          *)
LEMMA OwnKeeps ==
    ASSUME Plain, TypeOK, Conversations, NEW z \in Clients,
           Asks(z) \/ Receives(z) \/ TimesOut(z) \/ Quits(z)
    PROVE  OneConversation(z)'
  <1> DEFINE h == Home[z]
  <1>1. /\ UNCHANGED << chan, held, route_discovered, al_client_addr >>
        /\ h \in Nodes /\ Up(h) /\ OneConversation(z) /\ target[z] \in Nodes
    BY SocketAssumption
    DEF Conversations, Asks, Receives, TimesOut, Quits, odrVars, session, TypeOK
  <1>2. /\ un \in [Nodes -> Seq(Datagram)] /\ cli \in [Clients -> Seq(Reply)]
        /\ sock \in [Clients -> 0 .. MaxRequests] /\ cpc \in [Clients -> CPCs]
        /\ un[h] \in Seq(Datagram) /\ route_discovered[h] \in {0, 1}
    BY <1>1 DEF TypeOK
  <1>3. /\ None(chan, h)' = None(chan, h) /\ AtMostOne(chan, h)' = AtMostOne(chan, h)
        /\ Seeks(h)' = Seeks(h) /\ \A n \in Nodes : HeldFor(n, h)' = HeldFor(n, h)
    BY <1>1 DEF None, AtMostOne, HeldFor, Seeks, Carries
  <1>4. ASSUME None(chan, h), \A n \in Nodes : ~ HeldFor(n, h), cli'[z] = << >>
        PROVE  NoData(z)' /\ OnePlace(z)'
    BY <1>3, <1>4 DEF NoData, OnePlace, None, AtMostOne
  (* The client sends its request, or sends it again. *)
  <1>5. ASSUME None(chan, h), \A n \in Nodes : ~ HeldFor(n, h), cli'[z] = << >>,
               Len(un'[h]) = 1, cpc'[z] \in {"wait1", "wait2"},
               Head(un'[h]).forced # 0 \/ ~ Seeks(h),
               route_discovered[h] = 1 \/ ~ Seeks(h),
               ~ Seeks(h) \/ al_client_addr[h] \in ClientAddr
        PROVE  OneConversation(z)'
    <2>1. NoData(z)' /\ OnePlace(z)'
      BY <1>4, <1>5
    <2> QED BY <1>1, <1>3, <1>5, <2>1 DEF OneConversation, Waits
  (* It has no more to ask. *)
  <1>6. ASSUME None(chan, h), \A n \in Nodes : ~ HeldFor(n, h), cli'[z] = << >>,
               un'[h] = << >>, cpc'[z] = "gone" \/ sock'[z] # 0,
               route_discovered[h] = 1 \/ ~ Seeks(h),
               ~ Seeks(h) \/ al_client_addr[h] \in ClientAddr
        PROVE  OneConversation(z)'
    <2>1. NoData(z)' /\ OnePlace(z)'
      BY <1>4, <1>6
    <2> QED BY <1>1, <1>3, <1>6, <2>1 DEF OneConversation
  <1>7. CASE Asks(z)
    <2>1. PICK d \in Targets[z] :
              /\ MsgSend(z, sock[z] + 1, d, 0) /\ cli' = [cli EXCEPT ![z] = << >>]
              /\ cpc' = [cpc EXCEPT ![z] = "wait1"]
      BY <1>1, <1>7 DEF Asks, Ask
    <2>2. cpc[z] = "prompt" /\ sock[z] = 0
      BY <1>2, <1>7 DEF Asks, Ask, Plain
    <2>3. NoData(z) /\ un[h] = << >> /\ ~ Seeks(h)
      BY <1>1, <2>2 DEF OneConversation, Waits
    <2>4. d \in Nodes
      BY ClientAssumption
    <2>5. Len(un'[h]) = 1
      BY <2>1, <2>3, <2>4, OnlyRequest
    <2> QED BY <1>2, <1>5, <2>1, <2>3, <2>5 DEF NoData
  <1>8. CASE Receives(z)
    <2>1. /\ cpc[z] \in {"wait1", "wait2"} /\ cli[z] # << >>
          /\ cli' = [cli EXCEPT ![z] = Tail(@)]
          /\ \/ cpc' = [cpc EXCEPT ![z] = "prompt"] /\ UNCHANGED << un, sock >>
             \/ /\ MsgSend(z, sock[z], target[z], 1)
                /\ cpc' = [cpc EXCEPT ![z] = "wait2"]
      BY <1>1, <1>8 DEF Receives, Receive, ReceiveAgain, AskAgain
    <2>2. /\ un[h] = << >> /\ (route_discovered[h] = 1 \/ ~ Seeks(h)) /\ OnePlace(z)
          /\ al_client_addr[h] \in ClientAddr
      BY <1>1, <2>1 DEF OneConversation, NoData
    <2>3. None(chan, h) /\ (\A n \in Nodes : ~ HeldFor(n, h)) /\ Len(cli[z]) <= 1
      BY <2>1, <2>2 DEF OnePlace
    <2>4. cli'[z] = << >>
      <3>1. cli[z] \in Seq(Reply) /\ cli'[z] = Tail(cli[z])
        BY <1>2, <2>1
      <3> QED BY <2>1, <2>3, <3>1, LastTaken
    <2>5. CASE cpc' = [cpc EXCEPT ![z] = "prompt"] /\ UNCHANGED << un, sock >>
      <3>1. sock'[z] # 0
        BY <2>1, <2>5 DEF TypeOK
      <3> QED BY <1>6, <2>2, <2>3, <2>4, <2>5, <3>1
    <2>6. CASE MsgSend(z, sock[z], target[z], 1) /\ cpc' = [cpc EXCEPT ![z] = "wait2"]
      <3>1. Len(un'[h]) = 1 /\ Head(un'[h]).forced = 1
        BY <1>1, <2>2, <2>6, OnlyRequest
      <3>2. cpc'[z] = "wait2"
        BY <1>2, <2>6
      <3> QED BY <1>5, <2>2, <2>3, <2>4, <3>1, <3>2
    <2> QED BY <2>1, <2>5, <2>6
  <1>9. CASE TimesOut(z)
    <2>1. Quiet /\ \A n \in Nodes : pc[n] # "down"
      BY <1>9 DEF TimesOut, Plain, Conversations, Up
    <2>2. \A j \in Links : chan[j] = << >>
      BY <2>1, LinkType DEF Quiet, Up
    <2>3. None(chan, h) /\ ~ Seeks(h) /\ un[h] = << >> /\ \A n \in Nodes : ~ HeldFor(n, h)
      BY <1>1, <2>1, <2>2, NoPacketHeld DEF None, Seeks, Carries, Quiet, HeldFor
    <2>4. CASE Timeout(z, Up(h))
      <3>1. /\ MsgSend(z, sock[z], target[z], 1) /\ cpc' = [cpc EXCEPT ![z] = "wait2"]
            /\ cli' = cli /\ cli[z] = << >>
        BY <1>1, <2>4 DEF Timeout, AskAgain
      <3>2. Len(un'[h]) = 1
        BY <1>1, <2>3, <3>1, OnlyRequest
      <3>3. cpc'[z] = "wait2" /\ cli'[z] = << >>
        BY <1>2, <3>1
      <3> QED BY <1>5, <2>3, <3>2, <3>3
    <2>5. CASE GiveUp(z)
      <3>1. cpc'[z] = "gone" /\ cli'[z] = << >> /\ un' = un
        BY <1>2, <2>5 DEF GiveUp, Leave
      <3> QED BY <1>6, <2>3, <3>1
    <2> QED BY <1>9, <2>4, <2>5 DEF TimesOut
  <1>10. CASE Quits(z)
    <2>1. cpc[z] = "prompt" /\ cpc'[z] = "gone" /\ cli'[z] = << >> /\ un' = un
      BY <1>2, <1>10 DEF Quits, Quit, Leave
    <2>2. NoData(z) /\ un[h] = << >> /\ (Seeks(h) => route_discovered[h] # 0)
      BY <1>1, <2>1 DEF OneConversation, Waits
    <2>3. ~ Seeks(h) \/ al_client_addr[h] \in ClientAddr
      BY <1>1 DEF OneConversation
    <2> QED BY <1>2, <1>6, <2>1, <2>2, <2>3 DEF NoData
  <1> QED BY <1>7, <1>8, <1>9, <1>10

(* Conversations is inductive.                                             *)
LEMMA ConversationsStep ==
    ASSUME Plain, TypeOK, AddressesKept, ServerTurn, Conversations, [Next]_vars
    PROVE  Conversations'
  <1>1. (\A n \in Nodes : Up(n)') /\ HeldData' /\ HeldData
    BY StaysUp, HeldDataStep DEF Conversations
  <1>2. ASSUME NEW z \in Clients
        PROVE  OneConversation(z)'
    <2>1. OneConversation(z)
      BY DEF Conversations
    <2>2. CASE Environment \/ \E n \in Nodes : Daemon(n) \/ Serves(n)
      <3>1. Moves(z)
        BY <1>1, <2>2, NetworkMoves DEF Plain, Up
      <3>2. UNCHANGED << clientVars, sock >>
        BY <2>2, OthersKeepClients
      <3> QED BY <1>1, <2>1, <3>1, <3>2, NetworkKeeps
    <2>3. ASSUME NEW y \in Clients, Asks(y) \/ Receives(y) \/ TimesOut(y) \/ Quits(y)
          PROVE  OneConversation(z)'
      BY <2>1, <2>3, OthersKeep, OwnKeeps
    <2>4. CASE UNCHANGED vars
      BY <2>1, <2>4
      DEF vars, odrVars, session, sockets, clientVars, OneConversation, OnePlace, NoData,
          Waits, None, AtMostOne, HeldFor, Seeks, Carries
    <2> QED BY <2>2, <2>3, <2>4 DEF Next
  <1> QED BY <1>1, <1>2 DEF Conversations

(* Conversations holds from the start on.                                  *)
LEMMA ConversationsAlways ==
    ASSUME Plain
    PROVE  Spec => []Conversations
  <1>1. Init => Conversations
    <2> SUFFICES ASSUME Init PROVE Conversations
      OBVIOUS
    <2>1. \A n \in Nodes : Up(n) /\ held[n] = NoPacket /\ un[n] = << >>
      BY DEF Init, OdrInit, SocketInit, Up
    <2>2. \A j \in Links : chan[j] = << >>
      BY DEF Init, LinkInit
    <2>3. \A z \in Clients : cli[z] = << >> /\ Home[z] \in Nodes
      BY SocketAssumption DEF Init, SocketInit
    <2>4. ASSUME NEW z \in Clients
          PROVE  NoData(z) /\ OnePlace(z) /\ ~ Seeks(Home[z]) /\ un[Home[z]] = << >>
      <3>1. None(chan, Home[z]) /\ AtMostOne(chan, Home[z]) /\ ~ Seeks(Home[z])
        BY <2>2 DEF None, AtMostOne, Seeks, Carries
      <3> QED BY <2>1, <2>3, <3>1, NoPacketHeld DEF NoData, OnePlace, HeldFor
    <2> QED BY <2>1, <2>4, NoPacketHeld DEF Conversations, HeldData, OneConversation
  <1>2. TypeOK /\ AddressesKept /\ ServerTurn /\ Conversations /\ [Next]_vars
            => Conversations'
    BY ConversationsStep
  <1>3. IpFits /\ Apart /\ Sound
    BY DEF Plain, Sound
  <1>4. Spec => []AddressesKept
    BY <1>3, AddressesAlways
  <1>5. Spec => []ServerTurn
    BY <1>3, TurnAlways
  <1> QED BY <1>1, <1>2, <1>4, <1>5, TypeCorrect, PTL DEF Spec

-----------------------------------------------------------------------------
(* Counting.                                                               *)

(* No more places than clients they are taken for.                         *)
LEMMA NoMorePlaces ==
    ASSUME NEW W, IsFiniteSet(W), NEW T, NEW f \in [W -> T],
           \A t \in T : \E w \in W : f[w] = t
    PROVE  IsFiniteSet(T) /\ Cardinality(T) <= Cardinality(W)
  <1>1. f \in Surjection(W, T)
    BY Fun_IsSurj
  <1> QED BY <1>1, FS_Surjection

(* Three sets that have nothing in common, within a finite one.            *)
LEMMA ThreeApart ==
    ASSUME NEW W, IsFiniteSet(W), NEW A, NEW B, NEW C, A \cup B \cup C \subseteq W,
           A \cap B = {}, A \cap C = {}, B \cap C = {}
    PROVE  /\ IsFiniteSet(A) /\ IsFiniteSet(B) /\ IsFiniteSet(C)
           /\ Cardinality(A) \in Nat /\ Cardinality(B) \in Nat /\ Cardinality(C) \in Nat
           /\ Cardinality(W) \in Nat
           /\ Cardinality(A) + Cardinality(B) + Cardinality(C) <= Cardinality(W)
  <1>1. A \in SUBSET W /\ B \in SUBSET W /\ C \in SUBSET W
    OBVIOUS
  <1>2. IsFiniteSet(A) /\ IsFiniteSet(B) /\ IsFiniteSet(C)
    BY <1>1, FS_Subset
  <1>3. /\ Cardinality(A) \in Nat /\ Cardinality(B) \in Nat /\ Cardinality(C) \in Nat
        /\ Cardinality(W) \in Nat
    BY <1>2, FS_CardinalityType
  <1>4. /\ IsFiniteSet(A \cup B)
        /\ Cardinality(A \cup B) = Cardinality(A) + Cardinality(B) - Cardinality({})
    BY <1>2, FS_Union
  <1>5. (A \cup B) \cap C = {} /\ (A \cup B) \cup C \in SUBSET W
    OBVIOUS
  <1>6. Cardinality((A \cup B) \cup C)
            = Cardinality(A \cup B) + Cardinality(C) - Cardinality({})
    BY <1>2, <1>4, <1>5, FS_Union
  <1>7. Cardinality((A \cup B) \cup C) <= Cardinality(W)
    BY <1>5, FS_Subset
  <1> QED BY <1>2, <1>3, <1>4, <1>6, <1>7, FS_EmptySet

(* However many RREPs the flood brings back, a request makes one DATA      *)
(* packet, wherever it has got to (route_discovered, odr_aa19.c:355-366,   *)
(* 661-747), on every network, with clients on any number of nodes,        *)
(* whatever is lost or stale.                                              *)
THEOREM OneDataPacketEach ==
    ASSUME Plain, IsFiniteSet(Clients)
    PROVE  Spec => []OneDataPacket
  <1>1. TypeOK /\ ServerTurn /\ Conversations => OneDataPacket
    <2> SUFFICES ASSUME TypeOK, ServerTurn, Conversations
                 PROVE  OneDataPacket
      OBVIOUS
    <2> DEFINE Frame == UNION {{k} \X {i \in DOMAIN chan[k] : chan[k][i].type = "DATA"} :
                               k \in Links}
               Server == {n \in Nodes : held[n] # NoPacket}
               Replied == {z \in Clients : cli[z] # << >>}
               Waiting == {z \in Clients : cpc[z] \in {"wait1", "wait2"}}
               Sent == {z \in Clients : ~ None(chan, Home[z])}
               Served == {z \in Clients : \E n \in Nodes : HeldFor(n, Home[z])}
    <2>1. /\ \A z \in Clients : OneConversation(z) /\ OnePlace(z)
          /\ \A j \in Links, q \in Packet : Carries(chan, j, q) => q.src \in Homes
          /\ \A n \in Nodes : held[n] \in Packet => held[n].src \in Homes
      BY DEF Conversations, OneConversation, ServerTurn, Steady, Plain
    <2>2. Sent \cup Served \cup Replied \subseteq Waiting
      BY <2>1 DEF OneConversation, NoData, Waits
    <2>3. Sent \cap Served = {} /\ Sent \cap Replied = {} /\ Served \cap Replied = {}
      BY <2>1 DEF OnePlace
    <2>4. IsFiniteSet(Waiting)
      <3>1. Waiting \in SUBSET Clients
        OBVIOUS
      <3> QED BY <3>1, FS_Subset
    <2>5. \A s : s \in Frame <=>
             \E k \in Links : \E i \in 1 .. Len(chan[k]) :
                s = << k, i >> /\ chan[k][i].type = "DATA"
      <3>1. \A k \in Links : DOMAIN chan[k] = 1 .. Len(chan[k])
        BY DEF TypeOK
      <3> QED BY <3>1
    <2> HIDE DEF Frame
    <2>6. IsFiniteSet(Sent) =>
             Cardinality(Frame) <= Cardinality(Sent) /\ IsFiniteSet(Frame)
      <3> SUFFICES ASSUME IsFiniteSet(Sent)
                   PROVE  Cardinality(Frame) <= Cardinality(Sent) /\ IsFiniteSet(Frame)
        OBVIOUS
      <3> DEFINE Of(s, z) == Token(chan[s[1]][s[2]], Home[z])
                 f == [z \in Sent |-> CHOOSE s \in Frame : Of(s, z)]
      <3>1. ASSUME NEW z \in Sent
            PROVE  \E s \in Frame : Of(s, z)
        <4>1. PICK k \in Links : \E i \in 1 .. Len(chan[k]) : Token(chan[k][i], Home[z])
          BY DEF None
        <4>2. PICK i \in 1 .. Len(chan[k]) : Token(chan[k][i], Home[z])
          BY <4>1
        <4>3. << k, i >> \in Frame
          BY <2>5, <4>2 DEF Token
        <4> QED BY <4>2, <4>3
      <3>2. f \in [Sent -> Frame]
        BY <3>1
      <3>3. ASSUME NEW s \in Frame
            PROVE  \E z \in Sent : f[z] = s
        <4>0. PICK k \in Links : \E i \in 1 .. Len(chan[k]) :
                  s = << k, i >> /\ chan[k][i].type = "DATA"
          BY <2>5
        <4>1. PICK i \in 1 .. Len(chan[k]) : s = << k, i >> /\ chan[k][i].type = "DATA"
          BY <4>0
        <4>2. chan[k][i].src \in Homes
          <5>1. chan[k] \in Seq(Packet)
            BY DEF TypeOK
          <5>2. chan[k][i] \in Packet /\ Carries(chan, k, chan[k][i])
            BY <5>1 DEF Carries
          <5> QED BY <2>1, <5>2
        <4>3. PICK z \in Clients : Home[z] = chan[k][i].src
          BY <4>2 DEF Homes
        <4>4. Token(chan[k][i], Home[z])
          BY <4>1, <4>3 DEF Token
        <4>5. z \in Sent
          BY <4>4 DEF None
        <4>6. f[z] \in Frame /\ Of(f[z], z)
          BY <3>1, <4>5
        <4> HIDE DEF f
        <4>7. \E l \in Links : \E m \in 1 .. Len(chan[l]) : f[z] = << l, m >>
          BY <2>5, <4>6
        <4>8. ASSUME NEW l \in Links, NEW m \in 1 .. Len(chan[l]), f[z] = << l, m >>
              PROVE  f[z] = s
          <5>1. Token(chan[l][m], Home[z])
            BY <4>6, <4>8
          <5>2. l = k /\ m = i
            BY <2>1, <4>4, <5>1 DEF OnePlace, AtMostOne
          <5> QED BY <4>1, <4>8, <5>2
        <4> QED BY <4>5, <4>7, <4>8
      <3> HIDE DEF f, Sent
      <3> QED BY <3>2, <3>3, NoMorePlaces
    <2>7. IsFiniteSet(Served) =>
             Cardinality(Server) <= Cardinality(Served) /\ IsFiniteSet(Server)
      <3> SUFFICES ASSUME IsFiniteSet(Served)
                   PROVE  Cardinality(Server) <= Cardinality(Served) /\ IsFiniteSet(Server)
        OBVIOUS
      <3> DEFINE f == [z \in Served |-> CHOOSE n \in Nodes : HeldFor(n, Home[z])]
      <3>1. ASSUME NEW z \in Served
            PROVE  f[z] \in Server /\ HeldFor(f[z], Home[z])
        BY NoPacketHeld DEF HeldFor
      <3>2. f \in [Served -> Server]
        BY <3>1
      <3>3. ASSUME NEW n \in Server
            PROVE  \E z \in Served : f[z] = n
        <4>1. n \in Nodes /\ held[n] \in Packet
          BY DEF TypeOK
        <4>2. PICK z \in Clients : Home[z] = held[n].src
          BY <2>1, <4>1 DEF Homes
        <4>3. HeldFor(n, Home[z]) /\ z \in Served
          BY <4>1, <4>2 DEF HeldFor
        <4>4. f[z] \in Nodes /\ HeldFor(f[z], Home[z])
          BY <3>1, <4>3
        <4> HIDE DEF f
        <4>5. f[z] = n
          BY <2>1, <4>1, <4>3, <4>4 DEF OnePlace
        <4> QED BY <4>3, <4>5
      <3> HIDE DEF f, Server, Served
      <3> QED BY <3>2, <3>3, NoMorePlaces
    <2> HIDE DEF Sent, Served, Replied, Waiting, Server
    <2>8. /\ IsFiniteSet(Sent) /\ IsFiniteSet(Served)
          /\ Cardinality(Sent) \in Nat /\ Cardinality(Served) \in Nat
          /\ Cardinality(Replied) \in Nat /\ Cardinality(Waiting) \in Nat
          /\ Cardinality(Sent) + Cardinality(Served) + Cardinality(Replied)
                <= Cardinality(Waiting)
      BY <2>2, <2>3, <2>4, ThreeApart
    <2>9. Cardinality(Frame) \in Nat /\ Cardinality(Server) \in Nat
      BY <2>6, <2>7, <2>8, FS_CardinalityType
    <2>10. Cardinality(Frame) + Cardinality(Server) + Cardinality(Replied)
              <= Cardinality(Waiting)
      BY <2>6, <2>7, <2>8, <2>9
    <2> QED BY <2>10 DEF OneDataPacket, Frame, Server, Replied, Waiting
  <1>2. Spec => []ServerTurn
    BY TurnAlways DEF Plain
  <1> QED BY <1>1, <1>2, ConversationsAlways, TypeCorrect, PTL

=============================================================================
