---------------------------- MODULE MemoryProofs ----------------------------
(***************************************************************************)
(* What is proved of the start of a daemon and of its two lists, for every *)
(* machine, every size of the first buffer, every change of the machine    *)
(* between two calls and every packet that comes in.                       *)
(***************************************************************************)
EXTENDS DaemonMemory, ListProofs, FiniteSetTheorems

(* As long as the daemon asks for the list, its buffer is larger than the  *)
(* last answer: an answer that fills the buffer is never the second of its *)
(* length, so none that was cut is taken.                                  *)
RoomLeft ==
    /\ kernel \in Seq(Nics)
    /\ cap \in Nat /\ lastlen \in Nat
    /\ lastlen < cap
    /\ conf = whole

(* An answer is as long as the list, or as the buffer it was cut to.       *)
LEMMA AnswerLength ==
    ASSUME RoomLeft
    PROVE  /\ Len(Answer) \in Nat /\ Len(Answer) <= cap
           /\ Fits => Answer = kernel
           /\ ~ Fits => Len(Answer) = cap
  BY DEF RoomLeft, Answer, Fits

(* No step of the daemon or of the machine breaks it.                      *)
LEMMA RoomNext == RoomLeft /\ [Next]_vars => RoomLeft'
  <1> SUFFICES ASSUME RoomLeft, [Next]_vars PROVE RoomLeft'
    OBVIOUS
  <1>1. CASE GetConfRefused
    BY <1>1, DiscoveryAssumption DEF GetConfRefused, Grow, RoomLeft, kernelVars
  <1>2. CASE GetConfAgain
    BY <1>2, AnswerLength, DiscoveryAssumption
    DEF GetConfAgain, Grow, RoomLeft, kernelVars
  <1>3. CASE GetConfDone
    <2>1. Fits
      BY <1>3, AnswerLength DEF GetConfDone, SameLength, RoomLeft
    <2> QED BY <1>3, <2>1, AnswerLength DEF GetConfDone, RoomLeft, kernelVars
  <1>4. CASE GetHwAddr \/ GetIndex \/ FillOne
    BY <1>4 DEF GetHwAddr, GetIndex, FillOne, RoomLeft, kernelVars, confVars
  <1>5. CASE Change
    BY <1>5, DiscoveryAssumption DEF Change, RoomLeft, bootVars, confVars
  <1>6. CASE \/ \E packet \in Packets, lan \in Lans :
                   \E via \in Attach[lan] : Frame(packet, via, lan)
             \/ Tick \/ UNCHANGED vars
    BY <1>6 DEF Frame, Tick, vars, RoomLeft, kernelVars, bootVars, confVars
  <1> QED BY <1>1, <1>2, <1>3, <1>4, <1>5, <1>6 DEF Next, Discover

(* The list of addresses that get_hw_addrs takes is the whole one, however *)
(* often it has changed and been cut before (get_hw_addrs_aa19.c:24-38).   *)
THEOREM WholeListTaken == Spec => []NothingCut
  <1>1. Init => RoomLeft
    BY DiscoveryAssumption DEF Init, DiscoveryInit, RoomLeft
  <1>2. RoomLeft => NothingCut
    BY DEF RoomLeft, NothingCut
  <1> QED BY <1>1, <1>2, RoomNext, PTL DEF Spec

-----------------------------------------------------------------------------
(* What was read of an interface is its own, unless it has gone since.     *)
TrueOf(nic, answer) == nic \in gone \/ answer = nic

HwaInfo == [nic : Nics, ip_alias : BOOLEAN,
            if_haddr : Nics \cup {Wrong}, if_index : Nics \cup {Wrong}]

(* All that the daemon has read is true in that sense, because what it     *)
(* asks about is in the list it took, and has gone if the kernel does not  *)
(* know it.                                                                *)
AnswersTrue ==
    /\ kernel \in Seq(Nics) /\ conf \in Seq(Nics)
    /\ hwa \in Seq(HwaInfo)
    /\ haddr \in Nics \cup {Wrong}
    /\ boot = "conf" => conf = << >> /\ hwa = << >>
    /\ boot # "conf" => \A i \in DOMAIN conf : Has(conf[i]) \/ conf[i] \in gone
    /\ boot \in {"hwaddr", "index"} => Item <= Len(conf)
    /\ boot = "index" => TrueOf(conf[Item], haddr)
    /\ \A i \in DOMAIN hwa : /\ TrueOf(hwa[i].nic, hwa[i].if_haddr)
                             /\ TrueOf(hwa[i].nic, hwa[i].if_index)

(* An interface of the list answers truly, or has gone.                    *)
LEMMA AskedTruly ==
    ASSUME AnswersTrue, boot \in {"hwaddr", "index"}
    PROVE  /\ Item \in DOMAIN conf /\ conf[Item] \in Nics
           /\ AskKernel(conf[Item]) \in Nics \cup {Wrong}
           /\ TrueOf(conf[Item], AskKernel(conf[Item]))
  BY DEF AnswersTrue, Item, AskKernel, TrueOf

(* Every step keeps what was read true.                                    *)
LEMMA TrueNext == RoomLeft /\ AnswersTrue /\ [Next]_vars => AnswersTrue'
  <1> SUFFICES ASSUME RoomLeft, AnswersTrue, [Next]_vars PROVE AnswersTrue'
    OBVIOUS
  <1>1. CASE GetConfRefused
    BY <1>1 DEF GetConfRefused, AnswersTrue, kernelVars, Item, TrueOf, Has
  <1>2. CASE GetConfAgain
    BY <1>2 DEF GetConfAgain, AnswersTrue, kernelVars, Item, TrueOf, Has
  <1>3. CASE GetConfDone
    <2>1. Answer = kernel /\ hwa = << >>
      BY <1>3, AnswerLength DEF GetConfDone, SameLength, RoomLeft, AnswersTrue
    <2>2. conf' = kernel /\ (boot' # "exit" => kernel # << >>)
      BY <1>3, <2>1 DEF GetConfDone
    <2>3. boot' # "exit" => Item' <= Len(conf')
      BY <1>3, <2>1, <2>2 DEF GetConfDone, AnswersTrue, Item
    <2> QED BY <1>3, <2>1, <2>2, <2>3 DEF GetConfDone, AnswersTrue, kernelVars, TrueOf, Has
  <1>4. CASE GetHwAddr
    BY <1>4, AskedTruly DEF GetHwAddr, AnswersTrue, kernelVars, confVars, Item, TrueOf, Has
  <1>5. CASE GetIndex
    <2> DEFINE h == [nic |-> conf[Item], ip_alias |-> SameName,
                     if_haddr |-> haddr, if_index |-> AskKernel(conf[Item])]
    <2>1. hwa \in Seq(HwaInfo) /\ hwa' = Append(hwa, h)
      BY <1>5 DEF GetIndex, AnswersTrue
    <2>2. h \in HwaInfo
      BY <1>5, AskedTruly DEF GetIndex, AnswersTrue, SameName, HwaInfo
    <2>3. TrueOf(h.nic, h.if_haddr) /\ TrueOf(h.nic, h.if_index)
      BY <1>5, AskedTruly DEF GetIndex, AnswersTrue
    <2>4. /\ UNCHANGED << kernel, gone, conf, haddr >>
          /\ boot' = IF Item = Len(conf) THEN "fill" ELSE "hwaddr"
          /\ boot = "index"
      BY <1>5 DEF GetIndex, kernelVars, confVars
    <2> HIDE DEF h
    <2>5. /\ hwa' \in Seq(HwaInfo)
          /\ Item' = Item + 1 /\ Item \in Nat
          /\ \A i \in DOMAIN hwa' : (i \in DOMAIN hwa /\ hwa'[i] = hwa[i]) \/ hwa'[i] = h
      BY <2>1, <2>2 DEF Item
    <2>6. boot' = "hwaddr" => Item' <= Len(conf')
      BY <2>4, <2>5 DEF AnswersTrue
    <2>7. \A i \in DOMAIN hwa' : /\ TrueOf(hwa'[i].nic, hwa'[i].if_haddr)
                                 /\ TrueOf(hwa'[i].nic, hwa'[i].if_index)
      BY <2>3, <2>5 DEF AnswersTrue
    <2> QED BY <2>4, <2>5, <2>6, <2>7 DEF AnswersTrue, TrueOf, Has
  <1>6. CASE FillOne
    BY <1>6 DEF FillOne, AnswersTrue, kernelVars, confVars, Item, TrueOf, Has
  <1>7. CASE Change
    <2>1. /\ kernel' \in Seq(Nics) /\ UNCHANGED << boot, conf, haddr, hwa >>
          /\ \A nic \in Nics : Has(nic) => Has(nic)' \/ nic \in gone'
          /\ gone \subseteq gone'
      BY <1>7, DiscoveryAssumption DEF Change, bootVars, confVars
    <2>2. \A nic \in Nics : \A answer : TrueOf(nic, answer) => TrueOf(nic, answer)'
      BY <2>1 DEF TrueOf
    <2>3. \A i \in DOMAIN conf : conf[i] \in Nics
      BY DEF AnswersTrue
    <2>4. \A i \in DOMAIN hwa : hwa[i].nic \in Nics
      <3>1. \A i \in DOMAIN hwa : hwa[i] \in HwaInfo
        BY DEF AnswersTrue
      <3> QED BY <3>1 DEF HwaInfo
    <2>5. Item' = Item
      BY <2>1 DEF Item
    <2>6. boot \in {"hwaddr", "index"} => Item \in DOMAIN conf
      BY AskedTruly
    <2> QED BY <2>1, <2>2, <2>3, <2>4, <2>5, <2>6 DEF AnswersTrue, TrueOf
  <1>8. CASE \/ \E packet \in Packets, lan \in Lans :
                   \E via \in Attach[lan] : Frame(packet, via, lan)
             \/ Tick \/ UNCHANGED vars
    BY <1>8 DEF Frame, Tick, vars, AnswersTrue, kernelVars, bootVars, confVars, Item,
       TrueOf, Has
  <1> QED BY <1>1, <1>2, <1>3, <1>4, <1>5, <1>6, <1>7, <1>8 DEF Next, Discover

(* Every interface that is still there is listed with its own hardware     *)
(* address and its own index, in whatever order the others are taken away  *)
(* between the calls that read them (get_hw_addrs_aa19.c:46-73).           *)
THEOREM ListedTruly ==
    Spec => [](\A i \in DOMAIN hwa : hwa[i].nic \notin gone =>
                 hwa[i].if_haddr = hwa[i].nic /\ hwa[i].if_index = hwa[i].nic)
  <1> DEFINE Listed == \A i \in DOMAIN hwa : hwa[i].nic \notin gone =>
                 hwa[i].if_haddr = hwa[i].nic /\ hwa[i].if_index = hwa[i].nic
  <1>1. Init => RoomLeft /\ AnswersTrue
    BY DiscoveryAssumption DEF Init, DiscoveryInit, RoomLeft, AnswersTrue
  <1>2. AnswersTrue => Listed
    BY DEF AnswersTrue, TrueOf
  <1> QED BY <1>1, <1>2, RoomNext, TrueNext, PTL DEF Spec

-----------------------------------------------------------------------------
(* Whatever the packet, update_rtbl_entry does to the list what it does to *)
(* the table, and keeps the list orderly.                                  *)
LEMMA ListUpdates ==
    ASSUME NEW h, NEW first, Orderly(h, first), h.brk <= MaxCells + 1,
           NEW packet \in Packets, NEW via \in Nodes, NEW lan \in Lans, NEW t \in Nat
    PROVE  Updates(h, update_list(h, packet, DestKey(packet), via, lan, t), first,
                   update_rtbl_entry(TableOf(h), packet, DestKey(packet), via, lan, t))
  <1> DEFINE g == update_list(h, packet, DestKey(packet), via, lan, t)
             table == update_rtbl_entry(TableOf(h), packet, DestKey(packet), via, lan, t)
  <1>1. CASE packet \in [type : {"RREQ"}, src : Nodes, rreq_hop : Hops, rrep_sent : {0, 1}]
    <2> DEFINE key == packet.src
               hop == packet.rreq_hop
               once == LearnInList(h, key, hop, hop, via, lan, t)
               twice == LearnInList(once, key, hop, hop, via, lan, t)
    <2>1. /\ key \in Nodes /\ hop \in Int /\ packet.type = "RREQ"
      BY <1>1, MemoryAssumption
    <2>2. g = IF packet.rrep_sent = 1 /\ ~ once.done THEN twice ELSE once
      BY <2>1 DEF update_list
    <2>3. table = Learn(TableOf(h), key, hop, hop, via, lan, t)
      BY <2>1 DEF update_rtbl_entry
    <2> HIDE DEF key, hop, g, table
    <2>4. Updates(h, once, first, table) /\ entry_in_list(once, key)
      BY <2>1, <2>3, LearnUpdates
    <2> HIDE DEF once
    <2>5. Orderly(once, first) /\ TableOf(once) = table
      BY <2>4 DEF Updates
    <2>6. twice = CompareInList(once, key, hop, hop, via, lan, t)
      BY <2>4 DEF LearnInList
    <2>7. Updates(once, twice, first, Learn(table, key, hop, hop, via, lan, t))
      <3> HIDE DEF twice
      <3> QED BY <2>1, <2>4, <2>5, <2>6, CompareUpdates
    <2>8. Learn(table, key, hop, hop, via, lan, t) = table
      <3>1. TableOf(h) \in Table
        BY TableOfOne
      <3> QED BY <2>1, <2>3, <3>1, LearnTwice
    <2>9. h.brk \in Nat /\ once.brk \in Nat /\ twice.brk \in Nat
      <3> HIDE DEF twice
      <3> QED BY <2>5, <2>7 DEF Orderly, Updates
    <2>10. Updates(h, twice, first, table)
      <3> HIDE DEF twice
      <3> QED BY <2>4, <2>7, <2>8, <2>9 DEF Updates
    <2> QED BY <2>2, <2>4, <2>10 DEF g, table
  <1>2. CASE packet \in [type : {"RREP"}, dest : Nodes, rreq_hop : Hops, rrep_hop : Hops]
    <2>1. /\ packet.type = "RREP" /\ DestKey(packet) \in Nodes
          /\ packet.rreq_hop \in Int /\ packet.rrep_hop \in Int
      BY <1>2, MemoryAssumption DEF DestKey
    <2> QED BY <2>1, LearnUpdates DEF update_list, update_rtbl_entry, stale_hop_of
  <1>3. ASSUME packet.type = "DATA", NEW key \in Nodes, packet.rreq_hop \in Int,
               key = IF packet.src_dest = 1 THEN packet.src ELSE DestKey(packet)
        PROVE  Updates(h, g, first, table)
    <2>1. /\ g = IF entry_in_list(h, key)
                 THEN CompareInList(h, key, packet.rreq_hop, packet.rreq_hop, via, lan, t)
                 ELSE h
          /\ table = IF entry_exists_for_src(TableOf(h), key)
                     THEN Learn(TableOf(h), key, packet.rreq_hop, packet.rreq_hop, via, lan, t)
                     ELSE TableOf(h)
      BY <1>3 DEF update_list, update_rtbl_entry
    <2> HIDE DEF g, table
    <2>2. CASE entry_in_list(h, key)
      BY <1>3, <2>1, <2>2, CompareUpdates DEF entry_exists_for_src
    <2>3. CASE ~ entry_in_list(h, key)
      <3>1. \A p \in first .. h.brk - 1 : h.mem[p].key # key
        <4> SUFFICES ASSUME NEW p \in first .. h.brk - 1, h.mem[p].key = key PROVE FALSE
          OBVIOUS
        <4>1. Matching(h, key) = {p - first + 1}
          BY MatchingOne
        <4> QED BY <2>3, <4>1 DEF entry_in_list
      <3>2. TableOf(h)[key] = NoRoute
        BY <3>1, TableOfOne DEF Addresses
      <3>3. g = h /\ table = TableOf(h) /\ h.brk \in Nat
        BY <2>1, <2>3, <3>2 DEF entry_exists_for_src, Orderly
      <3> QED BY <3>3 DEF Updates
    <2> QED BY <2>2, <2>3
  <1>4. CASE packet \in [type : {"DATA"}, src : Nodes, rreq_hop : Hops, src_dest : {1}]
    BY <1>3, <1>4, MemoryAssumption
  <1>5. CASE packet \in [type : {"DATA"}, dest : Nodes, rreq_hop : Hops, src_dest : {-1}]
    <2>1. /\ packet.type = "DATA" /\ packet.src_dest # 1 /\ DestKey(packet) \in Nodes
          /\ packet.rreq_hop \in Int
      <3>1. packet.src_dest = -1 /\ packet.type = "DATA" /\ packet.rreq_hop \in Int
        BY <1>5, MemoryAssumption
      <3>2. DestKey(packet) \in Nodes
        BY <1>5 DEF DestKey
      <3> QED BY <3>1, <3>2
    <2> QED BY <1>3, <2>1
  <1> QED BY <1>1, <1>2, <1>4, <1>5 DEF Packets

-----------------------------------------------------------------------------
(* The place of an address on the list grows with each that is used.       *)
LEMMA PlaceStep ==
    /\ Place(0) = 0
    /\ \A i \in Nat :
          /\ Place(i) \in Nat
          /\ Place(i + 1) = IF whole[i + 1] \notin Skipped THEN Place(i) + 1 ELSE Place(i)
          /\ \A k \in 0 .. i : Place(k) <= Place(i)
  <1> DEFINE Upto(i) == {j \in 1 .. i : whole[j] \notin Skipped}
  <1>1. \A i \in Nat : IsFiniteSet(Upto(i)) /\ Cardinality(Upto(i)) \in Nat
    <2> SUFFICES ASSUME NEW i \in Nat
                 PROVE  IsFiniteSet(Upto(i)) /\ Cardinality(Upto(i)) \in Nat
      OBVIOUS
    <2>1. IsFiniteSet(1 .. i)
      BY FS_Interval
    <2>2. Upto(i) \in SUBSET (1 .. i)
      OBVIOUS
    <2> HIDE DEF Upto
    <2> QED BY <2>1, <2>2, FS_Subset, FS_CardinalityType
  <1>2. Place(0) = 0
    <2>1. Upto(0) = {}
      OBVIOUS
    <2> QED BY <2>1, FS_EmptySet DEF Place
  <1>3. ASSUME NEW i \in Nat
        PROVE  Place(i + 1) = IF whole[i + 1] \notin Skipped THEN Place(i) + 1 ELSE Place(i)
    <2>1. CASE whole[i + 1] \notin Skipped
      <3>1. Upto(i + 1) = Upto(i) \cup {i + 1} /\ i + 1 \notin Upto(i)
        BY <2>1
      <3>2. Cardinality(Upto(i + 1)) = Cardinality(Upto(i)) + 1
        <4> HIDE DEF Upto
        <4> QED BY <1>1, <3>1, FS_AddElement
      <3> QED BY <2>1, <3>2 DEF Place
    <2>2. CASE whole[i + 1] \in Skipped
      <3>1. Upto(i + 1) = Upto(i)
        BY <2>2
      <3> QED BY <2>2, <3>1 DEF Place
    <2> QED BY <2>1, <2>2
  <1>4. ASSUME NEW i \in Nat, NEW k \in 0 .. i PROVE Place(k) <= Place(i)
    <2>1. Upto(k) \in SUBSET Upto(i) /\ k \in Nat
      OBVIOUS
    <2>2. Cardinality(Upto(k)) <= Cardinality(Upto(i))
      <3> HIDE DEF Upto
      <3> QED BY <1>1, <2>1, FS_Subset
    <2> QED BY <2>2 DEF Place
  <1> QED BY <1>1, <1>2, <1>3, <1>4 DEF Place

(* The cell of the routing table's first entry: those before it are the    *)
(* interfaces that have been listed.                                       *)
FirstEntry == 2 + Place(filled)

(* Both lists are rings of the cells in the order of their allocation, and *)
(* every interface that has been listed is in its place.                   *)
BothLists ==
    /\ now \in Nat
    /\ boot \in {"conf", "hwaddr", "index", "fill", "ready", "exit"}
    /\ filled \in Nat /\ filled <= Len(hwa)
    /\ boot \notin {"fill", "ready"} => filled = 0
    /\ boot = "fill" => filled < Len(hwa)
    /\ boot = "ready" => filled = Len(hwa)
    /\ boot \in {"fill", "ready"} => Len(hwa) = Len(conf)
    /\ boot # "ready" => brk = FirstEntry
    /\ \A i \in DOMAIN hwa : hwa[i].nic = conf[i]
    /\ Orderly(Heap, FirstEntry)
    /\ Ring(links, IF_INFO, 2, FirstEntry)
    /\ \A i \in 1 .. filled : whole[i] \notin Skipped \cup gone =>
          mem[1 + Place(i)] = [sll_addr |-> whole[i], sll_ifindex |-> whole[i]]

(* At first both are empty.                                                *)
LEMMA ListsInit == Init => BothLists
  <1> SUFFICES ASSUME Init PROVE BothLists
    OBVIOUS
  <1>1. FirstEntry = 2 /\ filled = 0 /\ hwa = << >> /\ boot = "conf" /\ now = 0 /\ brk = 2
    BY PlaceStep DEF Init, DiscoveryInit, HeapInit, FirstEntry
  <1>2. /\ links = [next |-> [p \in Cells |-> p], prev |-> [p \in Cells |-> p]]
        /\ mem = [p \in Cells |-> mem[p]]
        /\ RTBL \in Cells /\ IF_INFO \in Cells /\ MaxCells \in Nat
    BY ListAssumption DEF Init, HeapInit, Cells, RTBL, IF_INFO
  <1>3. Ring(links, RTBL, 2, 2) /\ Ring(links, IF_INFO, 2, 2) /\ LinksType(links)
    BY <1>2 DEF Ring, LinksType
  <1>4. Orderly(Heap, 2)
    BY <1>1, <1>2, <1>3 DEF Orderly, Heap
  <1> QED BY <1>1, <1>3, <1>4 DEF BothLists

(* What does not touch the heap, nor the list of addresses, nor how much   *)
(* of it has been put on the daemon's list, keeps the lists.               *)
LEMMA ListsStay ==
    ASSUME BothLists, UNCHANGED << heapVars, filled, now >>,
           whole' = whole \/ filled = 0, gone \subseteq gone'
    PROVE  /\ FirstEntry' = FirstEntry
           /\ Orderly(Heap, FirstEntry)' /\ Ring(links, IF_INFO, 2, FirstEntry)'
           /\ \A i \in 1 .. filled' : whole'[i] \notin Skipped \cup gone' =>
                 mem'[1 + Place(i)'] = [sll_addr |-> whole'[i], sll_ifindex |-> whole'[i]]
           /\ now' \in Nat /\ filled' \in Nat
  <1>1. FirstEntry' = FirstEntry
    <2>1. CASE whole' = whole
      BY <2>1 DEF FirstEntry, Place
    <2>2. CASE filled = 0
      <3>1. Place(0) = 0 /\ Place(0)' = 0
        <4>1. \A j \in 1 .. 0 : FALSE
          OBVIOUS
        <4>2. {j \in 1 .. 0 : whole'[j] \notin Skipped} = {}
          BY <4>1
        <4> QED BY <4>2, PlaceStep, FS_EmptySet DEF Place
      <3> QED BY <2>2, <3>1 DEF FirstEntry
    <2> QED BY <2>1, <2>2
  <1>2. Heap' = Heap
    BY DEF heapVars, Heap
  <1>3. Orderly(Heap, FirstEntry)' /\ Ring(links, IF_INFO, 2, FirstEntry)'
    BY <1>1, <1>2 DEF BothLists, Orderly, Ring, heapVars
  <1>4. ASSUME NEW i \in 1 .. filled', whole'[i] \notin Skipped \cup gone'
        PROVE  mem'[1 + Place(i)'] = [sll_addr |-> whole'[i], sll_ifindex |-> whole'[i]]
    <2>1. whole' = whole /\ i \in 1 .. filled
      BY DEF BothLists
    <2>2. Place(i)' = Place(i)
      BY <2>1 DEF Place
    <2> QED BY <1>4, <2>1, <2>2 DEF BothLists, heapVars
  <1> QED BY <1>1, <1>3, <1>4 DEF BothLists

(* fill_if_info_list puts the next interface that is used in its place.    *)
LEMMA FillKeepsLists ==
    ASSUME RoomLeft, AnswersTrue, BothLists, FillOne, now' = now
    PROVE  BothLists'
  <1> DEFINE n == filled + 1
             h == hwa[n]
  <1>1. /\ boot = "fill" /\ n \in DOMAIN hwa /\ n \in Nat /\ filled \in Nat
        /\ h.nic = whole[n] /\ Len(hwa) = Len(conf)
        /\ brk = FirstEntry
    BY DEF FillOne, BothLists, RoomLeft, AnswersTrue
  <1>2. /\ UNCHANGED << kernel, changes, gone, cap, lastlen, conf, whole, haddr, hwa >>
        /\ filled' = n
        /\ boot' = IF n = Len(hwa) THEN "ready" ELSE "fill"
    BY <1>1 DEF FillOne, Advance, kernelVars, confVars
  <1>3. \A i : Place(i)' = Place(i)
    BY <1>2 DEF Place
  <1>4. /\ Place(filled) \in Nat /\ Place(n) \in Nat
        /\ Place(n) = IF whole[n] \notin Skipped THEN Place(filled) + 1 ELSE Place(filled)
        /\ \A k \in 1 .. filled : Place(k) \in Nat /\ Place(k) <= Place(filled)
    BY <1>1, PlaceStep
  <1>5. FirstEntry' = 2 + Place(n)
    BY <1>2, <1>3 DEF FirstEntry
  <1>6. /\ filled' <= Len(hwa') /\ now' \in Nat
        /\ boot' = "fill" => filled' < Len(hwa')
        /\ boot' = "ready" => filled' = Len(hwa')
    BY <1>1, <1>2 DEF BothLists, AnswersTrue
  <1>7. CASE Used(h)
    <2>1. /\ whole[n] \notin Skipped
          /\ FirstEntry' = brk + 1 /\ brk = 2 + Place(filled) /\ brk \in Nat
      BY <1>1, <1>4, <1>5, <1>7 DEF Used, FirstEntry
    <2>2. /\ brk <= MaxCells + 1
          /\ links' = list_add(links, brk, IF_INFO)
          /\ mem' = [mem EXCEPT ![brk] = [sll_addr |-> h.if_haddr, sll_ifindex |-> h.if_index]]
          /\ brk' = brk + 1
      BY <1>7 DEF FillOne
    <2>3. /\ LinksType(links) /\ mem = [p \in Cells |-> mem[p]]
          /\ Ring(links, RTBL, brk, brk) /\ Ring(links, IF_INFO, 2, brk)
          /\ brk \in Cells /\ MaxCells \in Nat
      <3>1. Orderly(Heap, brk) /\ Ring(links, IF_INFO, 2, brk)
        BY <1>1 DEF BothLists
      <3>2. brk \in Cells /\ MaxCells \in Nat
        BY <2>1, <2>2, ListAssumption DEF Cells
      <3> QED BY <3>1, <3>2 DEF Orderly, Heap
    <2>4. /\ LinksType(links') /\ Ring(links', IF_INFO, 2, brk + 1)
          /\ Ring(links', RTBL, brk, brk)
      <3>1. /\ RTBL \in Heads /\ IF_INFO \in Heads /\ RTBL # IF_INFO /\ 2 \in Nat
            /\ 2 <= brk
        BY <2>1, <1>4 DEF Heads, RTBL, IF_INFO
      <3>2. /\ LinksType(links') /\ Ring(links', IF_INFO, 2, brk + 1)
        <4>1. /\ brk \in Nat /\ brk <= MaxCells + 1 /\ 2 <= brk /\ 2 <= 2
              /\ IF_INFO \in Heads /\ 2 \in Nat
              /\ LinksType(links) /\ Ring(links, IF_INFO, 2, brk)
          BY <2>1, <2>2, <2>3, <3>1
        <4>2. /\ LinksType(list_add(links, brk, IF_INFO))
              /\ Ring(list_add(links, brk, IF_INFO), IF_INFO, 2, brk + 1)
          BY <4>1, AddToRing
        <4> QED BY <2>2, <4>2
      <3>3. links'.prev[RTBL] = RTBL /\ links'.next[RTBL] = RTBL
        <4>1. /\ RTBL # brk /\ RTBL \in Cells /\ links.next[IF_INFO] # RTBL
              /\ links.prev[RTBL] = RTBL /\ links.next[RTBL] = RTBL /\ RTBL # IF_INFO
          BY <2>1, <2>3, <3>1 DEF Ring, Cells, RTBL, IF_INFO
        <4>2. links.next \in [Cells -> Cells] /\ links.prev \in [Cells -> Cells]
          BY <2>3 DEF LinksType
        <4> QED BY <2>2, <4>1, <4>2 DEF list_add, list_insert
      <3>4. Ring(links', RTBL, brk, brk)
        BY <2>1, <3>3 DEF Ring
      <3> QED BY <3>2, <3>4
    <2>5. mem' = [p \in Cells |-> mem'[p]] /\ \A p \in Cells : p # brk => mem'[p] = mem[p]
      BY <2>2, <2>3
    <2>6. Orderly(Heap', brk + 1)
      <3>1. Ring(links', RTBL, brk + 1, brk + 1)
        BY <2>1, <2>4 DEF Ring
      <3>2. 2 <= brk + 1 /\ brk + 1 <= MaxCells + 2
        BY <2>1, <2>2, <2>3, <1>4
      <3> QED BY <2>1, <2>2, <2>4, <2>5, <3>1, <3>2 DEF Orderly, Heap
    <2>7. ASSUME NEW i \in 1 .. n, whole[i] \notin Skipped \cup gone
          PROVE  mem'[1 + Place(i)] = [sll_addr |-> whole[i], sll_ifindex |-> whole[i]]
      <3>1. CASE i = n
        <4>1. h.if_haddr = whole[n] /\ h.if_index = whole[n]
          BY <1>1, <2>7, <3>1 DEF AnswersTrue, TrueOf
        <4>2. 1 + Place(n) = brk
          BY <1>4, <2>1
        <4> QED BY <2>2, <2>3, <3>1, <4>1, <4>2
      <3>2. CASE i \in 1 .. filled
        <4>1. 1 + Place(i) \in Cells /\ 1 + Place(i) # brk
          BY <1>4, <2>1, <2>2, <2>3, <3>2 DEF Cells
        <4> QED BY <2>5, <2>7, <3>2, <4>1 DEF BothLists
      <3> QED BY <1>1, <3>1, <3>2
    <2> QED BY <1>1, <1>2, <1>3, <1>6, <2>1, <2>2, <2>4, <2>6, <2>7 DEF BothLists
  <1>8. CASE ~ Used(h)
    <2>1. UNCHANGED << links, mem, brk >> /\ whole[n] \in Skipped
      BY <1>1, <1>8 DEF FillOne, Used, heapVars
    <2>2. FirstEntry' = FirstEntry
      BY <1>4, <1>5, <2>1 DEF FirstEntry
    <2>3. Orderly(Heap, FirstEntry)' /\ Ring(links, IF_INFO, 2, FirstEntry)'
      BY <2>1, <2>2 DEF BothLists, Orderly, Ring, Heap
    <2>4. ASSUME NEW i \in 1 .. n, whole[i] \notin Skipped \cup gone
          PROVE  mem'[1 + Place(i)] = [sll_addr |-> whole[i], sll_ifindex |-> whole[i]]
      <3>1. i \in 1 .. filled
        BY <1>1, <2>1, <2>4
      <3> QED BY <2>1, <2>4, <3>1 DEF BothLists
    <2> QED BY <1>1, <1>2, <1>3, <1>6, <2>1, <2>2, <2>3, <2>4 DEF BothLists
  <1> QED BY <1>7, <1>8

(* A packet changes entries and adds one, behind the interfaces.           *)
LEMMA FrameKeepsLists ==
    ASSUME BothLists, NEW packet \in Packets, NEW lan \in Lans, NEW via \in Attach[lan],
           Frame(packet, via, lan)
    PROVE  BothLists'
  <1> DEFINE after == update_list(Heap, packet, DestKey(packet), via, lan, now)
  <1>1. /\ boot = "ready" /\ brk <= MaxCells + 1
        /\ links' = after.links /\ mem' = after.mem /\ brk' = after.brk
        /\ UNCHANGED << kernel, changes, gone, bootVars, now >>
    BY DEF Frame, kernelVars
  <1>2. /\ UNCHANGED << boot, conf, whole, haddr, hwa, filled >>
        /\ FirstEntry' = FirstEntry /\ \A i : Place(i)' = Place(i)
    BY <1>1 DEF bootVars, confVars, FirstEntry, Place
  <1>3. via \in Nodes /\ now \in Nat
    BY TopologyAssumption DEF BothLists
  <1>4. Orderly(Heap, FirstEntry) /\ Ring(links, IF_INFO, 2, FirstEntry)
        /\ Heap.brk = brk /\ Heap.links = links /\ Heap.mem = mem
    BY DEF BothLists, Heap
  <1>5. \E table : Updates(Heap, after, FirstEntry, table)
    BY <1>1, <1>3, <1>4, ListUpdates
  <1> HIDE DEF after
  <1>6. /\ Orderly(after, FirstEntry)
        /\ \A p \in Cells : p < FirstEntry => after.mem[p] = mem[p]
        /\ Ring(after.links, IF_INFO, 2, FirstEntry)
    BY <1>4, <1>5 DEF Updates
  <1>7. Heap' = [links |-> after.links, mem |-> after.mem, brk |-> after.brk, done |-> FALSE]
    BY <1>1 DEF Heap
  <1>8. Orderly(Heap', FirstEntry)
    BY <1>6, <1>7 DEF Orderly
  <1>9. ASSUME NEW i \in 1 .. filled, whole[i] \notin Skipped \cup gone
        PROVE  mem'[1 + Place(i)] = [sll_addr |-> whole[i], sll_ifindex |-> whole[i]]
    <2>1. /\ filled \in Nat /\ Place(i) \in Nat /\ Place(i) <= Place(filled)
          /\ FirstEntry = 2 + Place(filled) /\ Place(filled) \in Nat
      <3>1. filled \in Nat /\ i \in Nat /\ i \in 0 .. filled
        BY DEF BothLists
      <3> QED BY <3>1, PlaceStep DEF FirstEntry
    <2>2. FirstEntry <= MaxCells + 2 /\ MaxCells \in Nat
      BY <1>1, <1>4, <2>1, ListAssumption DEF Orderly
    <2>3. 1 + Place(i) \in Cells /\ 1 + Place(i) < FirstEntry
      BY <2>1, <2>2 DEF Cells
    <2> QED BY <1>1, <1>6, <1>9, <2>3 DEF BothLists
  <1> QED BY <1>1, <1>2, <1>6, <1>8, <1>9 DEF BothLists

(* Every step of the daemon and of the machine keeps the lists.            *)
LEMMA ListsNext == RoomLeft /\ AnswersTrue /\ BothLists /\ [Next]_vars => BothLists'
  <1> SUFFICES ASSUME RoomLeft, AnswersTrue, BothLists, [Next]_vars PROVE BothLists'
    OBVIOUS
  <1>1. CASE GetConfRefused /\ UNCHANGED now
    <2>1. /\ UNCHANGED << heapVars, filled, now, whole, gone, hwa, conf >>
          /\ boot = "conf" /\ boot' \in {"conf", "exit"}
      BY <1>1 DEF GetConfRefused, kernelVars
    <2> QED BY <2>1, ListsStay DEF BothLists, heapVars
  <1>2. CASE GetConfAgain /\ UNCHANGED now
    <2>1. UNCHANGED << heapVars, filled, now, whole, gone, hwa, conf, boot >>
      BY <1>2 DEF GetConfAgain, kernelVars
    <2> QED BY <2>1, ListsStay DEF BothLists, heapVars
  <1>3. CASE GetConfDone /\ UNCHANGED now
    <2>1. /\ UNCHANGED << heapVars, filled, now, gone, hwa >>
          /\ boot = "conf" /\ boot' \in {"hwaddr", "exit"}
          /\ hwa = << >> /\ filled = 0
      BY <1>3 DEF GetConfDone, kernelVars, AnswersTrue, BothLists
    <2> QED BY <2>1, ListsStay DEF BothLists, heapVars
  <1>4. CASE GetHwAddr /\ UNCHANGED now
    <2>1. /\ UNCHANGED << heapVars, filled, now, whole, gone, hwa, conf >>
          /\ boot = "hwaddr" /\ boot' = "index"
      BY <1>4 DEF GetHwAddr, kernelVars, confVars
    <2> QED BY <2>1, ListsStay DEF BothLists, heapVars
  <1>5. CASE GetIndex /\ UNCHANGED now
    <2> DEFINE h == [nic |-> conf[Item], ip_alias |-> SameName,
                     if_haddr |-> haddr, if_index |-> AskKernel(conf[Item])]
    <2>1. /\ UNCHANGED << heapVars, filled, now, whole, gone, conf >>
          /\ boot = "index" /\ boot' = IF Item = Len(conf) THEN "fill" ELSE "hwaddr"
          /\ hwa' = Append(hwa, h) /\ hwa \in Seq(HwaInfo) /\ h.nic = conf[Item]
          /\ filled = 0
      BY <1>5 DEF GetIndex, kernelVars, confVars, AnswersTrue, BothLists
    <2> HIDE DEF h
    <2>2. /\ Len(hwa') = Item /\ Item \in Nat /\ 0 < Item
          /\ \A i \in DOMAIN hwa' :
                (i \in DOMAIN hwa /\ hwa'[i] = hwa[i]) \/ (i = Item /\ hwa'[i] = h)
      BY <2>1 DEF Item
    <2>3. \A i \in DOMAIN hwa' : hwa'[i].nic = conf'[i]
      BY <2>1, <2>2 DEF BothLists
    <2>4. brk' = FirstEntry'
      BY <2>1, ListsStay DEF BothLists, heapVars
    <2> QED BY <2>1, <2>2, <2>3, <2>4, ListsStay DEF BothLists
  <1>6. CASE FillOne /\ UNCHANGED now
    BY <1>6, FillKeepsLists
  <1>7. CASE Change /\ UNCHANGED now
    <2>1. /\ UNCHANGED << heapVars, filled, now, whole, hwa, conf, boot >>
          /\ gone \subseteq gone'
      BY <1>7 DEF Change, bootVars, confVars
    <2> QED BY <2>1, ListsStay DEF BothLists, heapVars
  <1>8. CASE \E packet \in Packets, lan \in Lans :
                \E via \in Attach[lan] : Frame(packet, via, lan)
    BY <1>8, FrameKeepsLists
  <1>9. CASE Tick \/ UNCHANGED vars
    <2>1. /\ UNCHANGED << heapVars, filled, whole, hwa, conf, boot, gone >>
          /\ now' \in Nat /\ FirstEntry' = FirstEntry /\ Heap' = Heap
          /\ \A i : Place(i)' = Place(i)
      <3>1. /\ UNCHANGED << heapVars, filled, whole, hwa, conf, boot, gone >>
            /\ now' \in Nat
        BY <1>9 DEF Tick, vars, bootVars, confVars, kernelVars, BothLists
      <3>2. \A i : Place(i)' = Place(i)
        BY <3>1 DEF Place
      <3> QED BY <3>1, <3>2 DEF FirstEntry, Heap, heapVars
    <2>2. Orderly(Heap, FirstEntry)' /\ Ring(links, IF_INFO, 2, FirstEntry)'
      BY <2>1 DEF BothLists, Orderly, Ring, heapVars
    <2>3. \A i \in 1 .. filled' : whole'[i] \notin Skipped \cup gone' =>
             mem'[1 + Place(i)'] = [sll_addr |-> whole'[i], sll_ifindex |-> whole'[i]]
      BY <2>1 DEF BothLists, heapVars
    <2> QED BY <2>1, <2>2, <2>3 DEF BothLists, heapVars
  <1> QED BY <1>1, <1>2, <1>3, <1>4, <1>5, <1>6, <1>7, <1>8, <1>9 DEF Next, Discover

(* All three, together.                                                    *)
MemoryInv == RoomLeft /\ AnswersTrue /\ BothLists

LEMMA MemoryInvariant == Spec => []MemoryInv
  <1>1. Init => MemoryInv
    <2>1. Init => RoomLeft /\ AnswersTrue
      BY DiscoveryAssumption DEF Init, DiscoveryInit, RoomLeft, AnswersTrue
    <2> QED BY <2>1, ListsInit DEF MemoryInv
  <1>2. MemoryInv /\ [Next]_vars => MemoryInv'
    BY RoomNext, TrueNext, ListsNext DEF MemoryInv
  <1> QED BY <1>1, <1>2, PTL DEF Spec

-----------------------------------------------------------------------------
(* The traversals meet the interfaces, then the entries, from the oldest   *)
(* to the newest.                                                          *)
LEMMA Traversals ==
    ASSUME MemoryInv
    PROVE  /\ Interfaces = [i \in 1 .. Place(filled) |-> i + 1]
           /\ Entries = [i \in 1 .. brk - FirstEntry |-> FirstEntry + i - 1]
           /\ Place(filled) \in Nat /\ FirstEntry = 2 + Place(filled)
           /\ brk \in Nat /\ FirstEntry <= brk /\ brk <= MaxCells + 2
           /\ filled \in Nat
  <1>1. /\ Place(filled) \in Nat /\ FirstEntry = 2 + Place(filled) /\ filled \in Nat
        /\ brk \in Nat /\ FirstEntry <= brk /\ brk <= MaxCells + 2
        /\ Ring(links, RTBL, FirstEntry, brk)
        /\ Ring(links, IF_INFO, 2, FirstEntry)
    BY PlaceStep DEF MemoryInv, BothLists, Orderly, Heap, FirstEntry
  <1>2. /\ RTBL \in Heads /\ IF_INFO \in Heads /\ MaxCells \in Nat
        /\ 2 <= FirstEntry /\ FirstEntry <= MaxCells + 2 /\ FirstEntry \in Nat /\ 2 \in Nat
    BY <1>1, ListAssumption DEF Heads
  <1>3. Entries = [i \in 1 .. brk - FirstEntry |-> FirstEntry + i - 1]
    BY <1>1, <1>2, RingBackwards DEF Entries
  <1>4. Interfaces = [i \in 1 .. FirstEntry - 2 |-> 2 + i - 1]
    BY <1>1, <1>2, RingBackwards DEF Interfaces
  <1>5. Interfaces = [i \in 1 .. Place(filled) |-> i + 1]
    <2>1. 1 .. FirstEntry - 2 = 1 .. Place(filled) /\ \A i \in 1 .. Place(filled) : 2 + i - 1 = i + 1
      BY <1>1
    <2> QED BY <1>4, <2>1
  <1> QED BY <1>1, <1>3, <1>5

(* Every structure that is allocated stays on its list, exactly once, and  *)
(* next undoes prev, whatever the machine and the packets do               *)
(* (list.h:79-88, odr_aa19.c:166, rtbl.h:107).                             *)
THEOREM RingsStayLinked == Spec => []RingsLinked
  <1> SUFFICES MemoryInv => RingsLinked
    BY MemoryInvariant, PTL
  <1> SUFFICES ASSUME MemoryInv PROVE RingsLinked
    OBVIOUS
  <1> DEFINE all == Interfaces \o Entries
             n == Place(filled)
  <1>1. /\ n \in Nat /\ FirstEntry = 2 + n /\ brk \in Nat /\ FirstEntry <= brk
        /\ Interfaces = [i \in 1 .. n |-> i + 1]
        /\ Entries = [i \in 1 .. brk - FirstEntry |-> FirstEntry + i - 1]
    BY Traversals
  <1> HIDE DEF n
  <1>2. /\ Len(all) = brk - 2 /\ all \in Seq(Nat)
        /\ \A i \in 1 .. brk - 2 : all[i] = i + 1
    <2>1. /\ Interfaces \in Seq(Nat) /\ Len(Interfaces) = n
          /\ \A i \in 1 .. n : Interfaces[i] = i + 1
      BY <1>1
    <2>2. /\ Entries \in Seq(Nat) /\ Len(Entries) = brk - FirstEntry
          /\ \A i \in 1 .. brk - FirstEntry : Entries[i] = FirstEntry + i - 1
      BY <1>1
    <2> QED BY <1>1, <2>1, <2>2
  <1> HIDE DEF all
  <1>3. {all[i] : i \in DOMAIN all} = 2 .. brk - 1
    <2>1. DOMAIN all = 1 .. brk - 2
      BY <1>1, <1>2
    <2>2. \A p \in 2 .. brk - 1 : p - 1 \in 1 .. brk - 2 /\ all[p - 1] = p
      BY <1>1, <1>2
    <2>3. \A i \in 1 .. brk - 2 : all[i] \in 2 .. brk - 1
      BY <1>1, <1>2
    <2> QED BY <2>1, <2>2, <2>3
  <1>4. ASSUME NEW p \in 0 .. brk - 1
        PROVE  links.next[links.prev[p]] = p
    <2>1. Ring(links, RTBL, FirstEntry, brk) /\ Ring(links, IF_INFO, 2, FirstEntry)
      BY DEF MemoryInv, BothLists, Orderly, Heap
    <2>2. \A q : q = RTBL \/ q \in FirstEntry .. brk - 1 => links.next[links.prev[q]] = q
      <3>1. FirstEntry \in Nat /\ brk \in Nat /\ FirstEntry <= brk
        BY <1>1
      <3> QED BY <2>1, <3>1, RingTurns
    <2>3. \A q : q = IF_INFO \/ q \in 2 .. FirstEntry - 1 => links.next[links.prev[q]] = q
      <3>1. 2 \in Nat /\ FirstEntry \in Nat /\ 2 <= FirstEntry
        BY <1>1
      <3> QED BY <2>1, <3>1, RingTurns
    <2>4. \/ p = RTBL \/ p \in FirstEntry .. brk - 1
          \/ p = IF_INFO \/ p \in 2 .. FirstEntry - 1
      BY <1>1 DEF RTBL, IF_INFO
    <2> QED BY <2>2, <2>3, <2>4
  <1> QED BY <1>2, <1>3, <1>4 DEF RingsLinked, all

(* No packet adds a second entry for a key, in whatever order they come    *)
(* (rtbl.h:54-289, odr_aa19.c:117-121).                                    *)
THEOREM OneEntryEach == Spec => []OneEntryPerKey
  <1> SUFFICES MemoryInv => OneEntryPerKey
    BY MemoryInvariant, PTL
  <1> SUFFICES ASSUME MemoryInv,
                      NEW i \in DOMAIN Entries, NEW j \in DOMAIN Entries,
                      mem[Entries[i]].key = mem[Entries[j]].key
               PROVE  i = j
    BY DEF OneEntryPerKey
  <1>1. /\ Entries = [k \in 1 .. brk - FirstEntry |-> FirstEntry + k - 1]
        /\ FirstEntry \in Nat /\ brk \in Nat
    BY Traversals
  <1>2. \A p, q \in FirstEntry .. brk - 1 : mem[p].key = mem[q].key => p = q
    BY DEF MemoryInv, BothLists, Orderly, Heap
  <1>3. /\ Entries[i] \in FirstEntry .. brk - 1 /\ Entries[i] = FirstEntry + i - 1
        /\ Entries[j] \in FirstEntry .. brk - 1 /\ Entries[j] = FirstEntry + j - 1
        /\ i \in Nat /\ j \in Nat
    BY <1>1
  <1> QED BY <1>1, <1>2, <1>3

(* The list is the table, and goes on being it: whatever packet comes      *)
(* next, the traversals of rtbl.h find and change the entry that           *)
(* RoutingTable says, and no other (rtbl.h:54-289).                        *)
THEOREM ListIsTheTable == Spec => []ListIsTable
  <1> SUFFICES MemoryInv => ListIsTable
    BY MemoryInvariant, PTL
  <1> SUFFICES ASSUME MemoryInv, brk <= MaxCells + 1,
                      NEW packet \in Packets, NEW lan \in Lans, NEW via \in Attach[lan]
               PROVE  TableOf(update_list(Heap, packet, DestKey(packet), via, lan, now))
                        = update_rtbl_entry(TableOf(Heap), packet, DestKey(packet), via, lan, now)
    BY DEF ListIsTable
  <1>1. /\ via \in Nodes /\ now \in Nat /\ Heap.brk <= MaxCells + 1
        /\ Orderly(Heap, FirstEntry)
    BY TopologyAssumption DEF MemoryInv, BothLists, Heap
  <1> QED BY <1>1, ListUpdates DEF Updates

(* The interfaces that are still there are listed, each in its place, with *)
(* its own hardware address and index, whatever the packets do to the      *)
(* other list (get_hw_addrs_aa19.c:46-73, odr_aa19.c:142-169).             *)
THEOREM InterfacesListed == Spec => []InterfacesKnown
  <1> SUFFICES MemoryInv => InterfacesKnown
    BY MemoryInvariant, PTL
  <1> SUFFICES ASSUME MemoryInv, boot = "ready" PROVE InterfacesKnown
    BY DEF InterfacesKnown
  <1>1. /\ Interfaces = [i \in 1 .. Place(filled) |-> i + 1]
        /\ Place(filled) \in Nat /\ filled \in Nat
    BY Traversals
  <1>2. filled = Len(whole) /\ whole \in Seq(Nics)
    BY DEF MemoryInv, BothLists, RoomLeft, AnswersTrue
  <1>3. Len(Interfaces) = Place(Len(whole))
    BY <1>1, <1>2
  <1>4. ASSUME NEW i \in DOMAIN whole, whole[i] \notin Skipped \cup gone
        PROVE  mem[Interfaces[Place(i)]] = [sll_addr |-> whole[i], sll_ifindex |-> whole[i]]
    <2>1. i \in 1 .. filled
      BY <1>1, <1>2
    <2>2. Place(i) \in 1 .. Place(filled)
      <3>1. i - 1 \in Nat /\ i - 1 + 1 = i /\ i \in Nat /\ i \in 0 .. filled
        BY <1>1, <2>1
      <3>2. Place(i) = Place(i - 1) + 1 /\ Place(i - 1) \in Nat
        BY <1>4, <3>1, PlaceStep
      <3>3. Place(i) <= Place(filled)
        BY <1>1, <3>1, PlaceStep
      <3> QED BY <1>1, <3>2, <3>3
    <2>3. Interfaces[Place(i)] = 1 + Place(i)
      BY <1>1, <2>2
    <2> QED BY <1>4, <2>1, <2>3 DEF MemoryInv, BothLists
  <1> QED BY <1>3, <1>4 DEF InterfacesKnown

=============================================================================
