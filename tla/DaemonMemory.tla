---------------------------- MODULE DaemonMemory ----------------------------
(***************************************************************************)
(* The two lists of one daemon from its start on: first the interfaces of  *)
(* its machine are discovered and listed, then the frames that come in by  *)
(* them make and change routing table entries.                             *)
(***************************************************************************)
EXTENDS InterfaceDiscovery, RoutingList, FiniteSets

CONSTANTS
    Hops,     \* the hop counts of the packets
    MaxTime   \* bound: the clock stops here

ASSUME MemoryAssumption ==
    /\ Lans = Nics \ Skipped
    /\ Hops \subseteq Int
    /\ MaxTime \in Nat

VARIABLE now

vars == << kernelVars, bootVars, heapVars, now >>

Init == HeapInit /\ DiscoveryInit /\ now = 0

(* The packets, with the fields update_rtbl_entry looks at.                *)
Packets ==
    [type : {"RREQ"}, src : Nodes, rreq_hop : Hops, rrep_sent : {0, 1}]
    \cup [type : {"RREP"}, dest : Nodes, rreq_hop : Hops, rrep_hop : Hops]
    \cup [type : {"DATA"}, src : Nodes, rreq_hop : Hops, src_dest : {1}]
    \cup [type : {"DATA"}, dest : Nodes, rreq_hop : Hops, src_dest : {-1}]

DestKey(packet) == IF "dest" \in DOMAIN packet THEN packet.dest ELSE Bogus

Heap == [links |-> links, mem |-> mem, brk |-> brk, done |-> FALSE]

(* process_pack calls update_rtbl_entry for a frame of `via' on `lan'.     *)
Frame(packet, via, lan) ==
    LET after == update_list(Heap, packet, DestKey(packet), via, lan, now)
    IN  /\ boot = "ready"
        /\ Has(lan)
        /\ brk <= MaxCells + 1
        /\ links' = after.links /\ mem' = after.mem /\ brk' = after.brk
        /\ UNCHANGED << kernelVars, bootVars, now >>

Tick ==
    /\ now < MaxTime
    /\ now' = now + 1
    /\ UNCHANGED << kernelVars, bootVars, heapVars >>

Next ==
    \/ Discover /\ UNCHANGED now
    \/ Change /\ UNCHANGED now
    \/ \E packet \in Packets, lan \in Lans :
          \E via \in Attach[lan] : Frame(packet, via, lan)
    \/ Tick

Spec == Init /\ [][Next]_vars /\ WF_vars(Discover /\ UNCHANGED now)

-----------------------------------------------------------------------------
Interfaces == Backwards(links, IF_INFO)
Entries == Backwards(links, RTBL)

(* Every structure put on a list stays on it, exactly once, whichever way  *)
(* the pointers are followed (list.h:79-88, odr_aa19.c:166, rtbl.h:107).   *)
RingsLinked ==
    LET all == Interfaces \o Entries
    IN  /\ {all[i] : i \in DOMAIN all} = 2 .. brk - 1
        /\ Len(all) = brk - 2
        /\ \A p \in 0 .. brk - 1 : links.next[links.prev[p]] = p

(* A key has one entry: send_payload (odr_aa19.c:117-121) sends a packet   *)
(* along every entry it finds, and would send it twice.                    *)
OneEntryPerKey ==
    \A i, j \in DOMAIN Entries : mem[Entries[i]].key = mem[Entries[j]].key => i = j

(* Whatever packet comes next, update_rtbl_entry does to the list what     *)
(* RoutingTable says it does to the table (rtbl.h:54-289).                 *)
ListIsTable ==
    boot = "ready" /\ brk <= MaxCells + 1 => LET table == TableOf(Heap)
    IN  \A packet \in Packets, lan \in Lans :
           \A via \in Attach[lan] :
              TableOf(update_list(Heap, packet, DestKey(packet), via, lan, now))
                = update_rtbl_entry(table, packet, DestKey(packet), via, lan, now)

(* The list of addresses that is taken is the whole one, although the      *)
(* kernel may cut it short and it may change between two calls             *)
(* (get_hw_addrs_aa19.c:24-38).                                            *)
NothingCut == conf = whole

(* The place on the list of the i-th address of the machine: the count of  *)
(* those up to it that are used.                                           *)
Place(i) == Cardinality({j \in 1 .. i : whole[j] \notin Skipped})

(* Of the interfaces that are still there, the daemon knows each, once for *)
(* each address and in their order, by its own hardware address and index  *)
(* (get_hw_addrs_aa19.c:46-73, odr_aa19.c:142-169).                        *)
InterfacesKnown ==
    boot = "ready" =>
        /\ Len(Interfaces) = Place(Len(whole))
        /\ \A i \in DOMAIN whole : whole[i] \notin Skipped \cup gone =>
              mem[Interfaces[Place(i)]] = [sll_addr |-> whole[i], sll_ifindex |-> whole[i]]

(* The discovery comes to an end (get_hw_addrs_aa19.c:24-38).              *)
DiscoveryEnds == <>(boot \in {"ready", "exit"})

=============================================================================
