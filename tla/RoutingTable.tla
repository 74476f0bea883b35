---------------------------- MODULE RoutingTable ----------------------------
(***************************************************************************)
(* rtbl.h: what one daemon's routing table does with a packet.  The table  *)
(* holds at most one entry per key, so it is a function from keys to       *)
(* entries; NoRoute marks a key without one.  The operators are the        *)
(* functions of rtbl.h, on the table before the call.                      *)
(***************************************************************************)
EXTENDS Topology

CONSTANTS
    NoRoute,  \* no entry
    Bogus,    \* an address, or an index, that belongs to no node
    JunkKeys, \* what get_index_from_ip can return for such an address
    SP        \* the staleness parameter, argv[1]

Addresses == Nodes \cup {Bogus}

(* struct routing_table: next hop, interface, hop count and time stamp.    *)
Route == [via : Nodes, lan : Lans, hop : Int, ts : Nat]

ASSUME RouteAssumption ==
    /\ NoRoute \notin Route
    /\ Bogus \notin Nodes
    /\ JunkKeys \subseteq Addresses /\ JunkKeys # {}
    /\ SP \in Int

Table == [Addresses -> Route \cup {NoRoute}]

EmptyTable == [a \in Addresses |-> NoRoute]

entry_exists_for_src(table, key) == table[key] # NoRoute

(* The values get_index_from_ip can return.  For an address without a name *)
(* it reads an uninitialized buffer.                                       *)
get_index_from_ip(address) == IF address \in Nodes THEN {address} ELSE JunkKeys

Stale(entry, now) == now - entry.ts > SP

(* Mutant: any route replaces the one there is.                            *)
CompareAndUpdate_Latest(entry, hop, stale_hop, via, lan, now) ==
    [via |-> via, lan |-> lan, hop |-> hop, ts |-> now]

(* Mutant: a stale entry takes the new hop count, smaller or not.          *)
CompareAndUpdate_StaleHop(entry, hop, stale_hop, via, lan, now) ==
    IF Stale(entry, now) \/ entry.hop > hop
    THEN [via |-> via, lan |-> lan, hop |-> hop, ts |-> now]
    ELSE entry

(***************************************************************************)
(* The compare-and-update loop that update_rtbl_entry repeats for every    *)
(* kind of packet.  A stale entry takes the new next hop but keeps its hop *)
(* count when that is the smaller one; a fresh entry changes only for a    *)
(* smaller hop count, and its time stamp with it.                          *)
(***************************************************************************)
CompareAndUpdate(entry, hop, stale_hop, via, lan, now) ==
    IF Stale(entry, now)
    THEN [via |-> via, lan |-> lan, ts |-> now,
          hop |-> IF entry.hop > stale_hop THEN stale_hop ELSE entry.hop]
    ELSE IF entry.hop > hop
         THEN [via |-> via, lan |-> lan, hop |-> hop, ts |-> now]
         ELSE entry

(* The entry of `key' after a packet that came from `via' over `lan'.      *)
Learn(table, key, hop, stale_hop, via, lan, now) ==
    [table EXCEPT ![key] =
        IF entry_exists_for_src(table, key)
        THEN CompareAndUpdate(@, hop, stale_hop, via, lan, now)
        ELSE [via |-> via, lan |-> lan, hop |-> hop, ts |-> now]]

(***************************************************************************)
(* update_rtbl_entry.  `dest_key' is the index of the packet's destination.*)
(* A RREQ with rrep_sent set runs the same update a second time, which     *)
(* changes nothing.  For a RREP the stale branch compares with the RREQ    *)
(* header's hop count, which is what the code reads.  A DATA packet        *)
(* updates an entry that exists and never adds one, and its hop count is   *)
(* the one left in the RREQ header.                                        *)
(***************************************************************************)
update_rtbl_entry(table, packet, dest_key, via, lan, now) ==
    CASE packet.type = "RREQ" ->
           Learn(table, packet.src, packet.rreq_hop, packet.rreq_hop, via, lan, now)
      [] packet.type = "RREP" ->
           Learn(table, dest_key, packet.rrep_hop, packet.rreq_hop, via, lan, now)
      [] packet.type = "DATA" ->
           LET key == IF packet.src_dest = 1 THEN packet.src ELSE dest_key
           IN  IF entry_exists_for_src(table, key)
               THEN Learn(table, key, packet.rreq_hop, packet.rreq_hop, via, lan, now)
               ELSE table

=============================================================================
