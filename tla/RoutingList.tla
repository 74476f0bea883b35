---------------------------- MODULE RoutingList ----------------------------
(***************************************************************************)
(* rtbl.h once more, now with the list it keeps its entries in.  What      *)
(* RoutingTable says of a table as a function is shown of this one.        *)
(* LearnInList gives the heap after one of the update blocks, and whether  *)
(* that block returned from update_rtbl_entry.                             *)
(***************************************************************************)
EXTENDS LinkedList, RoutingTable

(* The places in the traversal at which an entry with the key is met.      *)
Matching(h, key) ==
    LET list == Backwards(h.links, RTBL)
    IN  {i \in DOMAIN list : h.mem[list[i]].key = key}

(* Mutant: the list is never searched.                                     *)
entry_in_list_Never(h, key) == FALSE

entry_in_list(h, key) == Matching(h, key) # {}

(* The traversal goes on after an entry that is fresh, and returns at the  *)
(* first stale one.                                                        *)
CompareInList(h, key, hop, stale_hop, via, lan, now) ==
    LET list == Backwards(h.links, RTBL)
        met == Matching(h, key)
        StaleAt == {i \in met : Stale(h.mem[list[i]].route, now)}
        Reached == {i \in met : \A j \in StaleAt : i <= j}
    IN  [h EXCEPT !.done = StaleAt # {},
                  !.mem = [p \in Cells |->
                      IF \E i \in Reached : list[i] = p
                      THEN [key |-> key,
                            route |-> CompareAndUpdate(h.mem[p].route, hop, stale_hop,
                                                       via, lan, now)]
                      ELSE h.mem[p]]]

AddToList(h, key, hop, via, lan, now) ==
    [links |-> list_add(h.links, h.brk, RTBL),
     mem |-> [h.mem EXCEPT ![h.brk] =
                [key |-> key, route |-> [via |-> via, lan |-> lan, hop |-> hop, ts |-> now]]],
     brk |-> h.brk + 1,
     done |-> FALSE]

LearnInList(h, key, hop, stale_hop, via, lan, now) ==
    IF entry_in_list(h, key) THEN CompareInList(h, key, hop, stale_hop, via, lan, now)
    ELSE AddToList(h, key, hop, via, lan, now)

(* Mutant: a stale entry is compared with the hop count in the RREP.       *)
stale_hop_of_Rrep(packet) == packet.rrep_hop

(* What a stale entry is compared with, for a RREP too.                    *)
stale_hop_of(packet) == packet.rreq_hop

(* A RREQ with rrep_sent set runs its update again, unless the first run   *)
(* has returned.                                                           *)
update_list(h, packet, dest_key, via, lan, now) ==
    CASE packet.type = "RREQ" ->
           LET Block(g) == LearnInList(g, packet.src, packet.rreq_hop, packet.rreq_hop,
                                       via, lan, now)
               once == Block(h)
           IN  IF packet.rrep_sent = 1 /\ ~ once.done THEN Block(once) ELSE once
      [] packet.type = "RREP" ->
           LearnInList(h, dest_key, packet.rrep_hop, stale_hop_of(packet), via, lan, now)
      [] packet.type = "DATA" ->
           LET key == IF packet.src_dest = 1 THEN packet.src ELSE dest_key
           IN  IF entry_in_list(h, key)
               THEN CompareInList(h, key, packet.rreq_hop, packet.rreq_hop, via, lan, now)
               ELSE h

(* get_rtbl_entry: the first entry with the key.                           *)
TableOf(h) ==
    [key \in Addresses |->
        LET list == Backwards(h.links, RTBL)
            met == Matching(h, key)
        IN  IF entry_in_list(h, key)
            THEN h.mem[list[CHOOSE i \in met : \A j \in met : i <= j]].route
            ELSE NoRoute]

=============================================================================
