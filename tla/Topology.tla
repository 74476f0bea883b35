------------------------------ MODULE Topology ------------------------------
(***************************************************************************)
(* The virtual machines and the Ethernet segments that join them.  A node  *)
(* has one interface on each segment it is attached to (lo and eth0 are    *)
(* left out, as fill_if_info_list does), so a pair (node, lan) stands for  *)
(* an interface, for its index and for its hardware address alike.         *)
(***************************************************************************)
EXTENDS Integers

CONSTANTS
    Nodes,   \* the virtual machines; a node is also its own IP address
    Lans,    \* the Ethernet segments
    Attach,  \* Attach[l]: the nodes with an interface on segment l
    NoLan    \* the interface index -1, "leave out no interface"

ASSUME TopologyAssumption ==
    /\ Attach \in [Lans -> SUBSET Nodes]
    /\ NoLan \notin Lans

(* One direction between two interfaces of a segment.                      *)
Links ==
    {k \in [lan : Lans, from : Nodes, to : Nodes] :
        k.from # k.to /\ {k.from, k.to} \subseteq Attach[k.lan]}

=============================================================================
