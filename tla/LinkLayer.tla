------------------------------ MODULE LinkLayer ------------------------------
(***************************************************************************)
(* The frames in transit, as the two senders of odr_aa19.c put them there. *)
(* A switched segment keeps the frames of one sender to one receiver in    *)
(* order and may lose any of them; it does not order the frames of         *)
(* different senders.  chan[k] also stands for what is still unread in the *)
(* raw socket of k.to.                                                     *)
(***************************************************************************)
EXTENDS Topology, Sequences

CONSTANT Aliased  \* the <<node, segment>> whose interface has a second address

ASSUME AliasAssumption == Aliased \subseteq Nodes \X Lans

VARIABLE chan  \* chan[k]: the frames on link k, oldest first

LinkInit == chan = [k \in Links |-> << >>]

(* What a handler sends: the frames it puts on each link.                  *)
Silence == [k \in Links |-> << >>]

(* if_info_list has an element for each address of an interface, and both  *)
(* senders send at every element that fits.                                *)
Copies(n, lan, packet) ==
    IF << n, lan >> \in Aliased THEN << packet, packet >> ELSE << packet >>

(* Out of every interface of n but the one the packet came in by.          *)
broadcast_ll_msg(n, packet, recv_if) ==
    [k \in Links |-> IF k.from = n /\ k.lan # recv_if
                     THEN Copies(n, k.lan, packet) ELSE << >>]

(* To one station, out of one interface.                                   *)
send_ll_msg(n, packet, to, lan) ==
    [k \in Links |-> IF k = [lan |-> lan, from |-> n, to |-> to]
                     THEN Copies(n, lan, packet) ELSE << >>]

(* First the frames of one call, then those of the next.                   *)
Then(first, second) == [k \in Links |-> first[k] \o second[k]]

Emit(out) == chan' = [k \in Links |-> chan[k] \o out[k]]

(* recvfrom of the oldest frame of link k, and the sends that follow.      *)
Consume(k, out) ==
    /\ chan[k] # << >>
    /\ chan' = [j \in Links |->
                  (IF j = k THEN Tail(chan[j]) ELSE chan[j]) \o out[j]]

=============================================================================
