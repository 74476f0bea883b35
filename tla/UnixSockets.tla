----------------------------- MODULE UnixSockets -----------------------------
(***************************************************************************)
(* The Unix-domain datagram sockets of one virtual machine each: the       *)
(* daemon's at ODR_UN_PATH, the time server's at SRV_UN_PATH, and one that *)
(* a client makes for each request.  Datagrams between local sockets are   *)
(* kept in order and not lost; one sent to an address nobody is bound to   *)
(* is refused.  A client keeps the sockets of its earlier requests open    *)
(* and never reads them again, so cli holds its newest socket only.        *)
(***************************************************************************)
EXTENDS Topology, Sequences

CONSTANTS
    Clients,      \* the client processes
    Home,         \* Home[c]: the node client c runs on
    Servers,      \* the nodes a time server runs on
    MaxRequests,  \* bound: requests one client makes
    SrvAddr,      \* the address SRV_UN_PATH
    NoAddr        \* an address structure nobody has filled in

ASSUME SocketAssumption ==
    /\ Home \in [Clients -> Nodes]
    /\ Servers \subseteq Nodes
    /\ MaxRequests \in Nat
    /\ SrvAddr # NoAddr
    /\ {SrvAddr, NoAddr} \cap (Clients \X (1 .. MaxRequests)) = {}

VARIABLES
    un,    \* un[n]: the datagrams unread in the daemon's socket at n
    srv,   \* srv[n]: how many requests are unread in the server's socket at n
    sock,  \* sock[c]: the number of c's newest socket, 0 when it has none
    cli    \* cli[c]: the replies unread in that socket

sockets == << un, srv, sock, cli >>

ClientAddr == Clients \X (1 .. MaxRequests)
Addrs == ClientAddr \cup {SrvAddr, NoAddr}

SocketInit ==
    /\ un = [n \in Nodes |-> << >>]
    /\ srv = [n \in Nodes |-> 0]
    /\ sock = [c \in Clients |-> 0]
    /\ cli = [c \in Clients |-> << >>]

(* Whether sendto finds somebody bound to the address, at node n.          *)
Reachable(n, addr) ==
    \/ addr = SrvAddr /\ n \in Servers
    \/ addr \in ClientAddr /\ sock[addr[1]] # 0

(* A reply arrives at addr.  The server takes it for a request; a client   *)
(* sees it only on the socket it listens to.                               *)
SendToApp(n, addr, reply) ==
    /\ srv' = IF addr = SrvAddr THEN [srv EXCEPT ![n] = @ + 1] ELSE srv
    /\ cli' = IF addr \in ClientAddr /\ sock[addr[1]] = addr[2]
              THEN [cli EXCEPT ![addr[1]] = Append(@, reply)] ELSE cli
    /\ UNCHANGED sock

=============================================================================
