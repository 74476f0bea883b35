------------------------------ MODULE ClientApp ------------------------------
(***************************************************************************)
(* client_aa19.c: for each name the user enters, a client makes a socket,  *)
(* sends its daemon the address, waits 3 seconds, sends it once more with  *)
(* the discovery flag set, waits again and gives up.                       *)
(***************************************************************************)
EXTENDS UnixSockets

CONSTANTS
    Targets,    \* Targets[c]: the servers the user of c may name
    AddrLens    \* whether the unset address length of msg_recv can be valid

ASSUME ClientAssumption ==
    /\ Targets \in [Clients -> SUBSET Nodes]
    /\ AddrLens \subseteq BOOLEAN /\ AddrLens # {}

VARIABLES
    cpc,      \* cpc[c]: where client c is
    target,   \* target[c]: the server it asked last
    outcome   \* history: outcome[c] is what its last request came to

clientVars == << cpc, target, outcome >>

(* prompt: waiting for the user; wait1, wait2: waiting for a reply; gone.  *)
CPCs == {"prompt", "wait1", "wait2", "gone"}
Outcomes == {"none", "asked", "first", "second"}

ClientInit ==
    /\ cpc = [c \in Clients |-> "prompt"]
    /\ target = Home
    /\ outcome = [c \in Clients |-> "none"]

(* The client's process ends; the sockets it had go with it.               *)
Leave(c) ==
    /\ cpc' = [cpc EXCEPT ![c] = "gone"]
    /\ sock' = [sock EXCEPT ![c] = 0]
    /\ cli' = [cli EXCEPT ![c] = << >>]

(* msg_send to the daemon, which up tells to be bound to its socket.       *)
MsgSend(c, number, dest, flag) ==
    un' = [un EXCEPT ![Home[c]] =
              Append(@, [kind |-> "request", from |-> << c, number >>,
                         dest |-> dest, forced |-> flag])]

Ask(c, up) ==
    /\ cpc[c] = "prompt"
    /\ sock[c] < MaxRequests
    /\ \E d \in Targets[c] :
          /\ target' = [target EXCEPT ![c] = d]
          /\ IF up
             THEN /\ MsgSend(c, sock[c] + 1, d, 0)
                  /\ sock' = [sock EXCEPT ![c] = @ + 1]
                  /\ cli' = [cli EXCEPT ![c] = << >>]
                  /\ cpc' = [cpc EXCEPT ![c] = "wait1"]
             ELSE Leave(c) /\ UNCHANGED un
    /\ outcome' = [outcome EXCEPT ![c] = "asked"]
    /\ UNCHANGED srv

(* Mutant: the second try does not ask for a new discovery.                *)
AskAgain_Unforced(c, up) ==
    IF up
    THEN /\ MsgSend(c, sock[c], target[c], 0)
         /\ cpc' = [cpc EXCEPT ![c] = "wait2"]
         /\ UNCHANGED sock
    ELSE Leave(c) /\ UNCHANGED un

(* The second try, on the same socket.                                     *)
AskAgain(c, up) ==
    IF up
    THEN /\ MsgSend(c, sock[c], target[c], 1)
         /\ cpc' = [cpc EXCEPT ![c] = "wait2"]
         /\ UNCHANGED sock
    ELSE Leave(c) /\ UNCHANGED un

(* A reply in time.  msg_recv takes it off the socket even when it reports *)
(* an error because of the address length it never set.                    *)
Receive(c, up) ==
    /\ cpc[c] = "wait1"
    /\ cli[c] # << >>
    /\ \/ /\ TRUE \in AddrLens
          /\ cli' = [cli EXCEPT ![c] = Tail(@)]
          /\ cpc' = [cpc EXCEPT ![c] = "prompt"]
          /\ outcome' = [outcome EXCEPT ![c] = "first"]
          /\ UNCHANGED << un, sock >>
       \/ /\ FALSE \in AddrLens
          /\ AskAgain(c, up)
          /\ cli' = [cli EXCEPT ![c] = IF up THEN Tail(@) ELSE << >>]
          /\ UNCHANGED outcome
    /\ UNCHANGED << srv, target >>

Timeout(c, up) ==
    /\ cpc[c] = "wait1"
    /\ cli[c] = << >>
    /\ AskAgain(c, up)
    /\ cli' = cli
    /\ UNCHANGED << srv, target, outcome >>

(* The second wait: what msg_recv returns is not looked at.                *)
ReceiveAgain(c) ==
    /\ cpc[c] = "wait2"
    /\ cli[c] # << >>
    /\ cli' = [cli EXCEPT ![c] = Tail(@)]
    /\ cpc' = [cpc EXCEPT ![c] = "prompt"]
    /\ outcome' = [outcome EXCEPT ![c] = "second"]
    /\ UNCHANGED << un, srv, sock, target >>

GiveUp(c) ==
    /\ cpc[c] = "wait2"
    /\ cli[c] = << >>
    /\ Leave(c)
    /\ UNCHANGED << un, srv, target, outcome >>

(* The user enters a word that begins with q, or with Q, or one that       *)
(* is none of vm1 to vm10: either ends the client.                         *)
Quit(c) ==
    /\ cpc[c] = "prompt"
    /\ Leave(c)
    /\ UNCHANGED << un, srv, target, outcome >>

=============================================================================
