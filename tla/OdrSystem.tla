------------------------------ MODULE OdrSystem ------------------------------
(***************************************************************************)
(* The whole service: on every node a daemon, on some a time server, and   *)
(* the clients, over the Ethernet segments and the local sockets.          *)
(***************************************************************************)
EXTENDS Odr, ClientApp, ServerApp

CONSTANTS
    Lossy,     \* whether a segment may lose frames
    Mortal,    \* the nodes whose daemon may be killed
    Calm,      \* whether daemons are killed and started between requests only
    Patient    \* whether a client's 3 seconds outlast everything under way

ASSUME SystemAssumption ==
    /\ {Lossy, Calm, Patient} \subseteq BOOLEAN
    /\ Mortal \subseteq Nodes

vars == << chan, odrVars, sockets, clientVars >>

Init == LinkInit /\ SocketInit /\ OdrInit /\ ClientInit

Up(n) == pc[n] # "down"

(* Nothing is under way: whoever waits now waits in vain.                  *)
Quiet ==
    /\ \A k \in Links : Up(k.to) => chan[k] = << >>
    /\ \A n \in Nodes : un[n] = << >> /\ srv[n] = 0 /\ held[n] = NoPacket

Receives(c) ==
    /\ Receive(c, Up(Home[c])) \/ ReceiveAgain(c)
    /\ UNCHANGED << chan, odrVars >>

TimesOut(c) ==
    /\ Patient => Quiet
    /\ Timeout(c, Up(Home[c])) \/ GiveUp(c)
    /\ UNCHANGED << chan, odrVars >>

(* No request is under way.                                                *)
Idle == Quiet /\ \A c \in Clients : cpc[c] \notin {"wait1", "wait2"}

Asks(c) ==
    /\ Calm => \A n \in Nodes : Up(n)
    /\ Ask(c, Up(Home[c]))
    /\ UNCHANGED << chan, odrVars >>

Quits(c) == Quit(c) /\ UNCHANGED << chan, odrVars >>

Serves(n) == Serve(n, Up(n)) /\ UNCHANGED << chan, odrVars, clientVars >>

Daemon(n) == OdrStep(n) /\ UNCHANGED clientVars

Environment ==
    /\ \/ (Calm => Idle) /\ \E n \in Mortal : Crash(n)
       \/ \E n \in Nodes : Start(n)
       \/ \E k \in Links : Unheard(k)
       \/ Lossy /\ \E k \in Links : Lose(k)
       \/ Tick
    /\ UNCHANGED clientVars

Next ==
    \/ \E n \in Nodes : Daemon(n) \/ Serves(n)
    \/ \E c \in Clients : Asks(c) \/ Receives(c) \/ TimesOut(c) \/ Quits(c)
    \/ Environment

Spec == Init /\ [][Next]_vars

(* Every process that can run goes on running; a wait of 3 seconds ends.   *)
Fairness ==
    /\ \A n \in Nodes : WF_vars(Daemon(n)) /\ WF_vars(Serves(n))
    /\ \A c \in Clients : WF_vars(Receives(c)) /\ WF_vars(TimesOut(c))

FairSpec == Spec /\ Fairness

=============================================================================
