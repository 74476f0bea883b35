---------------------------- MODULE TimeService ----------------------------
(***************************************************************************)
(* What the service promises its clients, without daemons or routes: a     *)
(* client asks one server for the time, only that server is read, only     *)
(* after the question, and the client gets at most one answer to it.       *)
(***************************************************************************)
CONSTANTS
    Clients,
    Servers,
    None     \* no server, or no answer

VARIABLES
    phase,   \* phase[c]: idle, asked, served, answered or gone
    asked,   \* asked[c]: the server c has asked
    answer   \* answer[c]: the server whose time has reached c

serviceVars == << phase, asked, answer >>

Init ==
    /\ phase = [c \in Clients |-> "idle"]
    /\ asked = [c \in Clients |-> None]
    /\ answer = [c \in Clients |-> None]

Ask(c) ==
    /\ phase[c] = "idle"
    /\ phase' = [phase EXCEPT ![c] = "asked"]
    /\ \E s \in Servers : asked' = [asked EXCEPT ![c] = s]
    /\ UNCHANGED answer

(* The server that c has asked looks at its clock.                         *)
Serve(c) ==
    /\ phase[c] = "asked"
    /\ phase' = [phase EXCEPT ![c] = "served"]
    /\ UNCHANGED << asked, answer >>

(* What it saw is lost; c may still be waiting for it.                     *)
Lose(c) ==
    /\ phase[c] = "served"
    /\ phase' = [phase EXCEPT ![c] = "asked"]
    /\ UNCHANGED << asked, answer >>

Answer(c) ==
    /\ phase[c] = "served"
    /\ phase' = [phase EXCEPT ![c] = "answered"]
    /\ answer' = [answer EXCEPT ![c] = asked[c]]
    /\ UNCHANGED asked

Take(c) ==
    /\ phase[c] = "answered"
    /\ phase' = [phase EXCEPT ![c] = "idle"]
    /\ asked' = [asked EXCEPT ![c] = None]
    /\ answer' = [answer EXCEPT ![c] = None]

Leave(c) ==
    /\ phase[c] \in {"idle", "asked", "served"}
    /\ phase' = [phase EXCEPT ![c] = "gone"]
    /\ asked' = [asked EXCEPT ![c] = None]
    /\ answer' = [answer EXCEPT ![c] = None]

Next ==
    \E c \in Clients : Ask(c) \/ Serve(c) \/ Lose(c) \/ Answer(c) \/ Take(c) \/ Leave(c)

Spec == Init /\ [][Next]_serviceVars

=============================================================================
