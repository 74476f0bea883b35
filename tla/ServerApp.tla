------------------------------ MODULE ServerApp ------------------------------
(***************************************************************************)
(* server_aa19.c: whatever arrives on its socket is a request for the      *)
(* time, and the time goes back to where it came from, which is always the *)
(* daemon of its machine.                                                  *)
(***************************************************************************)
EXTENDS UnixSockets

(* msg_recv_srv, ctime and msg_send_srv; up tells the daemon to be bound   *)
(* to its socket.                                                          *)
Serve(n, up) ==
    /\ n \in Servers
    /\ srv[n] > 0
    /\ srv' = [srv EXCEPT ![n] = @ - 1]
    /\ un' = IF up THEN [un EXCEPT ![n] = Append(@, [kind |-> "time", from |-> SrvAddr])]
             ELSE un
    /\ UNCHANGED << sock, cli >>

=============================================================================
