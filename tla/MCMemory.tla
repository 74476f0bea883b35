------------------------------ MODULE MCMemory ------------------------------
(***************************************************************************)
(* A machine with lo, eth0 and two more interfaces, for TLC.               *)
(***************************************************************************)
EXTENDS DaemonMemory, TLC

CONSTANTS a, b, lo, eth0, L1, L2

(* As it is, without a wire, with alias addresses, with nothing of its own. *)
Machines ==
    { << lo, eth0, L1, L2 >>, << lo, eth0, L1 >>, << lo, L1, L1 >>,
      << lo, L1, L1, L2 >>, << lo >>, << >> }
OnTwo == L1 :> {a} @@ L2 :> {b}

=============================================================================
