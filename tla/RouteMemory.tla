---------------------------- MODULE RouteMemory ----------------------------
(***************************************************************************)
(* What the routing tables promise, whatever packets reach their owners:   *)
(* a step changes one entry of one table, each change is dated, a route    *)
(* that is not stale is given up only for a shorter one, and nothing is    *)
(* forgotten but all at once, when its owner ends.                         *)
(***************************************************************************)
EXTENDS Integers

CONSTANTS Owners, Keys, NoRoute, SP

VARIABLES
    table,    \* table[n][key]: n's route for key
    running,  \* running[n]: n has not ended
    now

Nothing == [key \in Keys |-> NoRoute]

Init == table = [n \in Owners |-> Nothing]

Known(n, key) == table[n][key] # NoRoute

(* n has a new route for one key, and everything else as before.           *)
Put(n, key) ==
    /\ table' = [table EXCEPT ![n] = [@ EXCEPT ![key] = table'[n][key]]]
    /\ Known(n, key)'
    /\ table'[n][key].ts = now

Learn(n, key) == ~ Known(n, key) /\ Put(n, key)

Improve(n, key) ==
    /\ Known(n, key) /\ Put(n, key)
    /\ table'[n][key].hop < table[n][key].hop

(* The next hop of a stale route may be any other, but its hop count does  *)
(* not grow.                                                               *)
Renew(n, key) ==
    /\ Known(n, key) /\ Put(n, key)
    /\ now - table[n][key].ts > SP
    /\ table'[n][key].hop <= table[n][key].hop

Forget(n) ==
    /\ ~ running'[n]
    /\ table' = [table EXCEPT ![n] = Nothing]

Next ==
    \E n \in Owners :
        \/ \E key \in Keys : Learn(n, key) \/ Improve(n, key) \/ Renew(n, key)
        \/ Forget(n)

Spec == Init /\ [][Next]_table

=============================================================================
