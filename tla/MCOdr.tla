-------------------------------- MODULE MCOdr --------------------------------
(***************************************************************************)
(* Small networks and the clients on them, for TLC.                        *)
(***************************************************************************)
EXTENDS OdrProperties, TLC

CONSTANTS a, b, c, d, e, L1, L2, L3, L4, L5, x, y

Line3 == L1 :> {a, b} @@ L2 :> {b, c}
Triangle == L1 :> {a, b} @@ L2 :> {b, c} @@ L3 :> {c, a}
Ring4 == L1 :> {a, b} @@ L2 :> {b, c} @@ L3 :> {c, d} @@ L4 :> {d, a}
(* Two ways from a to c, and a RREQ can come back to a through b and d.    *)
Chord == Ring4 @@ L5 :> {b, d}
(* a, b and d share a segment; b and d each have a second way to c, and e  *)
(* is behind c.                                                            *)
Kite == L1 :> {a, b, d} @@ L2 :> {b, c} @@ L3 :> {c, d} @@ L4 :> {c, e}

NoAlias == {}
AliasAtA == {<< a, L1 >>}

XatA == x :> a
XatAYatB == x :> a @@ y :> b
XatAYatC == x :> a @@ y :> c
ToC == [z \in Clients |-> {c}]
ToE == [z \in Clients |-> {e}]
Crossed == x :> {c} @@ y :> {a}
ToBC == [z \in Clients |-> {b, c}]

=============================================================================
