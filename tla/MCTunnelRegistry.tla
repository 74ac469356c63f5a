------------------------- MODULE MCTunnelRegistry -------------------------
(***************************************************************************)
(* The tunnel registry for TLC: every connection comes from the same       *)
(* address.                                                                *)
(***************************************************************************)
EXTENDS TunnelRegistry

OneIp == [c \in Conns |-> "ip"]
=============================================================================
