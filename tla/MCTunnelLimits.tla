--------------------------- MODULE MCTunnelLimits ---------------------------
(***************************************************************************)
(* The tunnel registry and its limits for TLC: one connection comes from   *)
(* another address than the rest.                                          *)
(***************************************************************************)
EXTENDS TunnelLimits, TLC

CONSTANT elsewhere

TwoIps == [c \in Conns |-> IF c = elsewhere THEN "other" ELSE "ip"]
\* Connections of one address are interchangeable, and so are names.
Interchangeable == Permutations(Conns \ {elsewhere}) \cup Permutations(Subs)
=============================================================================
