--------------------------- MODULE MCClientRelay ---------------------------
(***************************************************************************)
(* The client and the relay for TLC.                                       *)
(***************************************************************************)
EXTENDS ClientRelay

\* Every connection comes from the client's address.
OneIp == [c \in Conns |-> "ip"]
=============================================================================
