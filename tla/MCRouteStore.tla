---------------------------- MODULE MCRouteStore ----------------------------
(***************************************************************************)
(* Instances of the route store for TLC.                                   *)
(***************************************************************************)
EXTENDS RouteStore, TLC

\* Routes, inodes, generated identities and requests are interchangeable.
Interchangeable ==
    Permutations(RouteIds) \cup Permutations(Inodes) \cup
    Permutations(Idents) \cup Permutations(Requests)
=============================================================================
