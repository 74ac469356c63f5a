----------------------------- MODULE MCBackends -----------------------------
(***************************************************************************)
(* The backends of one tunnel for TLC.  Identifiers are never reused, so   *)
(* Backends also bounds the number of adds and of tasks; one admin call is *)
(* in progress at a time for each backend and operation.                   *)
(***************************************************************************)
EXTENDS Backends, TLC

CONSTANTS
    MaxCalls,   \* admin calls in progress
    Flaky       \* the backends that change between up and down, and that are
                \* checked by force: the others stay up

MCNext ==
    \/ /\ \/ \E b \in Backends : AddLookup(b) \/ RemoveLookup(b)
          \/ \E b \in Flaky : ForceLookup(b)
       /\ Cardinality(calls') <= MaxCalls
    \/ \E b \in Backends : CallStep(b) \/ TaskStep(b)
    \/ \E b \in Flaky : Toggle(b)
    \/ TunnelEnds

MCInit == Init /\ Backends \ Flaky \subseteq up

MCSpec == MCInit /\ [][MCNext]_vars /\ Fairness
=============================================================================
