----------------------------- MODULE MCIngress -----------------------------
(***************************************************************************)
(* The ingress for TLC: two names, and one domain in two spellings, of     *)
(* which only the lower-case one is the subdomain of a name.  The clock    *)
(* runs up to MaxTime while a bucket is in use, the configuration changes  *)
(* at most MaxChanges times, and MaxRequests requests arrive.              *)
(***************************************************************************)
EXTENDS Ingress, TLC

CONSTANTS MaxTime, MaxChanges, MaxRequests

VARIABLES changes, requests

mcvars == <<vars, changes, requests>>

MCHosts == {"s.base", "S.base"}
MCLower == [h \in MCHosts |-> "s.base"]
MCSubOf == [h \in MCHosts |-> IF h = "s.base" THEN "s" ELSE None]
MCDdosReqs == {[enabled |-> TRUE, rps |-> None, burst |-> 1],
               [enabled |-> None, rps |-> 0, burst |-> None]}
Symmetry == Permutations(Conns) \cup Permutations(Entries)

MCInit == Init /\ changes = 0 /\ requests = 0

\* Admin requests, and tunnels that come and go, spend the budget of changes.
Change ==
    /\ changes < MaxChanges /\ changes' = changes + 1
    /\ \/ \E d \in Domains : SetRoute(d)
       \/ \E s \in Subs : AdminStarts(s) \/ RemoveCustomDomain(s) \/ TunnelCloses(s)
       \/ \E s \in Subs, x \in Entries : TunnelOpens(s, x)
    /\ UNCHANGED requests

Arrive ==
    /\ requests < MaxRequests /\ requests' = requests + 1
    /\ \E c \in Conns : ReadHead(c) \/ EndEarly(c)
    /\ UNCHANGED changes

Work ==
    /\ \/ \E c \in Conns : req[c].pc # "done" /\ RouteHttp(c)
       \/ SetPaused \/ SetCustomDomain \/ SetDdosEnabled \/ SetDdosRps \/ SetDdosBurst
       \/ now < MaxTime /\ (\E x \in Entries : entry[x].on) /\ Tick
    /\ UNCHANGED <<changes, requests>>

\* The bounds end the instance, not the relay: nothing is left under way.
Spent ==
    /\ requests = MaxRequests /\ adm.op = "idle" /\ \A c \in Conns : req[c].pc = "done"
    /\ UNCHANGED mcvars

MCSpec == MCInit /\ [][Change \/ Arrive \/ Work \/ Spent]_mcvars
=============================================================================
