---------------------------- MODULE MCAdmission ----------------------------
(***************************************************************************)
(* The doors for TLC.  The clock stops at MaxTime, SIGHUP arrives          *)
(* MaxReloads times and MaxAccepts connections arrive.                     *)
(***************************************************************************)
EXTENDS Admission

CONSTANTS MaxTime, MaxReloads, MaxAccepts

VARIABLES reloads, accepts

mcvars == <<avars, reloads, accepts>>

MCIpOf == [c \in Conns |-> "a"]
MCTokenOf == [c \in Clients |-> "t"]
MCNameOf == [c \in Clients |-> "n"]

\* The relay starts with one token in force and nothing blocked or denied.
MCInit ==
    /\ AInit /\ reloads = 0 /\ accepts = 0
    /\ tokens = {"t"} /\ blocked = {} /\ denied = {}

Arrive ==
    /\ accepts < MaxAccepts /\ accepts' = accepts + 1
    /\ \E c \in Conns : Accept(c)
    /\ UNCHANGED reloads

Signal ==
    /\ reloads < MaxReloads /\ reloads' = reloads + 1
    /\ Sighup
    /\ UNCHANGED accepts

Work ==
    /\ \/ ReloadLists
       \/ \E c \in Conns : CheckDenylist(c) \/ RateAdmits(c) \/ RateRefuses(c)
       \/ \E c \in Clients : ClientStep(c)
       \/ \E p \in Peers : PeerStep(p)
       \/ now < MaxTime /\ ClockTick
    /\ UNCHANGED <<reloads, accepts>>

\* The bounds end the instance, not the relay: nothing is left under way.
Spent ==
    /\ accepts = MaxAccepts /\ reloads = MaxReloads /\ now = MaxTime
    /\ \A c \in Conns : pc[c] = "done"
    /\ UNCHANGED mcvars

MCSpec ==
    /\ MCInit /\ [][Arrive \/ Signal \/ Work \/ Spent]_mcvars
    /\ \A p \in Peers : WF_mcvars(Finish(p) /\ UNCHANGED <<reloads, accepts>>)
=============================================================================
