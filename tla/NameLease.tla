----------------------------- MODULE NameLease -----------------------------
(***************************************************************************)
(* What the relay promises about public names: a name is leased to one     *)
(* client at a time.  A client asks once; if the name is free it holds the *)
(* lease until its own session ends, and nobody else can end it.  A        *)
(* session that breaks before the lease was confirmed may leave the lease  *)
(* behind.  Once the relay shuts down nothing is promised.                 *)
(***************************************************************************)
CONSTANTS Names, Clients, Nobody

VARIABLES lease,  \* [Names -> Clients \cup {Nobody}]
          phase,  \* "asking", "pending" (leased, not confirmed), "holding", "over"
          open    \* the relay is not shutting down

vars == <<lease, phase, open>>

Phases == {"asking", "pending", "holding", "over"}

Init ==
    /\ lease = [n \in Names |-> Nobody]
    /\ phase = [c \in Clients |-> "asking"]
    /\ open = TRUE

Move(c, from, to) ==
    /\ phase[c] = from
    /\ phase' = [phase EXCEPT ![c] = to]

Acquire(c, n) ==
    /\ Move(c, "asking", "pending")
    /\ lease[n] = Nobody
    /\ lease' = [lease EXCEPT ![n] = c]

Confirm(c) == Move(c, "pending", "holding") /\ UNCHANGED lease

Refuse(c) == Move(c, "asking", "over") /\ UNCHANGED lease

\* The only way a lease outlives its session.
Abandon(c) == Move(c, "pending", "over") /\ UNCHANGED lease

Release(c, n) ==
    /\ Move(c, "holding", "over")
    /\ lease[n] = c
    /\ lease' = [lease EXCEPT ![n] = Nobody]

Shutdown ==
    /\ open' = FALSE
    /\ UNCHANGED phase
    /\ lease' = [n \in Names |-> Nobody]

AfterShutdown ==
    /\ ~open /\ ~open'
    /\ lease' \in [Names -> Clients \cup {Nobody}]
    /\ phase' \in [Clients -> Phases]

Next ==
    \/ /\ open /\ UNCHANGED open
       /\ \E c \in Clients :
            \/ Confirm(c) \/ Refuse(c) \/ Abandon(c)
            \/ \E n \in Names : Acquire(c, n) \/ Release(c, n)
    \/ open /\ Shutdown
    \/ AfterShutdown

Spec == Init /\ [][Next]_vars
=============================================================================
