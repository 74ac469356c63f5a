---------------------------- MODULE TunnelLimits ----------------------------
(***************************************************************************)
(* The two limits on tunnels, --max-tunnels and --max-tunnels-per-ip.      *)
(* handle_client counts the entries under the mutex and releases it; the   *)
(* entry that the count admits is inserted several awaits later, so that   *)
(* registrations which are under way together exceed the limit.  This      *)
(* module adds to the tunnel registry the history that tells by how many.  *)
(***************************************************************************)
EXTENDS TunnelRegistry

VARIABLES
    crowd,   \* the largest number of registrations that were under way at once
    crowdOf  \* the same for each address and its own limit

limitVars == <<vars, crowd, crowdOf>>

Addresses == {ClientIp[c] : c \in Conns}

(* Past the count of all tunnels and not in the map yet: serve_http inserts *)
(* before it answers, serve_tcp afterwards.                                 *)
UnderWay ==
    {c \in Conns : \/ pc[c] \in {"insert", "taken", "pick", "bindDrawn", "bind",
                                 "track", "publish"}
                   \/ pc[c] = "reply" /\ key[c] \in Ports}

(* The limit of an address is looked at first, that of all tunnels next. *)
UnderWayOf(ip) == {c \in Conns : ClientIp[c] = ip /\ (pc[c] = "cap" \/ c \in UnderWay)}

Larger(m, n) == IF n > m THEN n ELSE m

LimitInit == Init /\ crowd = 0 /\ crowdOf = [ip \in Addresses |-> 0]

LimitNext ==
    /\ Next
    /\ crowd' = Larger(crowd, Cardinality(UnderWay'))
    /\ crowdOf' = [ip \in Addresses |-> Larger(crowdOf[ip], Cardinality(UnderWayOf(ip)'))]

LimitSpec == LimitInit /\ [][LimitNext]_limitVars

-----------------------------------------------------------------------------

\* The check of --max-tunnels in handle_client: there are fewer tunnels than the
\* limit plus the largest number of registrations that were ever between count
\* and insert at once.  When they came one by one, the limit has held; and what
\* exceeds it are registrations that raced, never a leak of the cleanup.
CapExceededByRacesOnly ==
    MaxTunnels > 0 => Cardinality(Entries) < MaxTunnels + crowd

\* The same of --max-tunnels-per-ip and the tunnels of one address, whatever
\* other addresses do: only registrations of that address count.
PerIpExceededByRacesOnly ==
    MaxPerIp > 0 => \A ip \in Addresses :
        Cardinality(EntriesOfIp(ip)) < MaxPerIp + crowdOf[ip]

\* The limits that handle_client applies to a registration, each exceeded only by
\* the races it is open to.
LimitsExceededByRacesOnly == CapExceededByRacesOnly /\ PerIpExceededByRacesOnly

(***************************************************************************)
(* The inductive invariant: an admission stands for the entry it leads to. *)
(***************************************************************************)

\* E the entries, W the registrations under way, most the largest number of the
\* latter so far.
WithinLimit(E, W, limit, most) ==
    /\ IsFiniteSet(E) /\ IsFiniteSet(W)
    /\ most \in Nat /\ Cardinality(W) <= most
    /\ limit > 0 => Cardinality(E) + Cardinality(W) < limit + most

\* The entries and the registrations that will become entries stay together
\* within the bound of the two properties.
LimitsInv ==
    /\ WithinLimit(Entries, UnderWay, MaxTunnels, crowd)
    /\ crowdOf \in [Addresses -> Nat]
    /\ \A ip \in Addresses :
         WithinLimit(EntriesOfIp(ip), UnderWayOf(ip), MaxPerIp, crowdOf[ip])

=============================================================================
