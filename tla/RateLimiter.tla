---------------------------- MODULE RateLimiter ----------------------------
(***************************************************************************)
(* The per-address sliding-window limiter (RateLimiter in tunnel.rs) that  *)
(* handle_client and the TCP passthrough listeners share.                  *)
(*                                                                         *)
(* check_and_record reads the clock and updates the queue of one address   *)
(* inside a single critical section, so a call is one step and its time    *)
(* stamps never go back.  `admitted` is the history of admission times; a  *)
(* queue element is represented by its position in that history.           *)
(***************************************************************************)
EXTENDS Naturals, Sequences, FiniteSets

CONSTANTS
    Ips,     \* client addresses
    Max,     \* connections allowed in the window, 0 = unlimited
    Window   \* length of the window, 60 s in the relay

ASSUME LimiterAssumption == Max \in Nat /\ Window \in Nat \ {0}

VARIABLES
    now,       \* Instant::now()
    admitted,  \* [Ips -> Seq(Nat)]: when each recorded call was admitted
    queue,     \* [Ips -> SUBSET Nat]: the positions its VecDeque still holds
    last       \* the last call: [ip, ok], or NoCall

vars == <<now, admitted, queue, last>>

NoCall == [ip |-> "none", ok |-> TRUE]

Init ==
    /\ now = 0
    /\ admitted = [ip \in Ips |-> <<>>]
    /\ queue = [ip \in Ips |-> {}]
    /\ last = NoCall

\* Time passes between calls.
Tick ==
    /\ now' = now + 1
    /\ last' = NoCall
    /\ UNCHANGED <<admitted, queue>>

\* Mutant of Retained: an element leaves one instant too early.
RetainedShort(ip) == {i \in queue[ip] : now - admitted[ip][i] < Window - 1}

\* queue.retain(|&t| now.duration_since(t) < self.window)
Retained(ip) == {i \in queue[ip] : now - admitted[ip][i] < Window}

\* With no limit a call returns before it touches the queue.
CheckAdmits(ip) ==
    /\ Max = 0 \/ Cardinality(Retained(ip)) < Max
    /\ IF Max = 0
       THEN UNCHANGED <<admitted, queue>>
       ELSE /\ admitted' = [admitted EXCEPT ![ip] = Append(@, now)]
            /\ queue' = [queue EXCEPT ![ip] = Retained(ip) \cup {Len(admitted[ip]) + 1}]
    /\ last' = [ip |-> ip, ok |-> TRUE]
    /\ UNCHANGED now

\* A refused call is not recorded, but the queue has been pruned.
CheckRefuses(ip) ==
    /\ Max > 0 /\ Cardinality(Retained(ip)) >= Max
    /\ queue' = [queue EXCEPT ![ip] = Retained(ip)]
    /\ last' = [ip |-> ip, ok |-> FALSE]
    /\ UNCHANGED <<now, admitted>>

CheckAndRecord(ip) == CheckAdmits(ip) \/ CheckRefuses(ip)

Next == Tick \/ \E ip \in Ips : CheckAndRecord(ip)

Spec == Init /\ [][Next]_vars

-----------------------------------------------------------------------------
\* The positions of ip's history that lie in the window ending now.
InWindow(ip) == {i \in 1..Len(admitted[ip]) : now - admitted[ip][i] < Window}

TypeOK ==
    /\ now \in Nat
    /\ admitted \in [Ips -> Seq(Nat)]
    /\ queue \in [Ips -> SUBSET (Nat \ {0})]

\* Stamps are recorded in the order of the clock and lie in the past.
Chronological ==
    \A ip \in Ips :
        /\ \A i \in 1..Len(admitted[ip]) : admitted[ip][i] <= now
        /\ \A i, j \in 1..Len(admitted[ip]) :
                i <= j => admitted[ip][i] <= admitted[ip][j]

\* The queue has lost no admission that still counts, and holds nothing else
\* than recorded admissions, at most Max of them.
QueueComplete ==
    \A ip \in Ips :
        /\ InWindow(ip) \subseteq queue[ip]
        /\ queue[ip] \subseteq 1..Len(admitted[ip])
        /\ Cardinality(queue[ip]) <= Max

\* However calls are spread over the clock, any Max + 1 consecutive admissions
\* of an address take at least the length of the window: no window of that
\* length, wherever it starts, sees more than Max connections
\* ("Max connections allowed in the window").
NoBurst ==
    Max > 0 =>
        \A ip \in Ips : \A i \in 1..Len(admitted[ip]) :
            i + Max <= Len(admitted[ip]) =>
                admitted[ip][i + Max] - admitted[ip][i] >= Window

\* The inductive invariant.
LimiterInv == TypeOK /\ Chronological /\ QueueComplete /\ NoBurst

\* A call is refused only when Max admissions of the same address lie in the
\* window that ends now: refused calls, other addresses and expired stamps
\* never count.
RefusedOnlyWhenFull ==
    ~last.ok => Cardinality(InWindow(last.ip)) >= Max

\* check_and_record lets through as much as the limit allows and no more.
LimiterExact == NoBurst /\ RefusedOnlyWhenFull

=============================================================================
