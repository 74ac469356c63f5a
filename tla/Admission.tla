----------------------------- MODULE Admission -----------------------------
(***************************************************************************)
(* The doors of the relay and the lists that guard them.                   *)
(*                                                                         *)
(*   - A Seam connection goes through handle_client and serve_http         *)
(*     (tunnel.rs): deny list, Register, token, rate limit, name.          *)
(*   - A TCP passthrough connection (tcp_passthrough.rs) goes through its  *)
(*     listener's loop: deny list, GeoIP, rate limit, and is then copied   *)
(*     by a task of its own, which a gauge counts.                         *)
(*   - SIGHUP reloads the token file, the name blocklist and the deny list *)
(*     one after the other (main.rs, denylist.rs), while connections are   *)
(*     between their checks.  The operator edits the files at any time, so *)
(*     a reload may read anything, or find the file unreadable.            *)
(*                                                                         *)
(* Both doors share the RateLimiter.  A list is the set of its entries, a  *)
(* deny list the set of addresses its CIDRs cover (module Cidr has the     *)
(* matching).  A connection slot is used again when its connection ends.   *)
(***************************************************************************)
EXTENDS RateLimiter

CONSTANTS
    Clients,     \* slots of Seam connections
    Peers,       \* slots of passthrough connections
    IpOf,        \* [Clients \cup Peers -> Ips]
    Tokens, TokenOf,  \* auth tokens; the one a client sends, NoToken for none
    NoToken,
    Names, NameOf,    \* subdomains; the one a client asks for, NoName for none
    NoName,
    Reserved,    \* names refused by --reserved-subdomains or --subdomain-prefix
    GeoBlocked,  \* addresses of blocked countries
    Unreadable   \* a file that cannot be read

Conns == Clients \cup Peers

ASSUME AdmissionAssumption ==
    /\ Clients \cap Peers = {}
    /\ IpOf \in [Conns -> Ips]
    /\ TokenOf \in [Clients -> Tokens \cup {NoToken}] /\ NoToken \notin Tokens
    /\ NameOf \in [Clients -> Names \cup {NoName}] /\ NoName \notin Names

VARIABLES
    tokens,   \* AuthPolicy.allowed
    blocked,  \* SubdomainBlocklist.entries
    denied,   \* IpDenyList.entries
    reload,   \* the SIGHUP task: idle, or the list it reloads next
    unread,   \* history: the last file it opened could not be read
    pc,       \* where each connection is
    ends,     \* [Peers -> the ends of a forwarded connection that are open]
    copying,  \* [Peers -> the directions still being copied]
    active,   \* TCP_PASSTHROUGH_CONNECTIONS_ACTIVE
    seen      \* history: which lists have let a connection pass since it arrived

listVars == <<tokens, blocked, denied>>
copyVars == <<ends, copying, active>>
avars == <<vars, listVars, reload, unread, pc, copyVars, seen>>

Sides == {"client", "backend"}

ClientStages == {"accepted", "hello", "auth", "rate", "name", "admitted", "done"}
PeerStages == {"accepted", "geo", "rate", "spawned", "connect", "copy", "done"}

TokenFits(c, T) == c \in Clients /\ TokenOf[c] \in T
NameFits(c, B) == c \in Clients /\ NameOf[c] \notin B \cup Reserved

Allowance(c, T, B, D) ==
    [ip |-> IpOf[c] \notin D, token |-> TokenFits(c, T), name |-> NameFits(c, B)]

\* startup: the token file must load; the two other lists start empty when
\* their file cannot be read.
AInit ==
    /\ Init
    /\ tokens \in (SUBSET Tokens) \ {{}}
    /\ blocked \in SUBSET Names /\ denied \in SUBSET Ips
    /\ reload = "idle" /\ unread = FALSE
    /\ pc = [c \in Conns |-> "done"]
    /\ ends = [p \in Peers |-> {}] /\ copying = [p \in Peers |-> {}] /\ active = 0
    /\ seen = [c \in Conns |-> Allowance(c, tokens, blocked, denied)]

\* Every step lets a connection under way see the lists as they are after it.
Observe ==
    seen' = [c \in Conns |->
        LET allows == Allowance(c, tokens', blocked', denied')
        IN IF pc[c] = "done" THEN allows
           ELSE [ip |-> allows.ip \/ seen[c].ip, token |-> allows.token \/ seen[c].token,
                 name |-> allows.name \/ seen[c].name]]

Goto(c, stage) == pc' = [pc EXCEPT ![c] = stage]

\* A step of connection c that leaves lists, limiter and gauge alone.
Quietly == UNCHANGED <<vars, listVars, reload, unread, copyVars>>

-----------------------------------------------------------------------------
(***************************************************************************)
(* The files and the SIGHUP task.                                          *)
(***************************************************************************)

Sighup ==
    /\ reload = "idle" /\ reload' = "auth"
    /\ UNCHANGED <<vars, listVars, unread, pc, copyVars>>
    /\ Observe

\* One list is reloaded from what its file f holds now, and the next is due.
Reload(list, next, f) ==
    /\ reload = list /\ reload' = next
    /\ unread' = (f = Unreadable)
    /\ UNCHANGED <<vars, pc, copyVars>>
    /\ Observe

\* load_token_set fails on a file without tokens; the set in force stays.
LoadTokenSet(f) == IF f = Unreadable \/ f = {} THEN tokens ELSE f

ReloadAuth(f) ==
    /\ tokens' = LoadTokenSet(f) /\ UNCHANGED <<blocked, denied>>
    /\ Reload("auth", "block", f)

\* The blocklist is kept when its file cannot be read.
ReloadBlocklist(f) ==
    /\ blocked' = (IF f = Unreadable THEN blocked ELSE f) /\ UNCHANGED <<tokens, denied>>
    /\ Reload("block", "deny", f)

\* parse_denylist_file answers a file it cannot read with an empty list.
ParseDenylistFile(f) == IF f = Unreadable THEN {} ELSE f

ReloadDenylist(f) ==
    /\ denied' = ParseDenylistFile(f) /\ UNCHANGED <<tokens, blocked>>
    /\ Reload("deny", "idle", f)

-----------------------------------------------------------------------------
(***************************************************************************)
(* handle_client and serve_http.                                           *)
(***************************************************************************)

\* The accept loops take one connection after the other; a listener of the
\* passthrough waits for the rate limiter before it takes the next.
Accept(c) ==
    /\ pc[c] = "done"
    /\ c \in Peers => \A p \in Peers : pc[p] \notin {"accepted", "geo", "rate"}
    /\ Goto(c, "accepted") /\ Quietly
    /\ Observe

\* Mutant of CheckDenylist: the passthrough forgets the deny list.
CheckDenylistClientsOnly(c) ==
    /\ pc[c] = "accepted"
    /\ Goto(c, IF c \in Peers THEN "geo" ELSE IF IpOf[c] \in denied THEN "done" ELSE "hello")
    /\ Quietly
    /\ Observe

CheckDenylist(c) ==
    /\ pc[c] = "accepted"
    /\ Goto(c, IF IpOf[c] \in denied THEN "done"
               ELSE IF c \in Clients THEN "hello" ELSE "geo")
    /\ Quietly
    /\ Observe

\* No stream or no Register within the timeouts, or another version.
HelloFails(c) ==
    /\ c \in Clients /\ pc[c] = "hello"
    /\ Goto(c, "done") /\ Quietly
    /\ Observe

\* Register has been read; its version is supported.
Hello(c) ==
    /\ c \in Clients /\ pc[c] = "hello"
    /\ Goto(c, "auth") /\ Quietly
    /\ Observe

\* 401 without a token, 403 with one that is not in the set.
CheckAuth(c) ==
    /\ c \in Clients /\ pc[c] = "auth"
    /\ Goto(c, IF TokenOf[c] \in tokens THEN "rate" ELSE "done")
    /\ Quietly
    /\ Observe

RateAdmits(c) ==
    /\ pc[c] = "rate" /\ CheckAdmits(IpOf[c])
    /\ Goto(c, IF c \in Clients THEN "name" ELSE "spawned")
    /\ UNCHANGED <<listVars, reload, unread, copyVars>>
    /\ Observe

\* 429, or the peer's connection is dropped.
RateRefuses(c) ==
    /\ pc[c] = "rate" /\ CheckRefuses(IpOf[c])
    /\ Goto(c, "done")
    /\ UNCHANGED <<listVars, reload, unread, copyVars>>
    /\ Observe

\* serve_http: a requested name must not be reserved, lack the prefix, or be
\* blocked; a name drawn at random is not looked up.
CheckName(c) ==
    /\ c \in Clients /\ pc[c] = "name"
    /\ Goto(c, IF NameOf[c] \in blocked \cup Reserved THEN "done" ELSE "admitted")
    /\ Quietly
    /\ Observe

\* An admitted client is the registry's affair, until it leaves.
Leave(c) ==
    /\ c \in Clients /\ pc[c] = "admitted"
    /\ Goto(c, "done") /\ Quietly
    /\ Observe

-----------------------------------------------------------------------------
(***************************************************************************)
(* run_tcp_passthrough and forward.                                        *)
(***************************************************************************)

CheckGeo(p) ==
    /\ p \in Peers /\ pc[p] = "geo"
    /\ Goto(p, IF IpOf[p] \in GeoBlocked THEN "done" ELSE "rate")
    /\ Quietly
    /\ Observe

PeerUnchanged == UNCHANGED <<vars, listVars, reload, unread>> /\ Observe

\* The spawned task counts itself and connects to the backend.
Count(p) ==
    /\ p \in Peers /\ pc[p] = "spawned"
    /\ Goto(p, "connect") /\ active' = active + 1
    /\ UNCHANGED <<ends, copying>> /\ PeerUnchanged

\* Mutant of ConnectFails: the early return skips the gauge.
ConnectFailsCounted(p) ==
    /\ p \in Peers /\ pc[p] = "connect"
    /\ Goto(p, "done")
    /\ UNCHANGED copyVars /\ PeerUnchanged

\* forward returns (0, 0); the task goes on to lower the gauge.
ConnectFails(p) ==
    /\ p \in Peers /\ pc[p] = "connect"
    /\ Goto(p, "done") /\ active' = active - 1
    /\ UNCHANGED <<ends, copying>> /\ PeerUnchanged

Connects(p) ==
    /\ p \in Peers /\ pc[p] = "connect"
    /\ Goto(p, "copy")
    /\ ends' = [ends EXCEPT ![p] = Sides] /\ copying' = [copying EXCEPT ![p] = Sides]
    /\ UNCHANGED active /\ PeerUnchanged

\* An end of the connection closes; nothing tells the other end.
SideCloses(p, s) ==
    /\ p \in Peers /\ pc[p] = "copy" /\ s \in ends[p]
    /\ ends' = [ends EXCEPT ![p] = @ \ {s}]
    /\ UNCHANGED <<pc, copying, active>> /\ PeerUnchanged

\* Mutant of CopyReadsEof: a read of no bytes is taken for no data yet.
CopyReadsEofIgnored(p, s) ==
    /\ p \in Peers /\ pc[p] = "copy" /\ s \in copying[p] \ ends[p]
    /\ UNCHANGED <<pc, copyVars>> /\ PeerUnchanged

\* The copy that reads from s meets the end of its input.
CopyReadsEof(p, s) ==
    /\ p \in Peers /\ pc[p] = "copy" /\ s \in copying[p] \ ends[p]
    /\ copying' = [copying EXCEPT ![p] = @ \ {s}]
    /\ UNCHANGED <<pc, ends, active>> /\ PeerUnchanged

\* Data arrives from s while the other end, to which it is copied, is closed.
CopyWriteFails(p, s) ==
    /\ p \in Peers /\ pc[p] = "copy"
    /\ s \in copying[p] \cap ends[p] /\ ends[p] # Sides
    /\ copying' = [copying EXCEPT ![p] = @ \ {s}]
    /\ UNCHANGED <<pc, ends, active>> /\ PeerUnchanged

\* join! waits for both directions.
JoinEnds(p) ==
    /\ p \in Peers /\ pc[p] = "copy" /\ copying[p] = {}
    /\ Goto(p, "done") /\ active' = active - 1
    /\ ends' = [ends EXCEPT ![p] = {}]
    /\ UNCHANGED copying /\ PeerUnchanged

ClockTick == Tick /\ UNCHANGED <<listVars, reload, unread, pc, copyVars>> /\ Observe

-----------------------------------------------------------------------------
ClientStep(c) ==
    \/ HelloFails(c) \/ Hello(c) \/ CheckAuth(c) \/ CheckName(c) \/ Leave(c)

Finish(p) ==
    \/ Count(p) \/ ConnectFails(p) \/ JoinEnds(p)
    \/ \E s \in Sides : CopyReadsEof(p, s)

PeerStep(p) ==
    \/ CheckGeo(p) \/ Connects(p) \/ Finish(p)
    \/ \E s \in Sides : SideCloses(p, s) \/ CopyWriteFails(p, s)

ReloadLists ==
    \/ \E f \in (SUBSET Tokens) \cup {Unreadable} : ReloadAuth(f)
    \/ \E f \in (SUBSET Names) \cup {Unreadable} : ReloadBlocklist(f)
    \/ \E f \in (SUBSET Ips) \cup {Unreadable} : ReloadDenylist(f)

ANext ==
    \/ Sighup \/ ReloadLists
    \/ \E c \in Conns : Accept(c) \/ CheckDenylist(c) \/ RateAdmits(c) \/ RateRefuses(c)
    \/ \E c \in Clients : ClientStep(c)
    \/ \E p \in Peers : PeerStep(p)
    \/ ClockTick

ASpec == AInit /\ [][ANext]_avars

\* The runtime polls a copying task whose input has ended.
AFairness == \A p \in Peers : WF_avars(Finish(p))

AFairSpec == ASpec /\ AFairness

-----------------------------------------------------------------------------
\* What the lists have said of c by the time it has come as far as it has.
PassedLists(c) ==
    /\ pc[c] \notin {"accepted", "done"} => seen[c].ip
    /\ c \in Clients /\ pc[c] \in {"rate", "name", "admitted"} => seen[c].token
    /\ c \in Clients /\ pc[c] = "admitted" => seen[c].name

\* A connection is past a check only if the list in question let it pass at
\* some moment since it arrived, whatever was reloaded between its checks:
\* the rate limiter is charged for, and the registry sees, nobody whom the
\* lists refused all that time.  With an auth file the relay never opens up.
AdmittedByLists == tokens # {} /\ \A c \in Conns : PassedLists(c)

\* The tasks that have counted themselves and not been counted out.
Counted == {p \in Peers : pc[p] \in {"connect", "copy"}}

\* The gauge of passthrough connections counts the tasks between their first
\* and their last step, on every way out of forward.
PassGaugeExact == active = Cardinality(Counted)

\* A forwarded connection whose two ends have closed is finished and counted
\* out.  (One end is not enough: join! waits for both, and no end is told that
\* the other has closed.)
ForwardEnds == \A p \in Peers : pc[p] = "copy" /\ ends[p] = {} ~> pc[p] = "done"

ATypeOK ==
    /\ tokens \subseteq Tokens /\ blocked \subseteq Names /\ denied \subseteq Ips
    /\ reload \in {"idle", "auth", "block", "deny"} /\ unread \in BOOLEAN
    /\ pc \in [Conns -> ClientStages \cup PeerStages]
    /\ \A c \in Clients : pc[c] \in ClientStages
    /\ \A p \in Peers : pc[p] \in PeerStages
    /\ ends \in [Peers -> SUBSET Sides] /\ copying \in [Peers -> SUBSET Sides]
    /\ active \in Nat
    /\ seen \in [Conns -> [ip : BOOLEAN, token : BOOLEAN, name : BOOLEAN]]

\* The inductive invariant.  The tasks that are counted are finitely many,
\* however many slots there are.
AdmissionInv == ATypeOK /\ AdmittedByLists /\ PassGaugeExact /\ IsFiniteSet(Counted)

\* denylist.rs, reload: "Errors are logged and the existing list is kept
\* unchanged."
DenylistKept ==
    [][reload = "deny" /\ reload' = "idle" /\ unread' => denied' = denied]_avars
=============================================================================
