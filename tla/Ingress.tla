------------------------------ MODULE Ingress ------------------------------
(***************************************************************************)
(* The public HTTP side of the relay: route_http of ingress.rs, and what   *)
(* the admin API changes under it while requests are on their way: proxy   *)
(* routes, custom domains, the pause flag and the token bucket of a tunnel.*)
(*                                                                         *)
(* A request looks at four pieces of state one after the other, each under *)
(* its own lock, and keeps what it read: the proxy routes, the custom      *)
(* domain map, the tunnel map (it clones the entry) and the entry's limits.*)
(* Every look-up is a step, so anything may change between two of them.    *)
(* An admin request is two or more steps for the same reason: it finds the *)
(* tunnel first and stores into the entry, or into the map, afterwards.    *)
(*                                                                         *)
(* Who may register a name is TunnelRegistry's subject: here an entry      *)
(* appears under a free name and disappears at any time.  Logs and byte    *)
(* counters, which nothing reads back, are left out.                       *)
(***************************************************************************)
EXTENDS Naturals, FiniteSets

CONSTANTS
    Conns,         \* public connections, reused when they have ended
    Hosts,         \* values of a Host: header, without the port
    Domains,       \* domain names, in lower case
    Lower,         \* [Hosts -> Domains]: host.to_lowercase()
    Subs,          \* names under which tunnels register
    SubOf,         \* [Hosts -> Subs \cup {None}]: extract_subdomain
    Allowed,       \* the domains the allow list (or open mode) lets be mapped
    Entries,       \* identities of tunnel entries, each used once
    DdosReqs,      \* bodies of a PUT .../ddos: [enabled, rps, burst] or None
    DefaultRps,    \* DDoSProtection::new(100, 200)
    DefaultBurst,
    TicksPerSec,   \* clock resolution: a request costs TicksPerSec units
    None

ASSUME IngressAssumption ==
    /\ Lower \in [Hosts -> Domains]
    /\ SubOf \in [Hosts -> Subs \cup {None}]
    /\ None \notin Subs \cup Entries \cup Hosts \cup Domains
    /\ Allowed \subseteq Domains
    /\ DdosReqs \subseteq [enabled : BOOLEAN \cup {None}, rps : Nat \cup {None},
                           burst : Nat \cup {None}]
    /\ None \notin BOOLEAN \cup Nat
    /\ DefaultRps \in Nat /\ DefaultBurst \in Nat
    /\ TicksPerSec \in Nat \ {0}
    /\ IsFiniteSet(Conns)

VARIABLES
    routes,   \* [Domains -> BOOLEAN]: an enabled proxy route has this domain
    domains,  \* custom_domains: [Domains -> Subs \cup {None}]
    tunnels,  \* the tunnel map: [Subs -> Entries \cup {None}]
    entry,    \* [Entries -> the mutable part of a TunnelEntry]
    now,      \* Instant::now(), in ticks
    req,      \* [Conns -> where route_http is and what it has read]
    ws,       \* metrics.ws_connections_active
    adm,      \* the admin request under way
    seen,     \* history: what a request could have read since it arrived
    quota     \* history: requests let through by each bucket since its limits held

vars == <<routes, domains, tunnels, entry, now, req, ws, adm, seen, quota>>
config == <<routes, domains, tunnels, entry, adm>>

\* The stages of route_http: up to `proxying` and `tunnelling` it still decides.
Deciding == {"route", "connect", "upwrite", "resolve", "lookup", "gate",
             "limits", "bucket", "open"}
OnProxy == {"connect", "upwrite", "proxying"}
OnTunnel == {"gate", "limits", "bucket", "open", "tunnelling"}
Copying == {"proxying", "tunnelling"}
Answers == {"none", "early", "bad_upstream", "dropped", "paused", "limited",
            "no_route", "closed"}

\* A registration creates its entry with default limits, switched off.
NewEntry(s) ==
    [name |-> s, paused |-> FALSE, on |-> FALSE, rps |-> DefaultRps,
     burst |-> DefaultBurst, tokens |-> DefaultBurst * TicksPerSec, last |-> now]

NoEntry == [name |-> None, paused |-> FALSE, on |-> FALSE, rps |-> DefaultRps,
            burst |-> DefaultBurst, tokens |-> 0, last |-> 0]
NoReq == [pc |-> "done", host |-> None, ws |-> FALSE, sub |-> None, entry |-> None,
          rps |-> 0, burst |-> 0, answer |-> "none"]
NoAdm == [op |-> "idle", sub |-> None, entry |-> None, domain |-> None, body |-> None]
NoSeen == [enabled |-> {}, subs |-> {}, live |-> {}, paused |-> {}]
NoQuota == [granted |-> 0, since |-> 0]

Init ==
    /\ routes \in [Domains -> BOOLEAN]     \* loaded from the store
    /\ domains = [d \in Domains |-> None]
    /\ tunnels = [s \in Subs |-> None]
    /\ entry = [e \in Entries |-> NoEntry]
    /\ now = 0
    /\ req = [c \in Conns |-> NoReq]
    /\ ws = 0
    /\ adm = NoAdm
    /\ seen = [c \in Conns |-> NoSeen]
    /\ quota = [e \in Entries |-> NoQuota]

-----------------------------------------------------------------------------
\* What the maps say of a host at this moment.

\* Mutant of Target: no fallback to the subdomain.
TargetCustomOnly(h) == domains[Lower[h]]

\* from_custom.or_else(|| extract_subdomain(..)); only the map is asked in
\* lower case.
Target(h) == IF domains[Lower[h]] # None THEN domains[Lower[h]] ELSE SubOf[h]

Live == {s \in Subs : tunnels[s] # None}
Paused == {e \in Entries : entry[e].paused}

\* The name a host stands for: the custom domain set for it, its case ignored,
\* or else its subdomain.
Configured(h) == IF domains[Lower[h]] # None THEN domains[Lower[h]] ELSE SubOf[h]

\* What a request that arrives now may see, and what stays true of it.
Snapshot(h) == [enabled |-> {routes[Lower[h]]}, subs |-> {Configured(h)},
                live |-> Live, paused |-> Paused]

\* History kept by every step that changes the maps or an entry.
Watch ==
    seen' = [c \in Conns |->
        IF req[c].pc \notin Deciding THEN seen[c]
        ELSE LET new == Snapshot(req[c].host)'
             IN  [enabled |-> seen[c].enabled \cup new.enabled,
                  subs |-> seen[c].subs \cup new.subs,
                  live |-> seen[c].live \cap new.live,
                  paused |-> seen[c].paused \cap new.paused]]

-----------------------------------------------------------------------------
\* The request.

Goto(c, pc) == req' = [req EXCEPT ![c].pc = pc]

\* The task ends; only the answer is remembered.
End(c, a) ==
    /\ req' = [req EXCEPT ![c] = [NoReq EXCEPT !.answer = a]]
    /\ seen' = [seen EXCEPT ![c] = NoSeen]

\* The header block is complete and names a host; the early checks passed.
ReadHead(c) ==
    /\ req[c].pc = "done"
    /\ \E h \in Hosts, upgrade \in BOOLEAN :
          /\ req' = [req EXCEPT ![c] = [NoReq EXCEPT !.pc = "route", !.host = h,
                                                     !.ws = upgrade]]
          /\ seen' = [seen EXCEPT ![c] = Snapshot(h)]
    /\ UNCHANGED <<config, now, ws, quota>>

\* The request ends before any look-up: blocked country, no complete header
\* block in time (drop), oversized header (431), no Host (400), GET /health
\* (200), or a Content-Length over the limit (413).
EndEarly(c) ==
    /\ req[c].pc = "done"
    /\ End(c, "early")
    /\ UNCHANGED <<config, now, ws, quota>>

\* Mutant of FindRoute: a disabled route is used too.
FindRouteAny(c) ==
    /\ req[c].pc = "route"
    /\ Goto(c, "connect")
    /\ UNCHANGED <<config, now, ws, seen, quota>>

\* Proxy routes come first.
FindRoute(c) ==
    /\ req[c].pc = "route"
    /\ Goto(c, IF routes[Lower[req[c].host]] THEN "connect" ELSE "resolve")
    /\ UNCHANGED <<config, now, ws, seen, quota>>

\* The upstream's URL does not parse, or it refuses (502), or 10 s pass (504).
UpstreamFails(c) ==
    /\ req[c].pc = "connect"
    /\ End(c, "bad_upstream")
    /\ UNCHANGED <<config, now, ws, quota>>

UpstreamConnects(c) ==
    /\ req[c].pc = "connect"
    /\ Goto(c, "upwrite")
    /\ UNCHANGED <<config, now, ws, seen, quota>>

\* A failed write of the head leaves by `?`, before the gauge is raised.
UpstreamWriteFails(c) ==
    /\ req[c].pc = "upwrite"
    /\ End(c, "dropped")
    /\ UNCHANGED <<config, now, ws, quota>>

StartProxying(c) ==
    /\ req[c].pc = "upwrite"
    /\ Goto(c, "proxying")
    /\ ws' = IF req[c].ws THEN ws + 1 ELSE ws
    /\ UNCHANGED <<config, now, seen, quota>>

\* custom_domains, else the subdomain.
Resolve(c) ==
    /\ req[c].pc = "resolve" /\ Target(req[c].host) # None
    /\ req' = [req EXCEPT ![c].pc = "lookup", ![c].sub = Target(req[c].host)]
    /\ UNCHANGED <<config, now, ws, seen, quota>>

\* The entry is cloned out of the map, and the lock released.
FindTunnel(c) ==
    /\ req[c].pc = "lookup" /\ tunnels[req[c].sub] # None
    /\ req' = [req EXCEPT ![c].pc = "gate", ![c].entry = tunnels[req[c].sub]]
    /\ UNCHANGED <<config, now, ws, seen, quota>>

\* The host stands for no name, or the name for no tunnel: 502.
NoRoute(c) ==
    /\ \/ req[c].pc = "resolve" /\ Target(req[c].host) = None
       \/ req[c].pc = "lookup" /\ tunnels[req[c].sub] = None
    /\ End(c, "no_route")
    /\ UNCHANGED <<config, now, ws, quota>>

\* A paused tunnel answers 503.
RefusePaused(c) ==
    /\ req[c].pc = "gate" /\ entry[req[c].entry].paused
    /\ End(c, "paused")
    /\ UNCHANGED <<config, now, ws, quota>>

\* Mutant of Gate: the pause flag is not looked at.
GateOpen(c) ==
    /\ req[c].pc = "gate"
    /\ Goto(c, IF entry[req[c].entry].on THEN "limits" ELSE "open")
    /\ UNCHANGED <<config, now, ws, seen, quota>>

\* The tunnel is not paused; a disabled bucket is not consulted.
Gate(c) ==
    /\ req[c].pc = "gate" /\ ~entry[req[c].entry].paused
    /\ Goto(c, IF entry[req[c].entry].on THEN "limits" ELSE "open")
    /\ UNCHANGED <<config, now, ws, seen, quota>>

\* check() reads both limits before it waits for the bucket's mutex; a rate of
\* zero means no limit.
ReadLimits(c) ==
    /\ req[c].pc = "limits"
    /\ LET e == entry[req[c].entry]
       IN  req' = [req EXCEPT ![c].pc = IF e.rps = 0 THEN "open" ELSE "bucket",
                              ![c].rps = e.rps, ![c].burst = e.burst]
    /\ UNCHANGED <<config, now, ws, seen, quota>>

\* Mutant of Refill: the bucket is not capped.
RefillUncapped(e, rps, burst) == e.tokens + (now - e.last) * rps

\* (tokens + elapsed * rps).min(burst), in units of 1 / TicksPerSec.
Refill(e, rps, burst) ==
    LET full == e.tokens + (now - e.last) * rps
    IN  IF full <= burst * TicksPerSec THEN full ELSE burst * TicksPerSec

\* The limits a request read are still those of the entry.
Fresh(c) ==
    LET e == entry[req[c].entry] IN req[c].rps = e.rps /\ req[c].burst = e.burst

\* With the mutex held: refill, and take one token if there is one.  The
\* history restarts when a request applies limits that have changed since.
TakeToken(c) ==
    /\ req[c].pc = "bucket"
    /\ LET x == req[c].entry
           full == Refill(entry[x], req[c].rps, req[c].burst)
       IN  /\ full >= TicksPerSec
           /\ entry' = [entry EXCEPT ![x].tokens = full - TicksPerSec, ![x].last = now]
           /\ quota' = [quota EXCEPT ![x] =
                 IF Fresh(c) THEN [granted |-> @.granted + 1, since |-> @.since]
                             ELSE [granted |-> 0, since |-> now]]
    /\ Goto(c, "open")
    /\ UNCHANGED <<routes, domains, tunnels, adm, now, ws, seen>>

\* Too few tokens: 429, and what was refilled is kept.
RefuseToken(c) ==
    /\ req[c].pc = "bucket"
    /\ LET x == req[c].entry
           full == Refill(entry[x], req[c].rps, req[c].burst)
       IN  /\ full < TicksPerSec
           /\ entry' = [entry EXCEPT ![x].tokens = full, ![x].last = now]
           /\ quota' = [quota EXCEPT ![x] =
                 IF Fresh(c) THEN @ ELSE [granted |-> 0, since |-> now]]
    /\ End(c, "limited")
    /\ UNCHANGED <<routes, domains, tunnels, adm, now, ws>>

\* Mutant of OpenFails: the gauge was raised before the frame was written.
OpenFailsCounted(c) ==
    /\ req[c].pc = "open"
    /\ End(c, "dropped")
    /\ ws' = IF req[c].ws THEN ws + 1 ELSE ws
    /\ UNCHANGED <<config, now, quota>>

\* NewConn or the head cannot be written to the client's stream: both leave by
\* `?`, before the gauge is raised.
OpenFails(c) ==
    /\ req[c].pc = "open"
    /\ End(c, "dropped")
    /\ UNCHANGED <<config, now, ws, quota>>

StartTunnelling(c) ==
    /\ req[c].pc = "open"
    /\ Goto(c, "tunnelling")
    /\ ws' = IF req[c].ws THEN ws + 1 ELSE ws
    /\ UNCHANGED <<config, now, seen, quota>>

\* copy_bidirectional returns, with or without an error.
FinishCopy(c) ==
    /\ req[c].pc \in Copying
    /\ End(c, "closed")
    /\ ws' = IF req[c].ws THEN ws - 1 ELSE ws
    /\ UNCHANGED <<config, now, quota>>

RouteHttp(c) ==
    \/ ReadHead(c) \/ EndEarly(c) \/ FindRoute(c)
    \/ UpstreamFails(c) \/ UpstreamConnects(c) \/ UpstreamWriteFails(c) \/ StartProxying(c)
    \/ Resolve(c) \/ FindTunnel(c) \/ NoRoute(c)
    \/ RefusePaused(c) \/ Gate(c) \/ ReadLimits(c)
    \/ TakeToken(c) \/ RefuseToken(c) \/ OpenFails(c) \/ StartTunnelling(c)
    \/ FinishCopy(c)

-----------------------------------------------------------------------------
\* Tunnels come and go.

\* A registration inserts its entry under a free name.
TunnelOpens(s, x) ==
    /\ tunnels[s] = None /\ entry[x].name = None
    /\ tunnels' = [tunnels EXCEPT ![s] = x]
    /\ entry' = [entry EXCEPT ![x] = NewEntry(s)]
    /\ quota' = [quota EXCEPT ![x] = [granted |-> 0, since |-> now]]
    /\ UNCHANGED <<routes, domains, now, req, ws, adm>>
    /\ Watch

\* The handler removes its key.  The removal of a custom domain that follows
\* it never happens: the handler's own custom_domain is always None.
TunnelCloses(s) ==
    /\ tunnels[s] # None
    /\ tunnels' = [tunnels EXCEPT ![s] = None]
    /\ UNCHANGED <<routes, domains, entry, now, req, ws, adm, quota>>
    /\ Watch

-----------------------------------------------------------------------------
\* The admin API.

\* The routes of the store change: create_route, update_route, delete_route.
SetRoute(d) ==
    /\ routes' = [routes EXCEPT ![d] = ~@]
    /\ UNCHANGED <<domains, tunnels, entry, now, req, ws, adm, quota>>
    /\ Watch

\* pause, resume and ddos clone the entry; custom-domain only sees that the
\* tunnel is there.  An unknown id is answered 404 and changes nothing.
AdminFinds(op, s, d, body) ==
    /\ adm.op = "idle" /\ tunnels[s] # None
    /\ adm' = [op |-> op, sub |-> s, entry |-> tunnels[s], domain |-> d, body |-> body]
    /\ UNCHANGED <<routes, domains, tunnels, entry, now, req, ws, seen, quota>>

AdminStarts(s) ==
    \/ \E op \in {"pause", "resume"} : AdminFinds(op, s, None, None)
    \/ \E d \in Allowed : AdminFinds("domain", s, d, None)
    \/ \E b \in DdosReqs : AdminFinds("ddos_on", s, None, b)

SetPaused ==
    /\ adm.op \in {"pause", "resume"}
    /\ entry' = [entry EXCEPT ![adm.entry].paused = (adm.op = "pause")]
    /\ adm' = NoAdm
    /\ UNCHANGED <<routes, domains, tunnels, now, req, ws, quota>>
    /\ Watch

\* The mapping is inserted by name, whatever became of the tunnel.
SetCustomDomain ==
    /\ adm.op = "domain"
    /\ domains' = [domains EXCEPT ![adm.domain] = adm.sub]
    /\ adm' = NoAdm
    /\ UNCHANGED <<routes, tunnels, entry, now, req, ws, quota>>
    /\ Watch

\* Every domain of the name goes, under one write lock.
RemoveCustomDomain(s) ==
    /\ \E d \in Domains : domains[d] = s
    /\ domains' = [d \in Domains |-> IF domains[d] = s THEN None ELSE domains[d]]
    /\ UNCHANGED <<routes, tunnels, entry, now, req, ws, adm, quota>>
    /\ Watch

\* v.max(1), for a field that is present.
Given(v, old) == IF v = None THEN old ELSE IF v < 1 THEN 1 ELSE v

\* set_ddos_config stores its fields one after the other.
SetDdosEnabled ==
    /\ adm.op = "ddos_on"
    /\ entry' = [entry EXCEPT ![adm.entry].on =
                    IF adm.body.enabled = None THEN @ ELSE adm.body.enabled]
    /\ adm' = [adm EXCEPT !.op = "ddos_rps"]
    /\ UNCHANGED <<routes, domains, tunnels, now, req, ws, seen, quota>>

SetDdosRps ==
    /\ adm.op = "ddos_rps"
    /\ entry' = [entry EXCEPT ![adm.entry].rps = Given(adm.body.rps, @)]
    /\ quota' = [quota EXCEPT ![adm.entry] =
          IF entry'[adm.entry].rps = entry[adm.entry].rps THEN @
          ELSE [granted |-> 0, since |-> now]]
    /\ adm' = [adm EXCEPT !.op = "ddos_burst"]
    /\ UNCHANGED <<routes, domains, tunnels, now, req, ws, seen>>

SetDdosBurst ==
    /\ adm.op = "ddos_burst"
    /\ entry' = [entry EXCEPT ![adm.entry].burst = Given(adm.body.burst, @)]
    /\ quota' = [quota EXCEPT ![adm.entry] =
          IF entry'[adm.entry].burst = entry[adm.entry].burst THEN @
          ELSE [granted |-> 0, since |-> now]]
    /\ adm' = NoAdm
    /\ UNCHANGED <<routes, domains, tunnels, now, req, ws, seen>>

Admin ==
    \/ \E d \in Domains : SetRoute(d)
    \/ \E s \in Subs : AdminStarts(s) \/ RemoveCustomDomain(s)
    \/ SetPaused \/ SetCustomDomain
    \/ SetDdosEnabled \/ SetDdosRps \/ SetDdosBurst

Tick ==
    /\ now' = now + 1
    /\ UNCHANGED <<config, req, ws, seen, quota>>

Next ==
    \/ \E c \in Conns : RouteHttp(c)
    \/ \E s \in Subs, x \in Entries : TunnelOpens(s, x)
    \/ \E s \in Subs : TunnelCloses(s)
    \/ Admin
    \/ Tick

Spec == Init /\ [][Next]_vars

-----------------------------------------------------------------------------
\* Properties.

Entry == [name : Subs \cup {None}, paused : BOOLEAN, on : BOOLEAN,
          rps : Nat, burst : Nat, tokens : Nat, last : Nat]
Request == [pc : Deciding \cup Copying \cup {"done"}, host : Hosts \cup {None},
            ws : BOOLEAN, sub : Subs \cup {None}, entry : Entries \cup {None},
            rps : Nat, burst : Nat, answer : Answers]
AdminRequest == [op : {"idle", "pause", "resume", "domain", "ddos_on", "ddos_rps",
                       "ddos_burst"},
                 sub : Subs \cup {None}, entry : Entries \cup {None},
                 domain : Domains \cup {None}, body : DdosReqs \cup {None}]
History == [enabled : SUBSET BOOLEAN, subs : SUBSET (Subs \cup {None}),
            live : SUBSET Subs, paused : SUBSET Entries]

TypeOK ==
    /\ routes \in [Domains -> BOOLEAN]
    /\ domains \in [Domains -> Subs \cup {None}]
    /\ tunnels \in [Subs -> Entries \cup {None}]
    /\ entry \in [Entries -> Entry]
    /\ now \in Nat /\ ws \in Nat
    /\ req \in [Conns -> Request]
    /\ adm \in AdminRequest
    /\ seen \in [Conns -> History]
    /\ quota \in [Entries -> [granted : Nat, since : Nat]]

\* The gauge of open WebSocket connections counts exactly the upgraded requests
\* whose bytes are being copied, however the others ended: the early returns
\* and the `?` exits of route_http neither leak it nor take it below zero.
GaugeExact ==
    ws = Cardinality({c \in Conns : req[c].pc \in Copying /\ req[c].ws})

\* A request goes where the configuration sent its host at some moment since
\* it arrived: to a proxy only if its host had an enabled route, to a tunnel
\* only if at some moment it had none and its host stood for the name that the
\* tunnel registered.
RoutedAsConfigured ==
    \A c \in Conns :
        /\ req[c].pc \in OnProxy => TRUE \in seen[c].enabled
        /\ req[c].pc \in OnTunnel =>
              /\ FALSE \in seen[c].enabled
              /\ req[c].sub \in seen[c].subs
              /\ entry[req[c].entry].name = req[c].sub

\* A request is answered "no route" (502) only if, at some moment since it
\* arrived, its host stood for something else, or its tunnel was away: the
\* chain of look-ups does not lose a tunnel that was there all along.
LosesNone ==
    \A c \in Conns : \A s \in Subs :
        /\ req[c].pc # "done" /\ req'[c].pc = "done" /\ req'[c].answer = "no_route"
        /\ seen[c].subs = {s}
        => s \notin seen[c].live

NoRouteJustified == [][LosesNone]_vars

\* Once a tunnel is paused, no request that arrives afterwards is let through to
\* it before it is resumed, by whichever host it comes ("new incoming
\* connections are refused with 503").
PauseHolds ==
    \A c \in Conns :
        req[c].pc \in OnTunnel \ {"gate"} => req[c].entry \notin seen[c].paused

\* However long a tunnel was idle and whatever its limits were before, its
\* bucket lets through at most `burst` requests and `rps` more per second from
\* the moment its limits took effect.
LimitHolds ==
    \A x \in Entries :
        quota[x].granted * TicksPerSec
            <= entry[x].burst * TicksPerSec + entry[x].rps * (now - quota[x].since)

\* The references a request and an admin request hold are real ones, an entry
\* in the map has the name it is found under, and no clock runs ahead.
Placed ==
    /\ \A c \in Conns :
          /\ req[c].pc \in Deciding => req[c].host \in Hosts
          /\ req[c].pc \in {"lookup"} \cup OnTunnel => req[c].sub \in Subs
          /\ req[c].pc \in OnTunnel => req[c].entry \in Entries
    /\ adm.op # "idle" => adm.sub \in Subs /\ adm.entry \in Entries
    /\ adm.op = "domain" => adm.domain \in Domains
    /\ adm.op \in {"ddos_on", "ddos_rps", "ddos_burst"} => adm.body \in DdosReqs
    /\ \A s \in Subs : tunnels[s] # None => entry[tunnels[s]].name = s
    /\ \A x \in Entries : entry[x].last <= now /\ quota[x].since <= now

\* While a request decides, its history covers the present.
Watched ==
    \A c \in Conns : req[c].pc \in Deciding =>
        /\ routes[Lower[req[c].host]] \in seen[c].enabled
        /\ Configured(req[c].host) \in seen[c].subs
        /\ seen[c].live \subseteq Live
        /\ seen[c].paused \subseteq Paused

\* What each stage knows of the look-ups before it.
LookedUp ==
    \A c \in Conns :
        /\ req[c].pc \in OnProxy => TRUE \in seen[c].enabled
        /\ req[c].pc \in {"resolve", "lookup"} \cup OnTunnel => FALSE \in seen[c].enabled
        /\ req[c].pc \in {"lookup"} \cup OnTunnel => req[c].sub \in seen[c].subs
        /\ req[c].pc \in OnTunnel => entry[req[c].entry].name = req[c].sub

\* Tokens left and requests let through add up to what the limits allow.
Conserved ==
    \A x \in Entries : quota[x].granted > 0 =>
        /\ quota[x].since <= entry[x].last
        /\ quota[x].granted * TicksPerSec + entry[x].tokens
              <= entry[x].burst * TicksPerSec + entry[x].rps * (entry[x].last - quota[x].since)

\* The inductive invariant.
IngressInv ==
    TypeOK /\ Placed /\ Watched /\ LookedUp /\ PauseHolds /\ Conserved /\ GaugeExact
=============================================================================
