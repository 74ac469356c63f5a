--------------------------- MODULE TunnelRegistry ---------------------------
(***************************************************************************)
(* The relay's tunnel registry: the map from public names to tunnel        *)
(* entries, the set of TCP ports in use, and everything that changes them. *)
(*                                                                         *)
(*   - one handle_client task per client connection, which registers a     *)
(*     name or a port, serves the tunnel, and cleans up when it ends       *)
(*     (crates/seamless-relay/src/tunnel.rs);                              *)
(*   - admin requests that disconnect tunnels, and public HTTP requests    *)
(*     that hold a tunnel entry while they run (admin.rs, ingress.rs);     *)
(*   - the max-age expiry task and the SIGTERM handler (main.rs).          *)
(*                                                                         *)
(* A task's steps are cut where the code awaits: between two awaits a task *)
(* is atomic with respect to the shared maps, which are only reached       *)
(* through their mutexes.  A tunnel entry is represented by the connection *)
(* whose handler created it.  A TCP tunnel's key "tcp:<port>" is           *)
(* represented by the port: validate_subdomain admits no ':' in a          *)
(* subdomain, so the two kinds of key never meet.                          *)
(***************************************************************************)
EXTENDS Naturals, FiniteSets

CONSTANTS
    Conns,        \* client connections, each served by one handle_client task
    Subs,         \* subdomains, requested or drawn at random
    Ports,        \* TCP ports
    ClientIp,     \* [Conns -> ...]: the source address of a connection
    Tasks,        \* concurrent admin requests and public HTTP requests
    NoConn,       \* no connection: a free key, a free mutex
    NoKey,        \* a connection that has not asked for a key yet
    AnyPort,      \* the request Tcp { port: 0 }
    MaxTunnels,   \* --max-tunnels, 0 = unlimited
    MaxPerIp,     \* --max-tunnels-per-ip, 0 = unlimited
    ExpiryOn,     \* --tunnel-max-age > 0
    KeepaliveOn   \* --tunnel-keepalive > 0

Keys == Subs \cup Ports

ASSUME KeysAssumption ==
    /\ Subs \cap Ports = {}
    /\ NoKey \notin Keys
    /\ AnyPort \notin Keys
    /\ AnyPort # NoKey

ASSUME ConnsAssumption == NoConn \notin Conns

ASSUME LimitsAssumption ==
    /\ MaxTunnels \in Nat
    /\ MaxPerIp \in Nat
    /\ ExpiryOn \in BOOLEAN
    /\ KeepaliveOn \in BOOLEAN

VARIABLES
    tunnels,    \* TunnelMap: [Keys -> Conns \cup {NoConn}]
    tcp_ports,  \* TcpPortSet: the ports the relay believes it uses
    listening,  \* the operating system's view: who is bound to a port
    lock,       \* the handler that holds the tunnels mutex across an await
    pc,         \* where each handler is, see Stages
    key,        \* the name or port each handler registers
    link,       \* the client's side of the control stream
    reply,      \* what the handler has told its client
    signalled,  \* the connections whose disconnect_tx has been taken and sent
    task,       \* what each admin or public request is doing
    holds,      \* the entries (Arc clones) each of them holds
    stopping    \* SIGTERM has been handled

handlerVars == <<lock, pc, key, reply>>
taskVars == <<task, holds>>
vars == <<tunnels, tcp_ports, listening, lock, pc, key, link, reply,
          signalled, task, holds, stopping>>

(***************************************************************************)
(* The stages of a handler, in the order of the code.                      *)
(***************************************************************************)
Stages == { "hello",     \* waiting for Register, then deciding on it
            "perIp",     \* about to count the tunnels of its address
            "cap",       \* about to count all tunnels
            "insert",    \* HTTP: about to lock the map and insert
            "taken",     \* HTTP: writing Error 409 with the mutex held
            "pick",      \* TCP, port 0: drawing a port
            "bindDrawn", \* TCP, port 0: binding the port drawn
            "bind",      \* TCP: binding the port the client asked for
            "track",     \* TCP: bound, about to record the port
            "reply",     \* writing Registered
            "publish",   \* TCP: about to insert the entry
            "serve",     \* in the select! loop
            "ping",      \* inside the body of the ping branch
            "close",     \* TCP: shutting the listener task down
            "untrack",   \* TCP: about to forget the port
            "remove",    \* about to remove the key from the map
            "done" }

TypeOK ==
    /\ tunnels \in [Keys -> Conns \cup {NoConn}]
    /\ tcp_ports \subseteq Ports
    /\ listening \in [Ports -> Conns \cup {NoConn}]
    /\ pc \in [Conns -> Stages]
    /\ key \in [Conns -> Keys \cup {NoKey, AnyPort}]
    /\ link \in [Conns -> {"up", "stalled", "down"}]
    /\ reply \in [Conns -> {"none", "refused", "registered", "lost"}]
    /\ signalled \subseteq Conns
    /\ task \in [Tasks -> {"idle", "request", "evict"}]
    /\ holds \in [Tasks -> SUBSET Conns]
    /\ stopping \in BOOLEAN
    /\ lock \in {NoConn} \cup {c \in Conns : pc[c] = "taken"}

Init ==
    /\ tunnels = [k \in Keys |-> NoConn]
    /\ tcp_ports = {}
    /\ listening = [p \in Ports |-> NoConn]
    /\ lock = NoConn
    /\ pc = [c \in Conns |-> "hello"]
    /\ key = [c \in Conns |-> NoKey]
    /\ link = [c \in Conns |-> "up"]
    /\ reply = [c \in Conns |-> "none"]
    /\ signalled = {}
    /\ task = [t \in Tasks |-> "idle"]
    /\ holds = [t \in Tasks |-> {}]
    /\ stopping = FALSE

-----------------------------------------------------------------------------
(***************************************************************************)
(* Reading the map.                                                        *)
(***************************************************************************)

Entries == {k \in Keys : tunnels[k] # NoConn}

EntriesOfIp(ip) == {k \in Entries : ClientIp[tunnels[k]] = ip}

\* Some Arc of c's entry is alive: in the map, or cloned by a request.
Referenced(c) ==
    \/ \E k \in Keys : tunnels[k] = c
    \/ \E t \in Tasks : c \in holds[t]

\* disconnect_rx completes when the sender fires, and also when it is dropped
\* with the last Arc of the entry: `_ = &mut disconnect_rx` matches both.
Woken(c) == c \in signalled \/ ~Referenced(c)

Goto(c, stage) == pc' = [pc EXCEPT ![c] = stage]

Answer(c, r) == reply' = [reply EXCEPT ![c] = r]

\* The first cleanup step after the select! loop.
Leave(c) == Goto(c, IF key[c] \in Ports THEN "close" ELSE "remove")

-----------------------------------------------------------------------------
(***************************************************************************)
(* The environment: the client's side of a control stream.  `link` is the  *)
(* stream as the relay sees it.  A stalled stream has no send window left  *)
(* and delivers nothing; it may still break.                               *)
(***************************************************************************)

LinkStalls(c) ==
    /\ link[c] = "up" /\ pc[c] # "done"
    /\ link' = [link EXCEPT ![c] = "stalled"]
    /\ UNCHANGED <<tunnels, tcp_ports, listening, handlerVars, signalled,
                   taskVars, stopping>>

LinkDrops(c) ==
    /\ link[c] # "down" /\ pc[c] # "done"
    /\ link' = [link EXCEPT ![c] = "down"]
    /\ UNCHANGED <<tunnels, tcp_ports, listening, handlerVars, signalled,
                   taskVars, stopping>>

-----------------------------------------------------------------------------
(***************************************************************************)
(* handle_client: admission.                                               *)
(***************************************************************************)

\* Every way to end before the registry is touched.  A denylisted address, a
\* stream that never opens, a late or unexpected frame: no answer.  A wrong
\* version, a bad token, the connection rate limit: an Error frame.
HandshakeFails(c) ==
    /\ pc[c] = "hello"
    /\ \E r \in {"none", "refused"} : Answer(c, r)
    /\ Goto(c, "done")
    /\ UNCHANGED <<tunnels, tcp_ports, listening, lock, key, link, signalled,
                   taskVars, stopping>>

\* Register is read and accepted.  A subdomain drawn at random is any subdomain.
Register(c, k) ==
    /\ pc[c] = "hello" /\ link[c] # "down"
    /\ key' = [key EXCEPT ![c] = k]
    /\ Goto(c, "perIp")
    /\ UNCHANGED <<tunnels, tcp_ports, listening, lock, link, reply, signalled,
                   taskVars, stopping>>

\* Mutant of Admit: the limit itself is let through.
AdmitOneMore(c, limit, count, next) ==
    /\ limit > 0 => lock = NoConn
    /\ IF limit > 0 /\ count > limit
       THEN Answer(c, "refused") /\ Goto(c, "done")
       ELSE Goto(c, next) /\ UNCHANGED reply
    /\ UNCHANGED <<tunnels, tcp_ports, listening, lock, key, link, signalled,
                   taskVars, stopping>>

\* A limit compares the map as it is now; the mutex is released right after.
Admit(c, limit, count, next) ==
    /\ limit > 0 => lock = NoConn
    /\ IF limit > 0 /\ count >= limit
       THEN Answer(c, "refused") /\ Goto(c, "done")
       ELSE Goto(c, next) /\ UNCHANGED reply
    /\ UNCHANGED <<tunnels, tcp_ports, listening, lock, key, link, signalled,
                   taskVars, stopping>>

CheckPerIp(c) ==
    /\ pc[c] = "perIp"
    /\ Admit(c, MaxPerIp, Cardinality(EntriesOfIp(ClientIp[c])), "cap")

CheckCap(c) ==
    /\ pc[c] = "cap"
    /\ Admit(c, MaxTunnels, Cardinality(Entries),
             CASE key[c] \in Subs  -> "insert"
               [] key[c] = AnyPort -> "pick"
               [] OTHER            -> "bind")

-----------------------------------------------------------------------------
(***************************************************************************)
(* serve_http: registration.                                               *)
(***************************************************************************)

\* The name is malformed, reserved, blocklisted or lacks the prefix: which
\* names are refused is the operator's choice, so any name may be.
RefuseName(c) ==
    /\ pc[c] = "insert"
    /\ Answer(c, "refused") /\ Goto(c, "done")
    /\ UNCHANGED <<tunnels, tcp_ports, listening, lock, key, link, signalled,
                   taskVars, stopping>>

\* Mutant of InsertHttp: the insert forgets contains_key.
InsertHttpUnchecked(c) ==
    /\ pc[c] = "insert" /\ lock = NoConn
    /\ tunnels' = [tunnels EXCEPT ![key[c]] = c]
    /\ Goto(c, "reply")
    /\ UNCHANGED <<tcp_ports, listening, lock, key, link, reply, signalled,
                   taskVars, stopping>>

InsertHttp(c) ==
    /\ pc[c] = "insert" /\ lock = NoConn
    /\ tunnels[key[c]] = NoConn
    /\ tunnels' = [tunnels EXCEPT ![key[c]] = c]
    /\ Goto(c, "reply")
    /\ UNCHANGED <<tcp_ports, listening, lock, key, link, reply, signalled,
                   taskVars, stopping>>

\* contains_key: the Error 409 frame is written before the guard is dropped.
FindTaken(c) ==
    /\ pc[c] = "insert" /\ lock = NoConn
    /\ tunnels[key[c]] # NoConn
    /\ lock' = c
    /\ Goto(c, "taken")
    /\ UNCHANGED <<tunnels, tcp_ports, listening, key, link, reply, signalled,
                   taskVars, stopping>>

\* Mutant of SendTaken: the refused registration cleans the key up.
SendTakenCleansUp(c) ==
    /\ pc[c] = "taken"
    /\ lock' = NoConn
    /\ tunnels' = [tunnels EXCEPT ![key[c]] = NoConn]
    /\ Answer(c, "refused") /\ Goto(c, "done")
    /\ UNCHANGED <<tcp_ports, listening, key, link, signalled, taskVars,
                   stopping>>

\* The write's result is ignored, and the return drops the guard.
SendTaken(c) ==
    /\ pc[c] = "taken"
    /\ lock' = NoConn
    /\ Answer(c, "refused") /\ Goto(c, "done")
    /\ UNCHANGED <<tunnels, tcp_ports, listening, key, link, signalled,
                   taskVars, stopping>>

-----------------------------------------------------------------------------
(***************************************************************************)
(* serve_tcp and bind_random_port: binding a port.  The operating system   *)
(* may refuse any bind (another process, a privileged port).               *)
(***************************************************************************)

PickPort(c) ==
    /\ pc[c] = "pick"
    /\ \E p \in Ports \ tcp_ports : key' = [key EXCEPT ![c] = p]
    /\ Goto(c, "bindDrawn")
    /\ UNCHANGED <<tunnels, tcp_ports, listening, lock, link, reply, signalled,
                   taskVars, stopping>>

\* The drawn port cannot be bound: draw again.
RedrawPort(c) ==
    /\ pc[c] = "bindDrawn"
    /\ key' = [key EXCEPT ![c] = AnyPort]
    /\ Goto(c, "pick")
    /\ UNCHANGED <<tunnels, tcp_ports, listening, lock, link, reply, signalled,
                   taskVars, stopping>>

\* No port after 50 draws, or the port asked for cannot be bound: the error is
\* returned to the accept loop and no frame is written.
BindFails(c) ==
    /\ pc[c] \in {"pick", "bind"}
    /\ Goto(c, "done")
    /\ UNCHANGED <<tunnels, tcp_ports, listening, lock, key, link, reply,
                   signalled, taskVars, stopping>>

\* Mutant of Bind: the socket is bound with SO_REUSEPORT.
BindShared(c) ==
    /\ pc[c] \in {"bind", "bindDrawn"}
    /\ listening' = [listening EXCEPT ![key[c]] = c]
    /\ Goto(c, "track")
    /\ UNCHANGED <<tunnels, tcp_ports, lock, key, link, reply, signalled,
                   taskVars, stopping>>

Bind(c) ==
    /\ pc[c] \in {"bind", "bindDrawn"}
    /\ listening[key[c]] = NoConn
    /\ listening' = [listening EXCEPT ![key[c]] = c]
    /\ Goto(c, "track")
    /\ UNCHANGED <<tunnels, tcp_ports, lock, key, link, reply, signalled,
                   taskVars, stopping>>

Track(c) ==
    /\ pc[c] = "track"
    /\ tcp_ports' = tcp_ports \cup {key[c]}
    /\ Goto(c, "reply")
    /\ UNCHANGED <<tunnels, listening, lock, key, link, reply, signalled,
                   taskVars, stopping>>

-----------------------------------------------------------------------------
(***************************************************************************)
(* serve_http and serve_tcp: answering, serving, cleaning up.  The first   *)
(* frame on a fresh control stream always fits its send window; a ping may *)
(* find the window full.                                                   *)
(***************************************************************************)

SendRegistered(c) ==
    /\ pc[c] = "reply" /\ link[c] # "down"
    /\ Answer(c, "registered")
    /\ Goto(c, IF key[c] \in Ports THEN "publish" ELSE "serve")
    /\ UNCHANGED <<tunnels, tcp_ports, listening, lock, key, link, signalled,
                   taskVars, stopping>>

\* `write_frame(...).await?` returns early: a TCP listener is dropped with the
\* stack frame, the map entry and the port record are left where they are.
RegisteredLost(c) ==
    /\ pc[c] = "reply" /\ link[c] = "down"
    /\ Answer(c, "lost") /\ Goto(c, "done")
    /\ listening' = [p \in Ports |-> IF listening[p] = c THEN NoConn
                                                         ELSE listening[p]]
    /\ UNCHANGED <<tunnels, tcp_ports, lock, key, link, signalled, taskVars,
                   stopping>>

\* TCP: insert without looking whether the key is there.
Publish(c) ==
    /\ pc[c] = "publish" /\ lock = NoConn
    /\ tunnels' = [tunnels EXCEPT ![key[c]] = c]
    /\ Goto(c, "serve")
    /\ UNCHANGED <<tcp_ports, listening, lock, key, link, reply, signalled,
                   taskVars, stopping>>

Wake(c) ==
    /\ pc[c] = "serve" /\ Woken(c)
    /\ Leave(c)
    /\ UNCHANGED <<tunnels, tcp_ports, listening, lock, key, link, reply,
                   signalled, taskVars, stopping>>

ReadEof(c) ==
    /\ pc[c] = "serve" /\ link[c] = "down"
    /\ Leave(c)
    /\ UNCHANGED <<tunnels, tcp_ports, listening, lock, key, link, reply,
                   signalled, taskVars, stopping>>

\* The branch body runs to its end before the other branches are polled again.
PingTick(c) ==
    /\ pc[c] = "serve"
    /\ Goto(c, "ping")
    /\ UNCHANGED <<tunnels, tcp_ports, listening, lock, key, link, reply,
                   signalled, taskVars, stopping>>

PingSent(c) ==
    /\ pc[c] = "ping" /\ link[c] = "up"
    /\ Goto(c, "serve")
    /\ UNCHANGED <<tunnels, tcp_ports, listening, lock, key, link, reply,
                   signalled, taskVars, stopping>>

\* Mutant of PingFails: the ping is written without a timeout.
PingFailsUntimed(c) ==
    /\ pc[c] = "ping" /\ link[c] = "down"
    /\ Leave(c)
    /\ UNCHANGED <<tunnels, tcp_ports, listening, lock, key, link, reply,
                   signalled, taskVars, stopping>>

\* The write fails, or the 10 s timeout that only tunnel_keepalive > 0 adds
\* fires.
PingFails(c) ==
    /\ pc[c] = "ping"
    /\ link[c] = "down" \/ (KeepaliveOn /\ link[c] = "stalled")
    /\ Leave(c)
    /\ UNCHANGED <<tunnels, tcp_ports, listening, lock, key, link, reply,
                   signalled, taskVars, stopping>>

CloseListener(c) ==
    /\ pc[c] = "close"
    /\ listening' = [listening EXCEPT ![key[c]] = NoConn]
    /\ Goto(c, "untrack")
    /\ UNCHANGED <<tunnels, tcp_ports, lock, key, link, reply, signalled,
                   taskVars, stopping>>

\* Mutant of Untrack: the TCP cleanup forgets the record of the port.
UntrackForgets(c) ==
    /\ pc[c] = "untrack"
    /\ Goto(c, "remove")
    /\ UNCHANGED <<tunnels, tcp_ports, listening, lock, key, link, reply,
                   signalled, taskVars, stopping>>

Untrack(c) ==
    /\ pc[c] = "untrack"
    /\ tcp_ports' = tcp_ports \ {key[c]}
    /\ Goto(c, "remove")
    /\ UNCHANGED <<tunnels, listening, lock, key, link, reply, signalled,
                   taskVars, stopping>>

\* Mutant of Remove: the handler ends without removing its key.
RemoveForgets(c) ==
    /\ pc[c] = "remove" /\ lock = NoConn
    /\ Goto(c, "done")
    /\ UNCHANGED <<tunnels, tcp_ports, listening, lock, key, link, reply,
                   signalled, taskVars, stopping>>

\* The key is removed whoever's entry is there.
Remove(c) ==
    /\ pc[c] = "remove" /\ lock = NoConn
    /\ tunnels' = [tunnels EXCEPT ![key[c]] = NoConn]
    /\ Goto(c, "done")
    /\ UNCHANGED <<tcp_ports, listening, lock, key, link, reply, signalled,
                   taskVars, stopping>>

-----------------------------------------------------------------------------
(***************************************************************************)
(* Requests that clone an entry out of the map.                            *)
(***************************************************************************)

StartTask(t, role, cs) ==
    /\ task[t] = "idle" /\ lock = NoConn /\ cs # {}
    /\ task' = [task EXCEPT ![t] = role]
    /\ holds' = [holds EXCEPT ![t] = cs]
    /\ UNCHANGED <<tunnels, tcp_ports, listening, handlerVars, link, signalled,
                   stopping>>

EndTask(t) ==
    /\ task' = [task EXCEPT ![t] = "idle"]
    /\ holds' = [holds EXCEPT ![t] = {}]
    /\ UNCHANGED <<tunnels, tcp_ports, listening, handlerVars, link, signalled,
                   stopping>>

\* route_http holds the entry for as long as it forwards.
RequestStart(t, k) == k \in Entries /\ StartTask(t, "request", {tunnels[k]})

RequestEnd(t) == task[t] = "request" /\ EndTask(t)

\* admin_disconnect_tunnel: look the entry up now, signal it later.
EvictOne(t, k) == k \in Entries /\ StartTask(t, "evict", {tunnels[k]})

\* admin_bulk_disconnect: collect under the lock, signal one by one.
EvictIp(t, ip) == StartTask(t, "evict", {tunnels[k] : k \in EntriesOfIp(ip)})

EvictSignal(t) ==
    /\ task[t] = "evict"
    /\ \E c \in holds[t] \ signalled : signalled' = signalled \cup {c}
    /\ UNCHANGED <<tunnels, tcp_ports, listening, handlerVars, link, taskVars,
                   stopping>>

EvictEnd(t) ==
    /\ task[t] = "evict" /\ holds[t] \subseteq signalled
    /\ EndTask(t)

-----------------------------------------------------------------------------
(***************************************************************************)
(* The relay's own tasks.                                                  *)
(***************************************************************************)

\* Signal and remove the entries under K, in one critical section.
Evict(K) ==
    /\ lock = NoConn
    /\ signalled' = signalled \cup {tunnels[k] : k \in K}
    /\ tunnels' = [k \in Keys |-> IF k \in K THEN NoConn ELSE tunnels[k]]
    /\ UNCHANGED <<tcp_ports, listening, handlerVars, link, taskVars>>

\* Any set of entries may have reached the maximum age at a tick.
Expire ==
    /\ ExpiryOn
    /\ \E K \in SUBSET Entries : K # {} /\ Evict(K)
    /\ UNCHANGED stopping

\* The process exits 5 s later; until then handlers and accepts go on.
Sigterm ==
    /\ ~stopping
    /\ Evict(Entries)
    /\ stopping' = TRUE

-----------------------------------------------------------------------------
Handler(c) ==
    \/ HandshakeFails(c)
    \/ \E k \in Keys \cup {AnyPort} : Register(c, k)
    \/ CheckPerIp(c) \/ CheckCap(c)
    \/ RefuseName(c) \/ InsertHttp(c) \/ FindTaken(c) \/ SendTaken(c)
    \/ PickPort(c) \/ RedrawPort(c) \/ BindFails(c) \/ Bind(c) \/ Track(c)
    \/ SendRegistered(c) \/ RegisteredLost(c) \/ Publish(c)
    \/ Wake(c) \/ ReadEof(c)
    \/ PingTick(c) \/ PingSent(c) \/ PingFails(c)
    \/ CloseListener(c) \/ Untrack(c) \/ Remove(c)

Request(t) ==
    \/ \E k \in Subs : RequestStart(t, k)
    \/ RequestEnd(t)
    \/ \E k \in Keys : EvictOne(t, k)
    \/ \E c \in Conns : EvictIp(t, ClientIp[c])
    \/ EvictSignal(t) \/ EvictEnd(t)

\* Every connection has been handled: nothing more needs to happen.
Quiet == (\A c \in Conns : pc[c] = "done") /\ UNCHANGED vars

Next ==
    \/ \E c \in Conns : Handler(c) \/ LinkStalls(c) \/ LinkDrops(c)
    \/ \E t \in Tasks : Request(t)
    \/ Expire
    \/ Sigterm
    \/ Quiet

Spec == Init /\ [][Next]_vars

(***************************************************************************)
(* Fairness.  The runtime keeps polling a task that can go on.  select!    *)
(* picks among its ready branches at random, so a branch that is ready     *)
(* again and again is taken: strong fairness for Wake and ReadEof, which a *)
(* ping body may interrupt.  Clients, public requests, the operator and    *)
(* the clock owe nothing.                                                  *)
(***************************************************************************)
Progress(c) ==
    \/ CheckPerIp(c) \/ CheckCap(c)
    \/ RefuseName(c) \/ InsertHttp(c) \/ FindTaken(c) \/ SendTaken(c)
    \/ PickPort(c) \/ BindFails(c) \/ Bind(c) \/ Track(c)
    \/ SendRegistered(c) \/ RegisteredLost(c) \/ Publish(c)
    \/ PingTick(c) \/ PingSent(c) \/ PingFails(c)
    \/ CloseListener(c) \/ Untrack(c) \/ Remove(c)

Fairness ==
    /\ \A c \in Conns : /\ WF_vars(Progress(c))
                        /\ SF_vars(Wake(c))
                        /\ SF_vars(ReadEof(c))
    /\ \A t \in Tasks : WF_vars(EvictSignal(t) \/ EvictEnd(t))

FairSpec == Spec /\ Fairness

-----------------------------------------------------------------------------
(***************************************************************************)
(* Names.                                                                  *)
(***************************************************************************)

\* The stages in which an HTTP handler has put its entry in the map and has
\* not removed it yet.
HttpHolding == {"reply", "serve", "ping", "remove"}

\* While no expiry and no shutdown evicts entries, a handler that registered a
\* subdomain finds its own entry under it until it removes it: the
\* unconditional remove at the end of serve_http never hits another client's
\* entry, and route_http never sends a name's traffic to another client.
HttpNameOwned ==
    ~ExpiryOn /\ ~stopping =>
        \A c \in Conns :
            key[c] \in Subs /\ pc[c] \in HttpHolding => tunnels[key[c]] = c

\* Under the same condition a name's entry changes hands only through its own
\* handler's final remove: neither a competing Register (409 path), nor a
\* failed registration, nor an admin disconnect takes it away.
NameNeverTaken ==
    [][~ExpiryOn /\ ~stopping' =>
        \A k \in Subs :
            tunnels[k] # NoConn /\ tunnels'[k] # tunnels[k] =>
                /\ tunnels'[k] = NoConn
                /\ pc[tunnels[k]] = "remove" /\ pc'[tunnels[k]] = "done"]_vars

\* Whatever evicts entries, the only entries that outlive their handler are
\* subdomains whose client was never told Registered (the early return of
\* `write_frame(...).await?` in serve_http): a confirmed tunnel, HTTP or TCP,
\* always leaves the map with its handler.
OrphansUnconfirmed ==
    \A k \in Keys :
        tunnels[k] # NoConn /\ pc[tunnels[k]] = "done" =>
            k \in Subs /\ reply[tunnels[k]] = "lost"

(***************************************************************************)
(* Ports.                                                                  *)
(***************************************************************************)

\* The stages in which a TCP handler owns the listening socket.
TcpBound == {"track", "reply", "publish", "serve", "ping", "close"}

\* A TCP handler owns the listening socket of its port from the bind to the
\* shutdown of its listener task, whatever else binds and leaves meanwhile.
ListenerOwned ==
    \A c \in Conns :
        key[c] \in Ports /\ pc[c] \in TcpBound => listening[key[c]] = c

\* serve_tcp inserts its entry without looking: what it overwrites is only
\* ever the entry of a handler that has already closed its listener and is on
\* its way out, never a live tunnel.
OverwriteOnlyClosing ==
    [][\A p \in Ports :
        tunnels[p] # NoConn /\ tunnels'[p] \notin {NoConn, tunnels[p]} =>
            pc[tunnels[p]] \in {"untrack", "remove"}]_vars

\* The stages between the insert into tcp_ports and the remove from it.
TcpTracked == {"reply", "publish", "serve", "ping", "close", "untrack"}

\* A port that is recorded in tcp_ports, and so avoided by the random draw, is
\* in the hands of a handler that has recorded and not yet released it; the only
\* records that leak are those of clients that were never told Registered (the
\* early return of `write_frame(...).await?` in serve_tcp).
PortRecordsAccounted ==
    \A p \in tcp_ports : \E c \in Conns :
        key[c] = p /\ (pc[c] \in TcpTracked \/ (pc[c] = "done" /\ reply[c] = "lost"))

\* Both maps together: whatever handlers, evictions and a shutdown do in whatever
\* order, what outlives a handler of serve_http or serve_tcp is a name or a port
\* record whose client was never told Registered.
LeaksUnconfirmed == OrphansUnconfirmed /\ PortRecordsAccounted

(***************************************************************************)
(* Endings.                                                                *)
(***************************************************************************)

\* A disconnect signal (admin, expiry, SIGTERM) ends a serving handler, even
\* when it arrives while a ping is being written to a stalled client.
EvictionCompletes ==
    \A c \in Conns :
        c \in signalled /\ pc[c] \in {"serve", "ping"} ~> pc[c] = "done"

\* When a confirmed client drops, its entry leaves the map.
DropFreesKey ==
    \A c \in Conns :
        reply[c] = "registered" /\ link[c] = "down" ~>
            \A k \in Keys : tunnels[k] # c

(***************************************************************************)
(* The inductive invariant behind the safety properties.                   *)
(***************************************************************************)

\* The stage of a handler tells what it has registered for.
StageFitsKey ==
    \A c \in Conns :
        /\ pc[c] = "hello" => key[c] = NoKey
        /\ pc[c] \in {"perIp", "cap"} => key[c] # NoKey
        /\ pc[c] \in {"insert", "taken"} => key[c] \in Subs
        /\ pc[c] = "pick" => key[c] = AnyPort
        /\ pc[c] \in {"bind", "bindDrawn", "track", "publish", "close",
                      "untrack"} => key[c] \in Ports
        /\ pc[c] \in {"reply", "serve", "ping", "remove"} => key[c] \in Keys

\* An entry belongs to a handler that registered for its key and that has
\* inserted it and not removed it; only the orphans of OrphansUnconfirmed have
\* lost their handler.
EntryFitsHandler ==
    \A k \in Keys : tunnels[k] # NoConn =>
        /\ key[tunnels[k]] = k
        /\ pc[tunnels[k]] \in IF k \in Subs
                              THEN HttpHolding \cup {"done"}
                              ELSE {"serve", "ping", "close", "untrack", "remove"}
        /\ pc[tunnels[k]] = "done" => reply[tunnels[k]] = "lost"

\* Every step of every handler, request and background task keeps entries,
\* sockets and stages in agreement.
RegistryInv ==
    /\ TypeOK
    /\ StageFitsKey
    /\ EntryFitsHandler
    /\ ListenerOwned
    /\ HttpNameOwned

(***************************************************************************)
(* The registry as a lease service for names (HTTP tunnels).               *)
(***************************************************************************)

\* A TCP handler asks for no name.
PhaseOf(c) ==
    CASE key[c] \in Ports \cup {AnyPort} \/ pc[c] = "done"      -> "over"
      [] pc[c] = "reply" /\ key[c] \in Subs                     -> "pending"
      [] pc[c] \in {"serve", "ping", "remove"} /\ key[c] \in Subs -> "holding"
      [] OTHER                                                  -> "asking"

Lease == INSTANCE NameLease WITH
    Names   <- Subs,
    Clients <- Conns,
    Nobody  <- NoConn,
    lease   <- [k \in Subs |-> tunnels[k]],
    phase   <- [c \in Conns |-> PhaseOf(c)],
    open    <- ~stopping

\* With no expiry, the registry implements the lease service.
ImplementsLease == Lease!Spec
=============================================================================
