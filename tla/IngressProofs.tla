--------------------------- MODULE IngressProofs ---------------------------
(***************************************************************************)
(* The routing, pause, limit and gauge properties of the ingress hold for  *)
(* every set of connections, hosts, names and entries, and for all limits. *)
(***************************************************************************)
EXTENDS Ingress, FiniteSetTheorems, TLAPS

USE IngressAssumption

(***************************************************************************)
(* In the initial state nothing is registered, mapped or under way.        *)
(***************************************************************************)
LEMMA IngressInit == Init => IngressInv
  <1> SUFFICES ASSUME Init PROVE IngressInv
    OBVIOUS
  <1>0. NoReq \in Request /\ NoEntry \in Entry /\ NoAdm \in AdminRequest /\ NoSeen \in History
    BY DEF NoReq, NoEntry, NoAdm, NoSeen, Request, Entry, AdminRequest, History, Deciding,
           Copying, Answers
  <1>1. TypeOK
    BY <1>0 DEF TypeOK, Init, NoQuota
  <1>2. \A c \in Conns : req[c].pc \notin Deciding \cup OnProxy \cup OnTunnel \cup Copying
                         /\ req[c].pc \notin {"resolve", "lookup"}
    BY DEF Init, NoReq, Deciding, OnProxy, OnTunnel, Copying
  <1>3. Placed
    BY <1>2 DEF Placed, Init, NoAdm, NoEntry, NoQuota
  <1>4. Watched /\ LookedUp /\ PauseHolds
    BY <1>2 DEF Watched, LookedUp, PauseHolds
  <1>5. Conserved
    BY DEF Conserved, Init, NoQuota
  <1>6. {c \in Conns : req[c].pc \in Copying /\ req[c].ws} = {}
    BY <1>2
  <1>7. GaugeExact
    BY <1>6, FS_EmptySet DEF GaugeExact, Init
  <1> QED
    BY <1>1, <1>3, <1>4, <1>5, <1>7 DEF IngressInv

(***************************************************************************)
(* A step of one connection leaves the others alone and is well typed.     *)
(***************************************************************************)
LEMMA RequestTyped ==
  ASSUME IngressInv, NEW c \in Conns, RouteHttp(c)
  PROVE  /\ req' = [req EXCEPT ![c] = req'[c]] /\ req'[c] \in Request
         /\ seen' = [seen EXCEPT ![c] = seen'[c]] /\ seen'[c] \in History
  <1> USE DEF IngressInv, TypeOK
  <1>a. req[c] \in Request /\ seen[c] \in History
    OBVIOUS
  <1>b. ASSUME NEW a \in Answers, End(c, a)
        PROVE  /\ req' = [req EXCEPT ![c] = req'[c]] /\ req'[c] \in Request
               /\ seen' = [seen EXCEPT ![c] = seen'[c]] /\ seen'[c] \in History
    <2>1. [NoReq EXCEPT !.answer = a] \in Request /\ NoSeen \in History
      BY DEF NoReq, NoSeen, Request, History
    <2> QED
      BY <1>b, <2>1 DEF End
  <1>c. ASSUME NEW p \in Deciding \cup Copying, Goto(c, p), seen' = seen
        PROVE  /\ req' = [req EXCEPT ![c] = req'[c]] /\ req'[c] \in Request
               /\ seen' = [seen EXCEPT ![c] = seen'[c]] /\ seen'[c] \in History
    <2>1. [req[c] EXCEPT !.pc = p] \in Request
      BY <1>a DEF Request
    <2> QED
      BY <1>c, <2>1 DEF Goto
  <1>1. CASE ReadHead(c)
    <2> PICK h \in Hosts, u \in BOOLEAN :
             /\ req' = [req EXCEPT ![c] = [NoReq EXCEPT !.pc = "route", !.host = h, !.ws = u]]
             /\ seen' = [seen EXCEPT ![c] = Snapshot(h)]
      BY <1>1 DEF ReadHead
    <2>1. Lower[h] \in Domains /\ SubOf[h] \in Subs \cup {None}
      OBVIOUS
    <2>2. Snapshot(h) \in History
      BY <2>1 DEF Snapshot, Configured, Live, Paused, History
    <2>3. [NoReq EXCEPT !.pc = "route", !.host = h, !.ws = u] \in Request
      BY DEF NoReq, Request, Deciding, Answers
    <2> QED
      BY <2>2, <2>3
  <1>2. CASE EndEarly(c) \/ UpstreamFails(c) \/ UpstreamWriteFails(c) \/ NoRoute(c)
             \/ RefusePaused(c) \/ OpenFails(c) \/ FinishCopy(c) \/ RefuseToken(c)
    BY <1>2, <1>b DEF EndEarly, UpstreamFails, UpstreamWriteFails, NoRoute, RefusePaused,
                      OpenFails, FinishCopy, RefuseToken, Answers
  <1>3. CASE FindRoute(c)
    BY <1>3, <1>c DEF FindRoute, Deciding
  <1>4. CASE UpstreamConnects(c) \/ StartProxying(c) \/ StartTunnelling(c) \/ TakeToken(c)
    BY <1>4, <1>c DEF UpstreamConnects, StartProxying, StartTunnelling, TakeToken, Deciding,
                      Copying
  <1>5. CASE Gate(c)
    BY <1>5, <1>c DEF Gate, Deciding
  <1>6. CASE Resolve(c)
    <2>1. req[c].host \in Hosts
      BY <1>6 DEF Resolve, Placed, Deciding
    <2>2. Target(req[c].host) \in Subs
      BY <1>6, <2>1 DEF Resolve, Target
    <2>3. [req[c] EXCEPT !.pc = "lookup", !.sub = Target(req[c].host)] \in Request
      BY <1>a, <2>2 DEF Request, Deciding
    <2>4. req' = [req EXCEPT ![c] = [req[c] EXCEPT !.pc = "lookup",
                                                   !.sub = Target(req[c].host)]]
      BY <1>6 DEF Resolve
    <2> QED
      BY <1>6, <2>3, <2>4 DEF Resolve
  <1>7. CASE FindTunnel(c)
    <2>1. req[c].sub \in Subs
      BY <1>7 DEF FindTunnel, Placed
    <2>2. [req[c] EXCEPT !.pc = "gate", !.entry = tunnels[req[c].sub]] \in Request
      BY <1>a, <2>1 DEF Request, Deciding
    <2>3. req' = [req EXCEPT ![c] = [req[c] EXCEPT !.pc = "gate",
                                                   !.entry = tunnels[req[c].sub]]]
      BY <1>7 DEF FindTunnel
    <2> QED
      BY <1>7, <2>2, <2>3 DEF FindTunnel
  <1>8. CASE ReadLimits(c)
    <2> DEFINE e == entry[req[c].entry]
               r == [req[c] EXCEPT !.pc = IF e.rps = 0 THEN "open" ELSE "bucket",
                                   !.rps = e.rps, !.burst = e.burst]
    <2>1. req[c].entry \in Entries
      BY <1>8 DEF ReadLimits, Placed, OnTunnel
    <2>2. e.rps \in Nat /\ e.burst \in Nat
      BY <2>1 DEF Entry
    <2>3. r \in Request
      <3> DEFINE p == IF e.rps = 0 THEN "open" ELSE "bucket"
      <3>1. p \in Deciding
        BY DEF Deciding
      <3> HIDE DEF p, e
      <3> QED
        BY <1>a, <2>2, <3>1 DEF p, Request
    <2>4. req' = [req EXCEPT ![c] = r]
      BY <1>8 DEF ReadLimits
    <2> HIDE DEF r
    <2> QED
      BY <1>8, <2>3, <2>4 DEF ReadLimits
  <1> QED
    BY <1>1, <1>2, <1>3, <1>4, <1>5, <1>6, <1>7, <1>8 DEF RouteHttp

(***************************************************************************)
(* A step of a connection changes no map, and of an entry only the bucket. *)
(***************************************************************************)
LEMMA RequestFrame ==
  ASSUME IngressInv, NEW c \in Conns, RouteHttp(c)
  PROVE  /\ UNCHANGED <<routes, domains, tunnels, adm, now>>
         /\ entry' \in [Entries -> Entry]
         /\ quota' \in [Entries -> [granted : Nat, since : Nat]]
         /\ \A x \in Entries :
               /\ entry'[x].name = entry[x].name /\ entry'[x].paused = entry[x].paused
               /\ entry'[x].rps = entry[x].rps /\ entry'[x].burst = entry[x].burst
               /\ entry'[x].last <= now /\ quota'[x].since <= now
  <1> USE DEF IngressInv, TypeOK
  <1>1. ASSUME UNCHANGED <<config, now, quota>>
        PROVE  UNCHANGED <<routes, domains, tunnels, entry, adm, now, quota>>
    BY <1>1 DEF config
  <1>2. CASE UNCHANGED <<config, now, quota>>
    BY <1>1, <1>2 DEF Placed
  <1>3. ASSUME NEW x \in Entries, NEW t \in Nat, NEW q \in [granted : Nat, since : Nat],
               q.since <= now,
               entry' = [entry EXCEPT ![x].tokens = t, ![x].last = now],
               quota' = [quota EXCEPT ![x] = q]
        PROVE  /\ entry' \in [Entries -> Entry]
               /\ quota' \in [Entries -> [granted : Nat, since : Nat]]
               /\ \A y \in Entries :
                     /\ entry'[y].name = entry[y].name /\ entry'[y].paused = entry[y].paused
                     /\ entry'[y].rps = entry[y].rps /\ entry'[y].burst = entry[y].burst
                     /\ entry'[y].last <= now /\ quota'[y].since <= now
    <2>1. [entry[x] EXCEPT !.tokens = t, !.last = now] \in Entry
      <3>1. entry[x] \in Entry /\ now \in Nat
        OBVIOUS
      <3> QED
        BY <3>1 DEF Entry
    <2>2. entry' = [entry EXCEPT ![x] = [entry[x] EXCEPT !.tokens = t, !.last = now]]
      BY <1>3
    <2>3. entry[x] \in Entry
      OBVIOUS
    <2>4. entry'[x] = [entry[x] EXCEPT !.tokens = t, !.last = now]
      BY <2>2
    <2>5. /\ entry'[x].name = entry[x].name /\ entry'[x].paused = entry[x].paused
          /\ entry'[x].rps = entry[x].rps /\ entry'[x].burst = entry[x].burst
          /\ entry'[x].last = now
      BY <2>3, <2>4 DEF Entry
    <2>6. \A y \in Entries \ {x} : entry'[y] = entry[y] /\ quota'[y] = quota[y]
      BY <1>3, <2>2
    <2>7. quota'[x] = q
      BY <1>3
    <2> QED
      BY <1>3, <2>1, <2>2, <2>5, <2>6, <2>7 DEF Placed
  <1>4. CASE TakeToken(c) \/ RefuseToken(c)
    <2> DEFINE x == req[c].entry
               full == Refill(entry[x], req[c].rps, req[c].burst)
               took == [granted |-> quota[x].granted + 1, since |-> quota[x].since]
               reset == [granted |-> 0, since |-> now]
    <2>1. x \in Entries
      BY <1>4 DEF TakeToken, RefuseToken, Placed, OnTunnel
    <2>2. entry[x] \in Entry /\ req[c] \in Request /\ entry[x].last <= now
      BY <2>1 DEF Placed
    <2>3. full \in Nat
      <3>1. /\ entry[x].tokens \in Nat /\ entry[x].last \in Nat
            /\ req[c].rps \in Nat /\ req[c].burst \in Nat
        BY <2>2 DEF Entry, Request
      <3>2. now - entry[x].last \in Nat
        BY <2>2, <3>1
      <3>3. ASSUME NEW i \in Nat, NEW j \in Nat PROVE i * j \in Nat
        OBVIOUS
      <3>4. (now - entry[x].last) * req[c].rps \in Nat /\ req[c].burst * TicksPerSec \in Nat
        BY <3>1, <3>2, <3>3
      <3> QED
        BY <3>1, <3>4 DEF Refill
    <2>4. /\ quota[x] \in [granted : Nat, since : Nat] /\ quota[x].since <= now
          /\ took \in [granted : Nat, since : Nat] /\ took.since <= now
          /\ reset \in [granted : Nat, since : Nat] /\ reset.since <= now
      BY <2>1 DEF Placed
    <2> HIDE DEF full
    <2>5. CASE TakeToken(c)
      <3>1. /\ full >= TicksPerSec
            /\ entry' = [entry EXCEPT ![x].tokens = full - TicksPerSec, ![x].last = now]
            /\ quota' = [quota EXCEPT ![x] = IF Fresh(c) THEN took ELSE reset]
            /\ UNCHANGED <<routes, domains, tunnels, adm, now>>
        BY <2>5 DEF TakeToken, full
      <3>2. full - TicksPerSec \in Nat
        BY <2>3, <3>1
      <3> HIDE DEF took, reset
      <3>3. (IF Fresh(c) THEN took ELSE reset) \in [granted : Nat, since : Nat]
            /\ (IF Fresh(c) THEN took ELSE reset).since <= now
        BY <2>4
      <3> HIDE DEF x
      <3> QED
        BY <1>3, <2>1, <3>1, <3>2, <3>3
    <2>6. CASE RefuseToken(c)
      <3>1. /\ entry' = [entry EXCEPT ![x].tokens = full, ![x].last = now]
            /\ quota' = [quota EXCEPT ![x] = IF Fresh(c) THEN quota[x] ELSE reset]
            /\ UNCHANGED <<routes, domains, tunnels, adm, now>>
        BY <2>6 DEF RefuseToken, full
      <3> HIDE DEF reset
      <3>3. (IF Fresh(c) THEN quota[x] ELSE reset) \in [granted : Nat, since : Nat]
            /\ (IF Fresh(c) THEN quota[x] ELSE reset).since <= now
        BY <2>4
      <3> HIDE DEF x
      <3> QED
        BY <1>3, <2>1, <2>3, <3>1, <3>3
    <2> QED
      BY <1>4, <2>5, <2>6
  <1> QED
    BY <1>2, <1>4 DEF RouteHttp, ReadHead, EndEarly, FindRoute, UpstreamFails, UpstreamConnects,
       UpstreamWriteFails, StartProxying, Resolve, FindTunnel, NoRoute, RefusePaused, Gate,
       ReadLimits, OpenFails, StartTunnelling, FinishCopy

(***************************************************************************)
(* The part of the invariant that is about one connection.                 *)
(***************************************************************************)
ConnInv(c) ==
    /\ req[c].pc \in Deciding =>
          /\ req[c].host \in Hosts
          /\ routes[Lower[req[c].host]] \in seen[c].enabled
          /\ Configured(req[c].host) \in seen[c].subs
          /\ seen[c].live \subseteq Live
          /\ seen[c].paused \subseteq Paused
    /\ req[c].pc \in OnProxy => TRUE \in seen[c].enabled
    /\ req[c].pc \in {"resolve", "lookup"} \cup OnTunnel => FALSE \in seen[c].enabled
    /\ req[c].pc \in {"lookup"} \cup OnTunnel =>
          req[c].sub \in Subs /\ req[c].sub \in seen[c].subs
    /\ req[c].pc \in OnTunnel =>
          req[c].entry \in Entries /\ entry[req[c].entry].name = req[c].sub
    /\ req[c].pc \in OnTunnel \ {"gate"} => req[c].entry \notin seen[c].paused

\* The part of Placed that is not about a connection.
Settled ==
    /\ adm.op # "idle" => adm.sub \in Subs /\ adm.entry \in Entries
    /\ adm.op = "domain" => adm.domain \in Domains
    /\ adm.op \in {"ddos_on", "ddos_rps", "ddos_burst"} => adm.body \in DdosReqs
    /\ \A s \in Subs : tunnels[s] # None => entry[tunnels[s]].name = s
    /\ \A x \in Entries : entry[x].last <= now /\ quota[x].since <= now

(***************************************************************************)
(* The two parts together are the four conjuncts of the invariant.         *)
(***************************************************************************)
LEMMA ConnParts ==
  (\A c \in Conns : ConnInv(c)) /\ Settled <=> Placed /\ Watched /\ LookedUp /\ PauseHolds
  BY DEF ConnInv, Settled, Placed, Watched, LookedUp, PauseHolds

(***************************************************************************)
(* A step of a connection keeps what is known of it.                       *)
(***************************************************************************)
LEMMA RequestConn ==
  ASSUME IngressInv, NEW c \in Conns, RouteHttp(c)
  PROVE  ConnInv(c)'
  <1>a. /\ ConnInv(c) /\ TypeOK
        /\ \A s \in Subs : tunnels[s] # None => entry[tunnels[s]].name = s
    BY ConnParts DEF IngressInv, Settled
  <1>b. /\ req' = [req EXCEPT ![c] = req'[c]] /\ req'[c] \in Request
        /\ seen' = [seen EXCEPT ![c] = seen'[c]] /\ seen'[c] \in History
    BY RequestTyped
  <1>c. /\ UNCHANGED <<routes, domains, tunnels>>
        /\ \A x \in Entries : entry'[x].name = entry[x].name
                              /\ entry'[x].paused = entry[x].paused
    BY RequestFrame
  <1>d. Live' = Live /\ Paused' = Paused
    BY <1>c DEF Live, Paused
  <1>e. \A h : Configured(h)' = Configured(h)
    BY <1>c DEF Configured
  <1>f. req[c] \in Request /\ req \in [Conns -> Request] /\ seen \in [Conns -> History]
    BY <1>a DEF TypeOK
  <1> USE DEF Deciding, OnProxy, OnTunnel
  <1>g. ASSUME NEW a, End(c, a)
        PROVE  ConnInv(c)'
    <2>1. req'[c].pc = "done"
      BY <1>f, <1>g DEF End, NoReq
    <2> QED
      BY <2>1 DEF ConnInv
  <1>h. ASSUME NEW p \in Deciding \cup Copying, Goto(c, p), seen' = seen
        PROVE  /\ req'[c].pc = p /\ req'[c].host = req[c].host /\ req'[c].sub = req[c].sub
               /\ req'[c].entry = req[c].entry /\ seen'[c] = seen[c]
    BY <1>f, <1>h DEF Goto, Request
  <1>1. CASE ReadHead(c)
    <2> PICK h \in Hosts, u \in BOOLEAN :
             /\ req' = [req EXCEPT ![c] = [NoReq EXCEPT !.pc = "route", !.host = h, !.ws = u]]
             /\ seen' = [seen EXCEPT ![c] = Snapshot(h)]
      BY <1>1 DEF ReadHead
    <2>1. req'[c].pc = "route" /\ req'[c].host = h /\ seen'[c] = Snapshot(h)
      BY <1>f DEF NoReq
    <2>2. /\ seen'[c].enabled = {routes[Lower[h]]} /\ seen'[c].subs = {Configured(h)}
          /\ seen'[c].live = Live /\ seen'[c].paused = Paused
      BY <2>1 DEF Snapshot
    <2>3. Configured(req[c].host)' = Configured(h)
      BY <1>c, <2>1 DEF Configured
    <2> QED
      BY <1>c, <1>d, <2>1, <2>2, <2>3 DEF ConnInv
  <1>2. CASE EndEarly(c) \/ UpstreamFails(c) \/ UpstreamWriteFails(c) \/ NoRoute(c)
             \/ RefusePaused(c) \/ OpenFails(c) \/ FinishCopy(c) \/ RefuseToken(c)
    BY <1>2, <1>g DEF EndEarly, UpstreamFails, UpstreamWriteFails, NoRoute, RefusePaused,
                      OpenFails, FinishCopy, RefuseToken
  <1>3. CASE FindRoute(c)
    <2> DEFINE p == IF routes[Lower[req[c].host]] THEN "connect" ELSE "resolve"
    <2>1. /\ req'[c].pc = p /\ req'[c].host = req[c].host /\ seen'[c] = seen[c]
      BY <1>3, <1>h DEF FindRoute
    <2>2. /\ req[c].host \in Hosts /\ routes[Lower[req[c].host]] \in BOOLEAN
          /\ routes[Lower[req[c].host]] \in seen[c].enabled
      BY <1>3, <1>a DEF FindRoute, ConnInv, TypeOK
    <2>3. routes[Lower[req[c].host]] = TRUE \/ routes[Lower[req[c].host]] = FALSE
      BY <2>2
    <2>4. ConnInv(c) /\ req[c].pc = "route"
      BY <1>3, <1>a DEF FindRoute
    <2>5. CASE routes[Lower[req[c].host]] = TRUE
      BY <1>c, <1>d, <1>e, <2>1, <2>2, <2>4, <2>5 DEF ConnInv
    <2>6. CASE routes[Lower[req[c].host]] = FALSE
      BY <1>c, <1>d, <1>e, <2>1, <2>2, <2>4, <2>6 DEF ConnInv
    <2> QED
      BY <2>3, <2>5, <2>6
  <1>4. CASE UpstreamConnects(c) \/ StartProxying(c)
    <2>1. /\ req[c].pc \in {"connect", "upwrite"} /\ req'[c].pc \in {"upwrite", "proxying"}
          /\ req'[c].host = req[c].host /\ seen'[c] = seen[c]
      BY <1>4, <1>h DEF UpstreamConnects, StartProxying, Copying
    <2> QED
      BY <1>a, <1>c, <1>d, <1>e, <2>1 DEF ConnInv
  <1>5. CASE TakeToken(c) \/ StartTunnelling(c)
    <2>1. /\ req[c].pc \in {"bucket", "open"} /\ req'[c].pc \in {"open", "tunnelling"}
          /\ req'[c].host = req[c].host /\ req'[c].sub = req[c].sub
          /\ req'[c].entry = req[c].entry /\ seen'[c] = seen[c]
      BY <1>5, <1>h DEF TakeToken, StartTunnelling, Copying
    <2>2. /\ FALSE \in seen[c].enabled /\ req[c].sub \in Subs /\ req[c].sub \in seen[c].subs
          /\ req[c].entry \in Entries /\ entry[req[c].entry].name = req[c].sub
          /\ req[c].entry \notin seen[c].paused
      BY <1>a, <2>1 DEF ConnInv
    <2>3. /\ req[c].host \in Hosts /\ routes[Lower[req[c].host]] \in seen[c].enabled
          /\ Configured(req[c].host) \in seen[c].subs
          /\ seen[c].live \subseteq Live /\ seen[c].paused \subseteq Paused
      BY <1>a, <2>1 DEF ConnInv
    <2>4. entry'[req[c].entry].name = req[c].sub
      BY <1>c, <2>2
    <2> QED
      BY <1>c, <1>d, <1>e, <2>1, <2>2, <2>3, <2>4 DEF ConnInv
  <1>6. CASE Gate(c)
    <2>1. /\ req[c].pc = "gate" /\ req'[c].pc \in {"limits", "open"}
          /\ req'[c].host = req[c].host /\ req'[c].sub = req[c].sub
          /\ req'[c].entry = req[c].entry /\ seen'[c] = seen[c]
      BY <1>6, <1>h DEF Gate
    <2>2. req[c].entry \notin seen[c].paused
      BY <1>6, <1>a, <2>1 DEF Gate, ConnInv, Paused
    <2> QED
      BY <1>a, <1>c, <1>d, <1>e, <2>1, <2>2 DEF ConnInv
  <1>7. CASE Resolve(c)
    <2>1. req[c].host \in Hosts /\ Target(req[c].host) = Configured(req[c].host)
      BY <1>7, <1>a DEF Resolve, ConnInv, Target, Configured
    <2>2. Target(req[c].host) \in Subs
      BY <1>7, <1>a, <2>1 DEF Resolve, Target, TypeOK
    <2>3. /\ req[c].pc = "resolve" /\ req'[c].pc = "lookup" /\ req'[c].host = req[c].host
          /\ req'[c].sub = Target(req[c].host) /\ seen'[c] = seen[c]
      BY <1>7, <1>f DEF Resolve, Request
    <2>4. /\ req[c].host \in Hosts /\ routes[Lower[req[c].host]] \in seen[c].enabled
          /\ Configured(req[c].host) \in seen[c].subs /\ FALSE \in seen[c].enabled
          /\ seen[c].live \subseteq Live /\ seen[c].paused \subseteq Paused
      BY <1>a, <2>3 DEF ConnInv
    <2> QED
      BY <1>c, <1>d, <1>e, <2>1, <2>2, <2>3, <2>4 DEF ConnInv
  <1>8. CASE FindTunnel(c)
    <2>1. /\ req[c].pc = "lookup" /\ req'[c].pc = "gate" /\ req'[c].host = req[c].host
          /\ req'[c].sub = req[c].sub /\ req'[c].entry = tunnels[req[c].sub]
          /\ seen'[c] = seen[c] /\ tunnels[req[c].sub] # None
      BY <1>8, <1>f DEF FindTunnel, Request
    <2>2. req[c].sub \in Subs
      BY <1>a, <2>1 DEF ConnInv
    <2>3. tunnels[req[c].sub] \in Entries /\ entry[tunnels[req[c].sub]].name = req[c].sub
      BY <1>a, <2>1, <2>2 DEF TypeOK
    <2> QED
      BY <1>a, <1>c, <1>d, <1>e, <2>1, <2>2, <2>3 DEF ConnInv
  <1>9. CASE ReadLimits(c)
    <2>1. /\ req[c].pc = "limits" /\ req'[c].pc \in {"open", "bucket"}
          /\ req'[c].host = req[c].host /\ req'[c].sub = req[c].sub
          /\ req'[c].entry = req[c].entry /\ seen'[c] = seen[c]
      BY <1>9, <1>f DEF ReadLimits, Request
    <2> QED
      BY <1>a, <1>c, <1>d, <1>e, <2>1 DEF ConnInv
  <1> QED
    BY <1>1, <1>2, <1>3, <1>4, <1>5, <1>6, <1>7, <1>8, <1>9 DEF RouteHttp

(***************************************************************************)
(* ... and of all the others.                                              *)
(***************************************************************************)
LEMMA RequestRouting ==
  ASSUME IngressInv, NEW c \in Conns, RouteHttp(c)
  PROVE  /\ ws' \in Nat => TypeOK'
         /\ Placed' /\ Watched' /\ LookedUp' /\ PauseHolds'
  <1>a. (\A d \in Conns : ConnInv(d)) /\ Settled /\ TypeOK
    BY ConnParts DEF IngressInv
  <1>b. /\ req' = [req EXCEPT ![c] = req'[c]] /\ req'[c] \in Request
        /\ seen' = [seen EXCEPT ![c] = seen'[c]] /\ seen'[c] \in History
    BY RequestTyped
  <1>c. /\ UNCHANGED <<routes, domains, tunnels, adm, now>>
        /\ entry' \in [Entries -> Entry]
        /\ quota' \in [Entries -> [granted : Nat, since : Nat]]
        /\ \A x \in Entries :
              /\ entry'[x].name = entry[x].name /\ entry'[x].paused = entry[x].paused
              /\ entry'[x].last <= now /\ quota'[x].since <= now
    BY RequestFrame
  <1>d. Live' = Live /\ Paused' = Paused
    BY <1>c DEF Live, Paused
  <1>e. \A h : Configured(h)' = Configured(h)
    BY <1>c DEF Configured
  <1>1. ConnInv(c)'
    BY RequestConn
  <1>2. ASSUME NEW d \in Conns, d # c PROVE ConnInv(d)'
    <2>1. req'[d] = req[d] /\ seen'[d] = seen[d]
      BY <1>a, <1>b, <1>2 DEF TypeOK
    <2>2. ConnInv(d)
      BY <1>a
    <2> QED
      BY <1>c, <1>d, <1>e, <2>1, <2>2 DEF ConnInv
  <1>3. Settled'
    BY <1>a, <1>c DEF Settled, TypeOK
  <1>4. ws' \in Nat => TypeOK'
    BY <1>a, <1>b, <1>c DEF TypeOK
  <1>5. (\A d \in Conns : ConnInv(d)') /\ Settled'
    BY <1>1, <1>2, <1>3
  <1>6. Placed' /\ Watched' /\ LookedUp' /\ PauseHolds'
    BY <1>5 DEF ConnInv, Settled, Placed, Watched, LookedUp, PauseHolds
  <1> QED
    BY <1>4, <1>6

(***************************************************************************)
(* The connections the gauge counts.                                       *)
(***************************************************************************)
Upgraded == {c \in Conns : req[c].pc \in Copying /\ req[c].ws}

(***************************************************************************)
(* The gauge follows the set of upgraded connections through every step of *)
(* a request.                                                              *)
(***************************************************************************)
LEMMA RequestGauge ==
  ASSUME IngressInv, NEW c \in Conns, RouteHttp(c)
  PROVE  ws' \in Nat /\ GaugeExact'
  <1>a. ws = Cardinality(Upgraded) /\ ws \in Nat /\ req \in [Conns -> Request]
    BY DEF IngressInv, TypeOK, GaugeExact, Upgraded
  <1>b. IsFiniteSet(Upgraded)
    BY FS_Subset DEF Upgraded
  <1>c. \A d \in Conns : d # c => req'[d] = req[d]
    BY RequestTyped, <1>a
  <1>d. req[c] \in Request /\ req[c].ws \in BOOLEAN
    BY <1>a DEF Request
  <1> SUFFICES ws' \in Nat /\ ws' = Cardinality(Upgraded')
    BY DEF GaugeExact, Upgraded
  <1>1. ASSUME ws' = ws, req[c].pc \notin Copying, req'[c].pc \notin Copying
        PROVE  ws' \in Nat /\ ws' = Cardinality(Upgraded')
    <2>1. Upgraded' = Upgraded
      BY <1>c, <1>1 DEF Upgraded
    <2> QED
      BY <1>a, <1>1, <2>1
  <1>2. ASSUME NEW a, End(c, a) PROVE req'[c].pc \notin Copying
    BY <1>a, <1>2 DEF End, NoReq, Copying
  <1>3. ASSUME NEW p \in Deciding \cup Copying, Goto(c, p)
        PROVE  req'[c].pc = p /\ req'[c].ws = req[c].ws
    BY <1>a, <1>d, <1>3 DEF Goto, Request
  <1>4. CASE ReadHead(c)
    BY <1>a, <1>1, <1>4 DEF ReadHead, NoReq, Copying
  <1>5. CASE EndEarly(c) \/ UpstreamFails(c) \/ UpstreamWriteFails(c) \/ NoRoute(c)
             \/ RefusePaused(c) \/ OpenFails(c) \/ RefuseToken(c)
    <2>1. ws' = ws /\ req[c].pc \notin Copying
      BY <1>5 DEF EndEarly, UpstreamFails, UpstreamWriteFails, NoRoute, RefusePaused, OpenFails,
                  RefuseToken, Copying
    <2>2. \E a : End(c, a)
      BY <1>5 DEF EndEarly, UpstreamFails, UpstreamWriteFails, NoRoute, RefusePaused, OpenFails,
                  RefuseToken
    <2> QED
      BY <1>1, <1>2, <2>1, <2>2
  <1>6. CASE FindRoute(c) \/ UpstreamConnects(c) \/ Gate(c) \/ TakeToken(c)
    <2>1. ws' = ws /\ req[c].pc \notin Copying
      BY <1>6 DEF FindRoute, UpstreamConnects, Gate, TakeToken, Copying
    <2>2. \E p \in {"connect", "resolve", "upwrite", "limits", "open"} : Goto(c, p)
      BY <1>6 DEF FindRoute, UpstreamConnects, Gate, TakeToken
    <2> QED
      BY <1>1, <1>3, <2>1, <2>2 DEF Deciding, Copying
  <1>7. CASE Resolve(c) \/ FindTunnel(c) \/ ReadLimits(c)
    <2>1. ws' = ws /\ req[c].pc \notin Copying
      BY <1>7 DEF Resolve, FindTunnel, ReadLimits, Copying
    <2>2. req'[c].pc \in {"lookup", "gate", "open", "bucket"}
      BY <1>a, <1>d, <1>7 DEF Resolve, FindTunnel, ReadLimits, Request
    <2> QED
      BY <1>1, <2>1, <2>2 DEF Copying
  <1>8. CASE StartProxying(c) \/ StartTunnelling(c)
    <2>1. /\ req[c].pc \notin Copying /\ req'[c].pc \in Copying /\ req'[c].ws = req[c].ws
          /\ ws' = IF req[c].ws THEN ws + 1 ELSE ws
      BY <1>3, <1>8 DEF StartProxying, StartTunnelling, Copying
    <2>2. CASE req[c].ws
      <3>1. Upgraded' = Upgraded \cup {c} /\ c \notin Upgraded
        BY <1>c, <2>1, <2>2 DEF Upgraded
      <3>2. Cardinality(Upgraded') = Cardinality(Upgraded) + 1
        BY <1>b, <3>1, FS_AddElement
      <3> QED
        BY <1>a, <2>1, <2>2, <3>2
    <2>3. CASE ~req[c].ws
      <3>1. Upgraded' = Upgraded
        BY <1>c, <2>1, <2>3 DEF Upgraded
      <3> QED
        BY <1>a, <2>1, <2>3, <3>1
    <2> QED
      BY <2>2, <2>3
  <1>9. CASE FinishCopy(c)
    <2>1. /\ req[c].pc \in Copying /\ req'[c].pc \notin Copying
          /\ ws' = IF req[c].ws THEN ws - 1 ELSE ws
      BY <1>2, <1>9 DEF FinishCopy
    <2>2. CASE req[c].ws
      <3>1. Upgraded' = Upgraded \ {c} /\ c \in Upgraded
        BY <1>c, <2>1, <2>2 DEF Upgraded
      <3>2. IsFiniteSet(Upgraded') /\ Cardinality(Upgraded') = Cardinality(Upgraded) - 1
        BY <1>b, <3>1, FS_RemoveElement
      <3>3. Cardinality(Upgraded') \in Nat
        BY <3>2, FS_CardinalityType
      <3> QED
        BY <1>a, <2>1, <2>2, <3>2, <3>3
    <2>3. CASE ~req[c].ws
      <3>1. Upgraded' = Upgraded
        BY <1>c, <2>1, <2>3 DEF Upgraded
      <3> QED
        BY <1>a, <2>1, <2>3, <3>1
    <2> QED
      BY <2>2, <2>3
  <1> QED
    BY <1>4, <1>5, <1>6, <1>7, <1>8, <1>9 DEF RouteHttp

(***************************************************************************)
(* Arithmetic of a refill: time is split at the last refill.               *)
(***************************************************************************)
LEMMA RefillBound ==
  ASSUME NEW g \in Nat, NEW t \in Nat, NEW cap \in Nat, NEW r \in Nat, NEW f \in Nat,
         NEW s \in Nat, NEW l \in Nat, NEW n \in Nat, s <= l, l <= n,
         g + t <= cap + r * (l - s), f <= t + (n - l) * r
  PROVE  g + f <= cap + r * (n - s)
  <1>1. r * (n - s) = r * (l - s) + (n - l) * r
    OBVIOUS
  <1>2. r * (n - s) \in Int /\ r * (l - s) \in Int /\ (n - l) * r \in Int
    OBVIOUS
  <1> QED
    BY <1>1, <1>2

(***************************************************************************)
(* The bucket's account balances after every step of a request.            *)
(***************************************************************************)
LEMMA RequestConserved ==
  ASSUME IngressInv, NEW c \in Conns, RouteHttp(c)
  PROVE  Conserved'
  <1>1. CASE UNCHANGED <<entry, quota>>
    BY <1>1 DEF IngressInv, Conserved
  <1>2. CASE TakeToken(c) \/ RefuseToken(c)
    <2> DEFINE x == req[c].entry
               full == Refill(entry[x], req[c].rps, req[c].burst)
               cap == entry[x].burst * TicksPerSec
    <2>1. x \in Entries /\ entry[x].last <= now /\ quota[x].since <= now
      BY <1>2 DEF TakeToken, RefuseToken, IngressInv, Placed, OnTunnel
    <2>2. /\ entry \in [Entries -> Entry] /\ now \in Nat /\ req[c] \in Request
          /\ quota \in [Entries -> [granted : Nat, since : Nat]]
      BY DEF IngressInv, TypeOK
    <2>3. /\ entry[x].tokens \in Nat /\ entry[x].last \in Nat /\ entry[x].rps \in Nat
          /\ entry[x].burst \in Nat /\ req[c].rps \in Nat /\ req[c].burst \in Nat
          /\ quota[x].granted \in Nat /\ quota[x].since \in Nat
      BY <2>1, <2>2 DEF Entry, Request
    <2>4. cap \in Nat /\ (now - entry[x].last) * req[c].rps \in Int
      BY <2>2, <2>3
    <2>5. Fresh(c) => full \in Int /\ full <= cap
                      /\ full <= entry[x].tokens + (now - entry[x].last) * entry[x].rps
      BY <2>2, <2>3, <2>4 DEF Refill, Fresh
    <2>6. \A y \in Entries \ {x} : entry'[y] = entry[y] /\ quota'[y] = quota[y]
      BY <1>2, <2>1, <2>2 DEF TakeToken, RefuseToken
    <2>7. /\ entry'[x].last = now /\ entry'[x].burst = entry[x].burst
          /\ entry'[x].rps = entry[x].rps
      BY <1>2, <2>1, <2>2 DEF TakeToken, RefuseToken, Entry
    <2>8. entry' \in [Entries -> Entry]
      BY RequestFrame
    <2>9. entry'[x].tokens \in Nat
      BY <2>1, <2>8 DEF Entry
    <2>10. /\ quota'[x].granted > 0 => quota'[x].since <= now
           /\ quota'[x].granted > 0 =>
                 quota'[x].granted * TicksPerSec + entry'[x].tokens
                    <= cap + entry[x].rps * (now - quota'[x].since)
      <3>1. CASE ~Fresh(c)
        BY <1>2, <2>1, <2>2, <3>1 DEF TakeToken, RefuseToken
      <3>2. CASE Fresh(c) /\ TakeToken(c)
        <4>1. /\ full >= TicksPerSec /\ entry'[x].tokens = full - TicksPerSec
              /\ quota'[x] = [granted |-> quota[x].granted + 1, since |-> quota[x].since]
          BY <3>2, <2>1, <2>2 DEF TakeToken, Entry
        <4>2. (quota[x].granted + 1) * TicksPerSec + (full - TicksPerSec)
                = quota[x].granted * TicksPerSec + full
          BY <2>3, <2>5, <3>2
        <4> QED
          <5>1. CASE quota[x].granted = 0
            <6>1. entry[x].rps * (now - quota[x].since) \in Nat
              <7>1. ASSUME NEW i \in Nat, NEW j \in Nat PROVE i * j \in Nat
                OBVIOUS
              <7>2. now - quota[x].since \in Nat
                BY <2>1, <2>2, <2>3
              <7> QED
                BY <2>3, <7>1, <7>2
            <6>2. quota[x].granted * TicksPerSec = 0
              BY <5>1
            <6> QED
              BY <2>1, <2>3, <2>4, <2>5, <3>2, <4>1, <4>2, <6>1, <6>2
          <5>2. CASE quota[x].granted > 0
            <6>1. /\ quota[x].since <= entry[x].last
                  /\ quota[x].granted * TicksPerSec + entry[x].tokens
                        <= cap + entry[x].rps * (entry[x].last - quota[x].since)
              BY <2>1, <5>2 DEF IngressInv, Conserved
            <6>2. full \in Nat /\ quota[x].granted * TicksPerSec \in Nat
              BY <2>3, <2>5, <3>2, <4>1
            <6> HIDE DEF full, cap, x
            <6>3. quota[x].granted * TicksPerSec + full
                     <= cap + entry[x].rps * (now - quota[x].since)
              BY <2>1, <2>2, <2>3, <2>4, <2>5, <3>2, <6>1, <6>2, RefillBound
            <6> QED
              BY <2>1, <4>1, <4>2, <6>3
          <5> QED
            BY <2>3, <5>1, <5>2
      <3>3. CASE Fresh(c) /\ RefuseToken(c)
        <4>1. entry'[x].tokens = full /\ quota'[x] = quota[x]
          BY <3>3, <2>1, <2>2 DEF RefuseToken, Entry
        <4>2. CASE quota[x].granted = 0
          BY <4>1, <4>2
        <4>3. CASE quota[x].granted > 0
          <5>1. /\ quota[x].since <= entry[x].last
                /\ quota[x].granted * TicksPerSec + entry[x].tokens
                      <= cap + entry[x].rps * (entry[x].last - quota[x].since)
            BY <2>1, <4>3 DEF IngressInv, Conserved
          <5>2. full \in Nat /\ quota[x].granted * TicksPerSec \in Nat
            BY <2>3, <2>9, <4>1
          <5> HIDE DEF full, cap, x
          <5>3. quota[x].granted * TicksPerSec + full
                   <= cap + entry[x].rps * (now - quota[x].since)
            BY <2>1, <2>2, <2>3, <2>4, <2>5, <3>3, <5>1, <5>2, RefillBound
          <5> QED
            BY <2>1, <4>1, <5>3
        <4> QED
          BY <2>3, <4>2, <4>3
      <3> QED
        BY <1>2, <3>1, <3>2, <3>3
    <2> SUFFICES ASSUME NEW y \in Entries, quota'[y].granted > 0
                 PROVE  /\ quota'[y].since <= entry'[y].last
                        /\ quota'[y].granted * TicksPerSec + entry'[y].tokens
                              <= entry'[y].burst * TicksPerSec
                                   + entry'[y].rps * (entry'[y].last - quota'[y].since)
      BY DEF Conserved
    <2>11. CASE y = x
      BY <2>7, <2>10, <2>11
    <2>12. CASE y # x
      BY <2>6, <2>12 DEF IngressInv, Conserved
    <2> QED
      BY <2>11, <2>12
  <1> QED
    BY <1>1, <1>2 DEF RouteHttp, ReadHead, EndEarly, FindRoute, UpstreamFails, UpstreamConnects,
       UpstreamWriteFails, StartProxying, Resolve, FindTunnel, NoRoute, RefusePaused, Gate,
       ReadLimits, OpenFails, StartTunnelling, FinishCopy, config

(***************************************************************************)
(* A request that decides has, after a change of the maps or of a pause    *)
(* flag, a history that covers the new state too.                          *)
(***************************************************************************)
LEMMA WatchConn ==
  ASSUME IngressInv, Watch, UNCHANGED req, NEW c \in Conns,
         routes' \in [Domains -> BOOLEAN], domains' \in [Domains -> Subs \cup {None}],
         \A x \in Entries : entry[x].name # None => entry'[x].name = entry[x].name
  PROVE  ConnInv(c)' /\ seen'[c] \in History
  <1>a. ConnInv(c) /\ TypeOK
    BY ConnParts DEF IngressInv
  <1>b. req[c] \in Request /\ seen[c] \in History
    BY <1>a DEF TypeOK
  <1>n. req[c].pc \in OnTunnel => entry'[req[c].entry].name = req[c].sub
    BY <1>a DEF ConnInv
  <1>1. CASE req[c].pc \notin Deciding
    <2>1. seen'[c] = seen[c]
      BY <1>1 DEF Watch
    <2> QED
      BY <1>a, <1>b, <1>n, <1>1, <2>1 DEF ConnInv
  <1>2. CASE req[c].pc \in Deciding
    <2> DEFINE h == req[c].host
    <2>1. h \in Hosts
      BY <1>a, <1>2 DEF ConnInv
    <2>2. Lower[h] \in Domains /\ SubOf[h] \in Subs \cup {None}
      BY <2>1
    <2>3. Configured(h)' \in Subs \cup {None} /\ routes'[Lower[h]] \in BOOLEAN
      BY <2>2 DEF Configured
    <2>4. seen'[c] = [enabled |-> seen[c].enabled \cup {routes'[Lower[h]]},
                      subs |-> seen[c].subs \cup {Configured(h)'},
                      live |-> seen[c].live \cap Live',
                      paused |-> seen[c].paused \cap Paused']
      BY <1>2 DEF Watch, Snapshot
    <2>5. seen'[c] \in History
      BY <1>b, <2>3, <2>4 DEF History
    <2>6. /\ seen'[c].enabled = seen[c].enabled \cup {routes'[Lower[h]]}
          /\ seen'[c].subs = seen[c].subs \cup {Configured(h)'}
          /\ seen'[c].live = seen[c].live \cap Live'
          /\ seen'[c].paused = seen[c].paused \cap Paused'
      BY <2>4
    <2>7. Configured(req[c].host)' = Configured(h)' /\ req'[c] = req[c]
      OBVIOUS
    <2> HIDE DEF h
    <2>8. /\ routes'[Lower[req'[c].host]] \in seen'[c].enabled
          /\ Configured(req[c].host)' \in seen'[c].subs
          /\ seen'[c].live \subseteq Live' /\ seen'[c].paused \subseteq Paused'
      BY <2>6, <2>7 DEF h
    <2>9. /\ seen[c].enabled \subseteq seen'[c].enabled /\ seen[c].subs \subseteq seen'[c].subs
          /\ seen'[c].paused \subseteq seen[c].paused
      BY <2>6
    <2>10. ConnInv(c)'
      BY <1>a, <1>n, <2>7, <2>8, <2>9 DEF ConnInv
    <2> QED
      BY <2>5, <2>10
  <1> QED
    BY <1>1, <1>2

(***************************************************************************)
(* The same for a step that changes nothing a request looks at.            *)
(***************************************************************************)
LEMMA SameConn ==
  ASSUME IngressInv, UNCHANGED <<req, seen, routes, domains, tunnels>>, NEW c \in Conns,
         \A x \in Entries : entry'[x].name = entry[x].name /\ entry'[x].paused = entry[x].paused
  PROVE  ConnInv(c)'
  <1>1. ConnInv(c)
    BY ConnParts DEF IngressInv
  <1>2. Live' = Live /\ Paused' = Paused
    BY DEF Live, Paused
  <1>3. Configured(req[c].host)' = Configured(req[c].host)
    BY DEF Configured
  <1> QED
    BY <1>1, <1>2, <1>3 DEF ConnInv

(***************************************************************************)
(* From what is known of the connections, of the entries and of the        *)
(* histories to the whole invariant, for steps that move no request.       *)
(***************************************************************************)
LEMMA Assemble ==
  ASSUME IngressInv, UNCHANGED <<req, ws>>, TypeOK', Settled', Conserved',
         \A c \in Conns : ConnInv(c)'
  PROVE  IngressInv'
  <1>1. GaugeExact'
    BY DEF IngressInv, GaugeExact
  <1>2. Placed' /\ Watched' /\ LookedUp' /\ PauseHolds'
    BY DEF ConnInv, Settled, Placed, Watched, LookedUp, PauseHolds
  <1> QED
    BY <1>1, <1>2 DEF IngressInv

(***************************************************************************)
(* Tunnels that come and go.                                               *)
(***************************************************************************)
LEMMA TunnelsInv ==
  ASSUME IngressInv, NEW s \in Subs,
         (\E x \in Entries : TunnelOpens(s, x)) \/ TunnelCloses(s)
  PROVE  IngressInv'
  <1>a. TypeOK /\ Settled /\ Conserved
    BY ConnParts DEF IngressInv
  <1>1. CASE TunnelCloses(s)
    <2>1. \A c \in Conns : ConnInv(c)' /\ seen'[c] \in History
      BY <1>a, <1>1, WatchConn DEF TunnelCloses, TypeOK
    <2>2. seen' \in [Conns -> History]
      BY <1>1, <2>1 DEF TunnelCloses, Watch
    <2>3. TypeOK'
      BY <1>a, <1>1, <2>2 DEF TunnelCloses, TypeOK
    <2>4. Settled' /\ Conserved'
      BY <1>a, <1>1 DEF TunnelCloses, Settled, Conserved, TypeOK
    <2> QED
      BY <1>1, <2>1, <2>3, <2>4, Assemble DEF TunnelCloses
  <1>2. ASSUME NEW x \in Entries, TunnelOpens(s, x) PROVE IngressInv'
    <2>1. NewEntry(s) \in Entry
      <3>1. DefaultBurst * TicksPerSec \in Nat /\ now \in Nat
        BY <1>a DEF TypeOK
      <3> QED
        BY <3>1 DEF NewEntry, Entry
    <2>2. /\ entry[x].name = None /\ entry'[x] = NewEntry(s) /\ entry'[x].name = s
          /\ entry'[x].last = now /\ quota'[x] = [granted |-> 0, since |-> now]
      BY <1>a, <1>2 DEF TunnelOpens, NewEntry, TypeOK
    <2>3. \A y \in Entries \ {x} : entry'[y] = entry[y] /\ quota'[y] = quota[y]
      BY <1>a, <1>2 DEF TunnelOpens, TypeOK
    <2>4. \A c \in Conns : ConnInv(c)' /\ seen'[c] \in History
      BY <1>a, <1>2, <2>2, <2>3, WatchConn DEF TunnelOpens, TypeOK
    <2>5. seen' \in [Conns -> History]
      BY <1>2, <2>4 DEF TunnelOpens, Watch
    <2>6. TypeOK'
      BY <1>a, <1>2, <2>1, <2>5 DEF TunnelOpens, TypeOK
    <2>7. \A u \in Subs : tunnels'[u] # None => entry'[tunnels'[u]].name = u
      <3> SUFFICES ASSUME NEW u \in Subs, tunnels'[u] # None
                   PROVE  entry'[tunnels'[u]].name = u
        OBVIOUS
      <3>1. CASE u = s
        BY <1>a, <1>2, <2>2, <3>1 DEF TunnelOpens, TypeOK
      <3>2. CASE u # s
        <4>1. tunnels'[u] = tunnels[u] /\ tunnels[u] \in Entries
          BY <1>a, <1>2, <3>2 DEF TunnelOpens, TypeOK
        <4>2. entry[tunnels[u]].name = u /\ u # None
          BY <1>a, <4>1 DEF Settled
        <4>3. tunnels[u] # x
          BY <2>2, <4>2
        <4> QED
          BY <2>3, <4>1, <4>2, <4>3
      <3> QED
        BY <3>1, <3>2
    <2>8. \A y \in Entries : entry'[y].last <= now /\ quota'[y].since <= now
      <3>1. now <= now
        BY <1>a DEF TypeOK
      <3> QED
        BY <1>a, <2>2, <2>3, <3>1 DEF Settled
    <2>9. Settled'
      BY <1>a, <1>2, <2>7, <2>8 DEF Settled, TunnelOpens
    <2>10. Conserved'
      BY <1>a, <2>2, <2>3 DEF Conserved
    <2> QED
      BY <1>2, <2>4, <2>6, <2>9, <2>10, Assemble DEF TunnelOpens
  <1> QED
    BY <1>1, <1>2

(***************************************************************************)
(* Admin requests that change the maps, or only look.                      *)
(***************************************************************************)
LEMMA AdminMapsInv ==
  ASSUME IngressInv,
         \/ \E d \in Domains : SetRoute(d)
         \/ \E s \in Subs : AdminStarts(s) \/ RemoveCustomDomain(s)
         \/ SetCustomDomain
  PROVE  IngressInv'
  <1>a. TypeOK /\ Settled /\ Conserved
    BY ConnParts DEF IngressInv
  <1>w. ASSUME Watch, UNCHANGED <<tunnels, entry, now, req, ws, quota>>,
               routes' \in [Domains -> BOOLEAN], domains' \in [Domains -> Subs \cup {None}],
               adm' = adm \/ adm' = NoAdm
        PROVE  IngressInv'
    <2>1. \A c \in Conns : ConnInv(c)' /\ seen'[c] \in History
      BY <1>w, WatchConn
    <2>2. seen' \in [Conns -> History]
      BY <1>w, <2>1 DEF Watch
    <2>3. NoAdm \in AdminRequest
      BY DEF NoAdm, AdminRequest
    <2>4. TypeOK'
      BY <1>a, <1>w, <2>2, <2>3 DEF TypeOK
    <2>5. Settled' /\ Conserved'
      BY <1>a, <1>w DEF Settled, Conserved, NoAdm
    <2> QED
      BY <1>w, <2>1, <2>4, <2>5, Assemble
  <1>1. ASSUME NEW d \in Domains, SetRoute(d) PROVE IngressInv'
    BY <1>a, <1>1, <1>w DEF SetRoute, TypeOK
  <1>2. ASSUME NEW s \in Subs, RemoveCustomDomain(s) PROVE IngressInv'
    <2>1. domains' \in [Domains -> Subs \cup {None}]
      BY <1>a, <1>2 DEF RemoveCustomDomain, TypeOK
    <2> QED
      BY <1>a, <1>2, <1>w, <2>1 DEF RemoveCustomDomain, TypeOK
  <1>3. CASE SetCustomDomain
    <2>1. adm.sub \in Subs
      BY <1>a, <1>3 DEF SetCustomDomain, Settled
    <2>2. domains' \in [Domains -> Subs \cup {None}]
      BY <1>a, <1>3, <2>1 DEF SetCustomDomain, TypeOK
    <2> QED
      BY <1>a, <1>3, <1>w, <2>2 DEF SetCustomDomain, TypeOK
  <1>4. ASSUME NEW s \in Subs, AdminStarts(s) PROVE IngressInv'
    <2>1. PICK op \in {"pause", "resume", "domain", "ddos_on"},
               d \in Domains \cup {None}, b \in DdosReqs \cup {None} :
             /\ AdminFinds(op, s, d, b)
             /\ op = "domain" => d \in Domains
             /\ op = "ddos_on" => b \in DdosReqs
      BY <1>4 DEF AdminStarts
    <2>2. tunnels[s] \in Entries
      BY <1>a, <2>1 DEF AdminFinds, TypeOK
    <2>3. adm' = [op |-> op, sub |-> s, entry |-> tunnels[s], domain |-> d, body |-> b]
          /\ UNCHANGED <<routes, domains, tunnels, entry, now, req, ws, seen, quota>>
      BY <2>1 DEF AdminFinds
    <2>4. adm' \in AdminRequest
      BY <2>1, <2>2, <2>3 DEF AdminRequest
    <2>5. TypeOK'
      BY <1>a, <2>3, <2>4 DEF TypeOK
    <2>6. Settled'
      BY <1>a, <2>1, <2>2, <2>3 DEF Settled
    <2>7. Conserved'
      BY <1>a, <2>3 DEF Conserved
    <2>8. \A c \in Conns : ConnInv(c)'
      BY <2>3, SameConn
    <2> QED
      BY <2>3, <2>5, <2>6, <2>7, <2>8, Assemble
  <1> QED
    BY <1>1, <1>2, <1>3, <1>4

(***************************************************************************)
(* Admin requests that store into an entry.                                *)
(***************************************************************************)
LEMMA AdminEntryInv ==
  ASSUME IngressInv, SetPaused \/ SetDdosEnabled \/ SetDdosRps \/ SetDdosBurst
  PROVE  IngressInv'
  <1> DEFINE x == adm.entry
  <1>a. TypeOK /\ Settled /\ Conserved
    BY ConnParts DEF IngressInv
  <1>b. x \in Entries /\ entry[x] \in Entry /\ now \in Nat
        /\ adm \in AdminRequest
    BY <1>a DEF SetPaused, SetDdosEnabled, SetDdosRps, SetDdosBurst, Settled, TypeOK
  <1>c. NoAdm \in AdminRequest /\ NoAdm.op = "idle"
    BY DEF NoAdm, AdminRequest
  <1>d. ASSUME NEW r \in Entry, entry' = [entry EXCEPT ![x] = r],
               r.name = entry[x].name, r.tokens = entry[x].tokens, r.last = entry[x].last,
               \/ quota' = quota /\ r.rps = entry[x].rps /\ r.burst = entry[x].burst
               \/ quota' = [quota EXCEPT ![x] = [granted |-> 0, since |-> now]],
               UNCHANGED <<tunnels, now>>, adm' \in AdminRequest,
               adm'.op # "idle" => /\ adm'.sub = adm.sub /\ adm'.entry = adm.entry
                                   /\ adm'.body = adm.body /\ adm.body \in DdosReqs
                                   /\ adm.op # "idle" /\ adm'.op # "domain"
        PROVE  /\ entry' \in [Entries -> Entry] /\ Settled' /\ Conserved'
               /\ quota' \in [Entries -> [granted : Nat, since : Nat]]
               /\ \A y \in Entries : entry'[y].name = entry[y].name
    <2>1. /\ entry' \in [Entries -> Entry] /\ entry'[x] = r
          /\ quota' \in [Entries -> [granted : Nat, since : Nat]]
      BY <1>a, <1>b, <1>d DEF TypeOK
    <2>2. \A y \in Entries \ {x} : entry'[y] = entry[y] /\ quota'[y] = quota[y]
      BY <1>a, <1>d DEF TypeOK
    <2>3. /\ quota'[x].since <= now
          /\ \/ quota'[x] = quota[x] /\ r.rps = entry[x].rps /\ r.burst = entry[x].burst
             \/ quota'[x] = [granted |-> 0, since |-> now]
      BY <1>a, <1>b, <1>d DEF Settled, TypeOK
    <2>4. \A y \in Entries : /\ entry'[y].name = entry[y].name
                             /\ entry'[y].last <= now /\ quota'[y].since <= now
      BY <1>a, <1>b, <1>d, <2>1, <2>2, <2>3 DEF Settled
    <2>5. \A s \in Subs : tunnels'[s] # None => entry'[tunnels'[s]].name = s
      BY <1>a, <1>d, <2>4 DEF Settled, TypeOK
    <2>6. Settled'
      BY <1>a, <1>d, <2>4, <2>5 DEF Settled
    <2>7. Conserved'
      <3> SUFFICES ASSUME NEW y \in Entries, quota'[y].granted > 0
                   PROVE  /\ quota'[y].since <= entry'[y].last
                          /\ quota'[y].granted * TicksPerSec + entry'[y].tokens
                                <= entry'[y].burst * TicksPerSec
                                     + entry'[y].rps * (entry'[y].last - quota'[y].since)
        BY DEF Conserved
      <3>1. CASE y = x
        <4>1. quota'[x] = quota[x] /\ r.rps = entry[x].rps /\ r.burst = entry[x].burst
          BY <2>3, <3>1
        <4> QED
          BY <1>a, <1>d, <2>1, <3>1, <4>1 DEF Conserved
      <3>2. CASE y # x
        BY <1>a, <2>2, <3>2 DEF Conserved
      <3> QED
        BY <3>1, <3>2
    <2> QED
      BY <2>1, <2>4, <2>6, <2>7
  <1>1. CASE SetPaused
    <2> DEFINE r == [entry[x] EXCEPT !.paused = (adm.op = "pause")]
    <2>1. /\ r \in Entry /\ entry' = [entry EXCEPT ![x] = r]
          /\ r.name = entry[x].name /\ r.tokens = entry[x].tokens /\ r.last = entry[x].last
          /\ r.rps = entry[x].rps /\ r.burst = entry[x].burst
      BY <1>b, <1>1 DEF SetPaused, Entry
    <2> HIDE DEF r, x
    <2>2. /\ entry' \in [Entries -> Entry] /\ Settled' /\ Conserved'
          /\ \A y \in Entries : entry'[y].name = entry[y].name
      BY <1>1, <1>c, <1>d, <2>1 DEF SetPaused
    <2>3. \A c \in Conns : ConnInv(c)' /\ seen'[c] \in History
      BY <1>a, <1>1, <2>2, WatchConn DEF SetPaused, TypeOK
    <2>4. seen' \in [Conns -> History]
      BY <1>1, <2>3 DEF SetPaused, Watch
    <2>5. TypeOK'
      BY <1>a, <1>c, <1>1, <2>2, <2>4 DEF SetPaused, TypeOK
    <2> QED
      BY <1>1, <2>2, <2>3, <2>5, Assemble DEF SetPaused
  <1>e. ASSUME NEW r \in Entry, entry' = [entry EXCEPT ![x] = r],
               r.paused = entry[x].paused,
               UNCHANGED <<routes, domains, tunnels, now, req, ws, seen>>,
               adm' \in AdminRequest, Settled', Conserved',
               quota' \in [Entries -> [granted : Nat, since : Nat]],
               \A y \in Entries : entry'[y].name = entry[y].name
        PROVE  IngressInv'
    <2>1. /\ entry' \in [Entries -> Entry]
          /\ \A y \in Entries : entry'[y].paused = entry[y].paused
      BY <1>a, <1>b, <1>e DEF TypeOK
    <2>2. TypeOK'
      BY <1>a, <1>e, <2>1 DEF TypeOK
    <2>3. \A c \in Conns : ConnInv(c)'
      BY <1>e, <2>1, SameConn
    <2> QED
      BY <1>e, <2>2, <2>3, Assemble
  <1>2. CASE SetDdosEnabled
    <2>0. adm.body \in DdosReqs /\ adm.body.enabled \in BOOLEAN \cup {None}
      BY <1>a, <1>2 DEF SetDdosEnabled, Settled
    <2> DEFINE v == IF adm.body.enabled = None THEN entry[x].on ELSE adm.body.enabled
               r == [entry[x] EXCEPT !.on = v]
    <2>1. v \in BOOLEAN
      BY <1>b, <2>0 DEF Entry
    <2>2. entry' = [entry EXCEPT ![x] = r]
      BY <1>2 DEF SetDdosEnabled
    <2> HIDE DEF v
    <2>3. /\ r \in Entry /\ r.paused = entry[x].paused
          /\ r.name = entry[x].name /\ r.tokens = entry[x].tokens /\ r.last = entry[x].last
          /\ r.rps = entry[x].rps /\ r.burst = entry[x].burst
      BY <1>b, <2>1 DEF Entry
    <2>4. adm' \in AdminRequest /\ adm'.sub = adm.sub /\ adm'.entry = adm.entry
          /\ adm'.body = adm.body /\ adm'.op = "ddos_rps" /\ adm.op = "ddos_on"
      BY <1>b, <1>2 DEF SetDdosEnabled, AdminRequest
    <2> HIDE DEF r, x
    <2>5. /\ Settled' /\ Conserved' /\ quota' \in [Entries -> [granted : Nat, since : Nat]]
          /\ \A y \in Entries : entry'[y].name = entry[y].name
      BY <1>2, <1>d, <2>0, <2>2, <2>3, <2>4 DEF SetDdosEnabled
    <2> QED
      BY <1>2, <1>e, <2>2, <2>3, <2>4, <2>5 DEF SetDdosEnabled
  <1>3. CASE SetDdosRps
    <2>0. adm.body \in DdosReqs /\ adm.body.rps \in Nat \cup {None}
      BY <1>a, <1>3 DEF SetDdosRps, Settled
    <2> DEFINE v == Given(adm.body.rps, entry[x].rps)
               r == [entry[x] EXCEPT !.rps = v]
    <2>1. v \in Nat
      BY <1>b, <2>0 DEF Given, Entry
    <2>2. entry' = [entry EXCEPT ![x] = r]
      BY <1>3 DEF SetDdosRps
    <2> HIDE DEF v
    <2>3. /\ r \in Entry /\ r.paused = entry[x].paused /\ r.rps = v
          /\ r.name = entry[x].name /\ r.tokens = entry[x].tokens /\ r.last = entry[x].last
          /\ r.burst = entry[x].burst
      BY <1>b, <2>1 DEF Entry
    <2>4. adm' \in AdminRequest /\ adm'.sub = adm.sub /\ adm'.entry = adm.entry
          /\ adm'.body = adm.body /\ adm'.op = "ddos_burst" /\ adm.op = "ddos_rps"
      BY <1>b, <1>3 DEF SetDdosRps, AdminRequest
    <2>5. entry'[x] = r
      BY <1>a, <1>b, <2>2 DEF TypeOK
    <2>6. \/ quota' = quota /\ r.rps = entry[x].rps
          \/ quota' = [quota EXCEPT ![x] = [granted |-> 0, since |-> now]]
      BY <1>a, <1>3, <2>5 DEF SetDdosRps, TypeOK
    <2> HIDE DEF r, x
    <2>7. /\ Settled' /\ Conserved' /\ quota' \in [Entries -> [granted : Nat, since : Nat]]
          /\ \A y \in Entries : entry'[y].name = entry[y].name
      BY <1>3, <1>d, <2>0, <2>2, <2>3, <2>4, <2>6 DEF SetDdosRps
    <2> QED
      BY <1>3, <1>e, <2>2, <2>3, <2>4, <2>7 DEF SetDdosRps
  <1>4. CASE SetDdosBurst
    <2>0. adm.body \in DdosReqs /\ adm.body.burst \in Nat \cup {None}
      BY <1>a, <1>4 DEF SetDdosBurst, Settled
    <2> DEFINE v == Given(adm.body.burst, entry[x].burst)
               r == [entry[x] EXCEPT !.burst = v]
    <2>1. v \in Nat
      BY <1>b, <2>0 DEF Given, Entry
    <2>2. entry' = [entry EXCEPT ![x] = r]
      BY <1>4 DEF SetDdosBurst
    <2> HIDE DEF v
    <2>3. /\ r \in Entry /\ r.paused = entry[x].paused /\ r.rps = entry[x].rps
          /\ r.name = entry[x].name /\ r.tokens = entry[x].tokens /\ r.last = entry[x].last
          /\ r.burst = v
      BY <1>b, <2>1 DEF Entry
    <2>4. adm' = NoAdm
      BY <1>4 DEF SetDdosBurst
    <2>5. entry'[x] = r
      BY <1>a, <1>b, <2>2 DEF TypeOK
    <2>6. \/ quota' = quota /\ r.burst = entry[x].burst
          \/ quota' = [quota EXCEPT ![x] = [granted |-> 0, since |-> now]]
      BY <1>a, <1>4, <2>5 DEF SetDdosBurst, TypeOK
    <2> HIDE DEF r, x
    <2>7. /\ Settled' /\ Conserved' /\ quota' \in [Entries -> [granted : Nat, since : Nat]]
          /\ \A y \in Entries : entry'[y].name = entry[y].name
      BY <1>4, <1>c, <1>d, <2>2, <2>3, <2>4, <2>6 DEF SetDdosBurst
    <2> QED
      BY <1>4, <1>c, <1>e, <2>2, <2>3, <2>4, <2>7 DEF SetDdosBurst
  <1> QED
    BY <1>1, <1>2, <1>3, <1>4

(***************************************************************************)
(* Time only relaxes the bounds.                                           *)
(***************************************************************************)
LEMMA TickInv == IngressInv /\ Tick => IngressInv'
  <1> SUFFICES ASSUME IngressInv, Tick PROVE IngressInv'
    OBVIOUS
  <1>a. /\ TypeOK /\ Settled /\ Conserved /\ now' = now + 1
        /\ UNCHANGED <<routes, domains, tunnels, entry, adm, req, ws, seen, quota>>
    BY ConnParts DEF IngressInv, Tick, config
  <1>1. TypeOK'
    BY <1>a DEF TypeOK
  <1>2. Settled'
    <2>1. \A x \in Entries : /\ entry[x].last \in Nat /\ quota[x].since \in Nat
                             /\ entry[x].last <= now /\ quota[x].since <= now
      BY <1>a DEF TypeOK, Entry, Settled
    <2>2. \A x \in Entries : entry'[x].last <= now' /\ quota'[x].since <= now'
      BY <1>a, <2>1 DEF TypeOK
    <2> QED
      BY <1>a, <2>2 DEF Settled
  <1>3. Conserved'
    BY <1>a DEF Conserved
  <1>4. \A c \in Conns : ConnInv(c)'
    BY <1>a, SameConn
  <1> QED
    BY <1>a, <1>1, <1>2, <1>3, <1>4, Assemble

(***************************************************************************)
(* The invariant of the ingress is inductive.                              *)
(***************************************************************************)
LEMMA IngressStep == IngressInv /\ [Next]_vars => IngressInv'
  <1> SUFFICES ASSUME IngressInv, [Next]_vars PROVE IngressInv'
    OBVIOUS
  <1>1. ASSUME NEW c \in Conns, RouteHttp(c) PROVE IngressInv'
    BY <1>1, RequestRouting, RequestGauge, RequestConserved DEF IngressInv
  <1>2. ASSUME NEW s \in Subs, (\E x \in Entries : TunnelOpens(s, x)) \/ TunnelCloses(s)
        PROVE  IngressInv'
    BY <1>2, TunnelsInv
  <1>3. CASE Admin
    BY <1>3, AdminMapsInv, AdminEntryInv DEF Admin
  <1>4. CASE Tick
    BY <1>4, TickInv
  <1>5. CASE UNCHANGED vars
    BY <1>5 DEF vars, IngressInv, TypeOK, Placed, Watched, LookedUp, PauseHolds, Conserved,
                GaugeExact, Configured, Live, Paused
  <1> QED
    BY <1>1, <1>2, <1>3, <1>4, <1>5 DEF Next

(***************************************************************************)
(* The inductive invariant holds for every number of connections, hosts,   *)
(* names and entries of the ingress.                                       *)
(***************************************************************************)
THEOREM IngressInvariant == Spec => []IngressInv
  BY IngressInit, IngressStep, PTL DEF Spec

(***************************************************************************)
(* route_http never sends a request to a proxy or to a tunnel that the     *)
(* configuration did not give its host at some moment since it arrived.    *)
(***************************************************************************)
THEOREM RequestsRoutedAsConfigured == Spec => []RoutedAsConfigured
  <1>1. IngressInv => RoutedAsConfigured
    BY DEF IngressInv, LookedUp, RoutedAsConfigured
  <1> QED
    BY <1>1, IngressInvariant, PTL

(***************************************************************************)
(* A pause stops every request that arrives after it.                      *)
(***************************************************************************)
THEOREM PauseStopsRequests == Spec => []PauseHolds
  <1>1. IngressInv => PauseHolds
    BY DEF IngressInv
  <1> QED
    BY <1>1, IngressInvariant, PTL

(***************************************************************************)
(* The WebSocket gauge of the metrics is exact on every path of route_http.*)
(***************************************************************************)
THEOREM GaugeIsExact == Spec => []GaugeExact
  <1>1. IngressInv => GaugeExact
    BY DEF IngressInv
  <1> QED
    BY <1>1, IngressInvariant, PTL

(***************************************************************************)
(* DDoSProtection::check keeps to the limits in force, for every rate,     *)
(* burst and sequence of configuration changes.                            *)
(***************************************************************************)
THEOREM BucketKeepsLimit == Spec => []LimitHolds
  <1>1. IngressInv => LimitHolds
    <2> SUFFICES ASSUME IngressInv, NEW x \in Entries
                 PROVE  quota[x].granted * TicksPerSec
                          <= entry[x].burst * TicksPerSec
                               + entry[x].rps * (now - quota[x].since)
      BY DEF LimitHolds
    <2>a. ASSUME NEW i \in Nat, NEW j \in Nat PROVE i * j \in Nat
      OBVIOUS
    <2>1. /\ entry[x].tokens \in Nat /\ entry[x].last \in Nat /\ entry[x].rps \in Nat
          /\ entry[x].burst \in Nat /\ now \in Nat
          /\ quota[x].granted \in Nat /\ quota[x].since \in Nat
          /\ entry[x].last <= now /\ quota[x].since <= now
      BY DEF IngressInv, TypeOK, Entry, Placed
    <2>2. now - quota[x].since \in Nat /\ now - entry[x].last \in Nat
      BY <2>1
    <2>3. /\ entry[x].burst * TicksPerSec \in Nat /\ quota[x].granted * TicksPerSec \in Nat
          /\ entry[x].rps * (now - quota[x].since) \in Nat
          /\ (now - entry[x].last) * entry[x].rps \in Nat
      BY <2>a, <2>1, <2>2
    <2>4. CASE quota[x].granted = 0
      <3>1. quota[x].granted * TicksPerSec = 0
        BY <2>4
      <3> QED
        BY <2>3, <3>1
    <2>5. CASE quota[x].granted > 0
      <3>1. /\ quota[x].since <= entry[x].last
            /\ quota[x].granted * TicksPerSec + entry[x].tokens
                  <= entry[x].burst * TicksPerSec
                       + entry[x].rps * (entry[x].last - quota[x].since)
        BY <2>5 DEF IngressInv, Conserved
      <3>2. entry[x].tokens <= entry[x].tokens + (now - entry[x].last) * entry[x].rps
        BY <2>1, <2>3
      <3>3. quota[x].granted * TicksPerSec + entry[x].tokens
               <= entry[x].burst * TicksPerSec + entry[x].rps * (now - quota[x].since)
        BY <2>1, <2>3, <3>1, <3>2, RefillBound
      <3> QED
        BY <2>1, <2>3, <3>3
    <2> QED
      BY <2>1, <2>4, <2>5
  <1> QED
    BY <1>1, IngressInvariant, PTL

(***************************************************************************)
(* The look-ups of route_http never lose a tunnel that was there all along.*)
(***************************************************************************)
THEOREM TunnelsNotLost == Spec => NoRouteJustified
  <1>1. IngressInv /\ [Next]_vars => [LosesNone]_vars
    <2> SUFFICES ASSUME IngressInv, Next, NEW c \in Conns, NEW s \in Subs,
                        req[c].pc # "done", req'[c].pc = "done", req'[c].answer = "no_route",
                        seen[c].subs = {s}, s \in seen[c].live
                 PROVE  FALSE
      BY DEF LosesNone
    <2>a. ConnInv(c) /\ TypeOK /\ req[c] \in Request /\ req \in [Conns -> Request]
      BY ConnParts DEF IngressInv, TypeOK
    <2>1. PICK d \in Conns : RouteHttp(d)
      BY DEF Next, TunnelOpens, TunnelCloses, Admin, SetRoute, AdminStarts, AdminFinds,
             RemoveCustomDomain, SetPaused, SetCustomDomain, SetDdosEnabled, SetDdosRps,
             SetDdosBurst, Tick
    <2>2. d = c
      <3>1. req' = [req EXCEPT ![d] = req'[d]]
        BY <2>1, RequestTyped
      <3> QED
        BY <2>a, <3>1
    <2>3. RouteHttp(c)
      BY <2>1, <2>2
    <2>4. ASSUME NEW a, End(c, a) PROVE a = "no_route"
      BY <2>a, <2>4 DEF End, NoReq
    <2>5. ASSUME NEW p \in Deciding \cup Copying, Goto(c, p) PROVE FALSE
      <3>1. req'[c].pc = p
        BY <2>a, <2>5 DEF Goto, Request
      <3> QED
        BY <3>1, <2>5 DEF Deciding, Copying
    <2>6. ~(FindRoute(c) \/ UpstreamConnects(c) \/ StartProxying(c) \/ Gate(c) \/ TakeToken(c)
            \/ StartTunnelling(c))
      BY <2>5 DEF FindRoute, UpstreamConnects, StartProxying, Gate, TakeToken, StartTunnelling,
                  Deciding, Copying
    <2>7. ~(Resolve(c) \/ FindTunnel(c) \/ ReadLimits(c))
      BY <2>a DEF Resolve, FindTunnel, ReadLimits, Request
    <2>8. ~(UpstreamFails(c) \/ UpstreamWriteFails(c) \/ RefusePaused(c) \/ RefuseToken(c)
            \/ OpenFails(c) \/ FinishCopy(c))
      BY <2>4 DEF UpstreamFails, UpstreamWriteFails, RefusePaused, RefuseToken, OpenFails,
                  FinishCopy
    <2>9. NoRoute(c)
      BY <2>3, <2>6, <2>7, <2>8 DEF RouteHttp, ReadHead, EndEarly
    <2>10. CASE req[c].pc = "resolve" /\ Target(req[c].host) = None
      BY <2>a, <2>10 DEF ConnInv, Deciding, Target, Configured
    <2>11. CASE req[c].pc = "lookup" /\ tunnels[req[c].sub] = None
      BY <2>a, <2>11 DEF ConnInv, Deciding, Live
    <2> QED
      BY <2>9, <2>10, <2>11 DEF NoRoute
  <1> QED
    BY <1>1, IngressInvariant, PTL DEF Spec, NoRouteJustified
=============================================================================
