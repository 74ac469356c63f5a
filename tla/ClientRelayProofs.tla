------------------------- MODULE ClientRelayProofs -------------------------
(***************************************************************************)
(* First the tunnel registry alone: what holds for every number of         *)
(* connections, names, ports and requests, whatever the limits and with or *)
(* without expiry and keepalive.  Then its limits, and by how much races   *)
(* exceed them.  Then a client that reconnects to it, for every number of  *)
(* retries too: it exits only for a reason, and while it serves a name the *)
(* relay routes the name to its session.                                   *)
(***************************************************************************)
EXTENDS ClientRelay, TunnelLimits, FiniteSetTheorems, TLAPS

USE KeysAssumption, ConnsAssumption, LimitsAssumption DEF Keys

-----------------------------------------------------------------------------
(***************************************************************************)
(* The registry.                                                           *)
(***************************************************************************)

(***************************************************************************)
(* The initial states satisfy the inductive invariant: nothing is          *)
(* registered and every handler waits for its Register frame.              *)
(***************************************************************************)
LEMMA InitInv == Init => RegistryInv
  <1> SUFFICES ASSUME Init PROVE RegistryInv
    OBVIOUS
  <1>1. TypeOK
    BY DEF Init, TypeOK, Stages
  <1>2. StageFitsKey /\ ListenerOwned
    BY DEF Init, StageFitsKey, ListenerOwned, TcpBound
  <1>3. EntryFitsHandler
    BY DEF Init, EntryFitsHandler
  <1>4. HttpNameOwned
    BY DEF Init, HttpNameOwned, HttpHolding
  <1>5. QED
    BY <1>1, <1>2, <1>3, <1>4 DEF RegistryInv

(***************************************************************************)
(* Every step of a handle_client task keeps the invariant.                 *)
(***************************************************************************)
LEMMA HandlerInv ==
  ASSUME RegistryInv, NEW c \in Conns, Handler(c)
  PROVE  RegistryInv'
  <1> USE DEF RegistryInv, TypeOK, Stages, StageFitsKey, EntryFitsHandler,
              ListenerOwned, HttpNameOwned, HttpHolding, TcpBound, Goto,
              handlerVars, taskVars
  <1>1. CASE HandshakeFails(c)
    BY <1>1 DEF HandshakeFails, Answer
  <1>2. ASSUME NEW k \in Keys \cup {AnyPort}, Register(c, k) PROVE RegistryInv'
    BY <1>2 DEF Register
  <1>3. CASE CheckPerIp(c)
    BY <1>3 DEF CheckPerIp, Admit, Answer
  <1>4. CASE CheckCap(c)
    BY <1>4 DEF CheckCap, Admit, Answer
  <1>5. CASE RefuseName(c)
    BY <1>5 DEF RefuseName, Answer
  <1>6. CASE InsertHttp(c)
    BY <1>6 DEF InsertHttp
  <1>7. CASE FindTaken(c)
    BY <1>7 DEF FindTaken
  <1>8. CASE SendTaken(c)
    BY <1>8 DEF SendTaken, Answer
  <1>9. CASE PickPort(c)
    BY <1>9 DEF PickPort
  <1>10. CASE RedrawPort(c)
    BY <1>10 DEF RedrawPort
  <1>11. CASE BindFails(c)
    BY <1>11 DEF BindFails
  <1>12. CASE Bind(c)
    BY <1>12 DEF Bind
  <1>13. CASE Track(c)
    BY <1>13 DEF Track
  <1>14. CASE SendRegistered(c)
    BY <1>14 DEF SendRegistered, Answer
  <1>15. CASE RegisteredLost(c)
    BY <1>15 DEF RegisteredLost, Answer
  <1>16. CASE Publish(c)
    BY <1>16 DEF Publish
  <1>17. CASE Wake(c)
    BY <1>17 DEF Wake, Leave
  <1>18. CASE ReadEof(c)
    BY <1>18 DEF ReadEof, Leave
  <1>19. CASE PingTick(c)
    BY <1>19 DEF PingTick
  <1>20. CASE PingSent(c)
    BY <1>20 DEF PingSent
  <1>21. CASE PingFails(c)
    BY <1>21 DEF PingFails, Leave
  <1>22. CASE CloseListener(c)
    BY <1>22 DEF CloseListener
  <1>23. CASE Untrack(c)
    BY <1>23 DEF Untrack
  <1>24. CASE Remove(c)
    BY <1>24 DEF Remove
  <1> QED
    BY <1>1, <1>2, <1>3, <1>4, <1>5, <1>6, <1>7, <1>8, <1>9, <1>10, <1>11, <1>12, <1>13, <1>14, <1>15, <1>16, <1>17, <1>18, <1>19, <1>20, <1>21, <1>22, <1>23, <1>24 DEF Handler

(***************************************************************************)
(* Clients' links and the requests that clone entries out of the map do    *)
(* not touch what the invariant relates.                                   *)
(***************************************************************************)
LEMMA LinkInv ==
  ASSUME RegistryInv, NEW c \in Conns, LinkStalls(c) \/ LinkDrops(c)
  PROVE  RegistryInv'
  BY DEF LinkStalls, LinkDrops, RegistryInv, TypeOK, StageFitsKey,
         EntryFitsHandler, ListenerOwned, HttpNameOwned, handlerVars, taskVars

LEMMA RequestInv ==
  ASSUME RegistryInv, NEW t \in Tasks, Request(t)
  PROVE  RegistryInv'
  <1> USE DEF RegistryInv, TypeOK, StageFitsKey, EntryFitsHandler,
              ListenerOwned, HttpNameOwned, handlerVars, taskVars
  <1>1. ASSUME NEW role \in {"request", "evict"}, NEW cs \in SUBSET Conns,
               StartTask(t, role, cs)
        PROVE  RegistryInv'
    BY <1>1 DEF StartTask
  <1>2. CASE EndTask(t)
    BY <1>2 DEF EndTask
  <1>3. \A k \in Keys : k \in Entries => {tunnels[k]} \in SUBSET Conns
    BY DEF Entries
  <1>4. ASSUME NEW k \in Subs, RequestStart(t, k) PROVE RegistryInv'
    BY <1>1, <1>3, <1>4 DEF RequestStart
  <1>5. ASSUME NEW k \in Keys, EvictOne(t, k) PROVE RegistryInv'
    BY <1>1, <1>3, <1>5 DEF EvictOne
  <1>6. ASSUME NEW c \in Conns, EvictIp(t, ClientIp[c]) PROVE RegistryInv'
    <2>1. {tunnels[k] : k \in EntriesOfIp(ClientIp[c])} \in SUBSET Conns
      BY DEF EntriesOfIp, Entries
    <2> QED
      BY <1>1, <1>6, <2>1 DEF EvictIp
  <1>7. CASE EvictSignal(t)
    BY <1>7 DEF EvictSignal
  <1> QED
    BY <1>2, <1>4, <1>5, <1>6, <1>7 DEF Request, RequestEnd, EvictEnd

(***************************************************************************)
(* Expiry and SIGTERM take entries out of the map; the handlers whose      *)
(* entries go are no longer promised theirs (HttpNameOwned), and nothing   *)
(* else looks at the entries that went.                                    *)
(***************************************************************************)
LEMMA EvictInv ==
  ASSUME RegistryInv, NEW K \in SUBSET Entries, Evict(K),
         stopping' \in BOOLEAN, ExpiryOn \/ stopping'
  PROVE  RegistryInv'
  BY DEF Evict, Entries, RegistryInv, TypeOK, Stages, StageFitsKey,
         EntryFitsHandler, ListenerOwned, HttpNameOwned, HttpHolding,
         handlerVars, taskVars

(***************************************************************************)
(* RegistryInv is inductive.                                               *)
(***************************************************************************)
LEMMA NextInv == RegistryInv /\ [Next]_vars => RegistryInv'
  <1> SUFFICES ASSUME RegistryInv, [Next]_vars PROVE RegistryInv'
    OBVIOUS
  <1>1. CASE \E c \in Conns : Handler(c) \/ LinkStalls(c) \/ LinkDrops(c)
    BY <1>1, HandlerInv, LinkInv
  <1>2. CASE \E t \in Tasks : Request(t)
    BY <1>2, RequestInv
  <1>3. CASE Expire
    <2>1. PICK K \in SUBSET Entries : Evict(K)
      BY <1>3 DEF Expire
    <2>2. ExpiryOn /\ stopping' \in BOOLEAN
      BY <1>3 DEF Expire, RegistryInv, TypeOK
    <2> QED
      BY <2>1, <2>2, EvictInv
  <1>4. CASE Sigterm
    <2>1. Entries \in SUBSET Entries /\ Evict(Entries)
      BY <1>4 DEF Sigterm
    <2>2. stopping' = TRUE
      BY <1>4 DEF Sigterm
    <2> QED
      BY <2>1, <2>2, EvictInv
  <1>5. CASE UNCHANGED vars
    BY <1>5 DEF vars, RegistryInv, TypeOK, StageFitsKey, EntryFitsHandler,
                ListenerOwned, HttpNameOwned
  <1> QED
    BY <1>1, <1>2, <1>3, <1>4, <1>5 DEF Next, Quiet

(***************************************************************************)
(* Entries, sockets and handler stages agree in every reachable state.     *)
(***************************************************************************)
THEOREM RegistryInvariant == Spec => []RegistryInv
  BY InitInv, NextInv, PTL DEF Spec

(***************************************************************************)
(* The registry is well typed, and its mutex is only ever kept across an   *)
(* await by a handler that writes Error 409.                               *)
(***************************************************************************)
THEOREM TypeCorrect == Spec => []TypeOK
  <1>1. RegistryInv => TypeOK
    BY DEF RegistryInv
  <1> QED
    BY <1>1, RegistryInvariant, PTL

(***************************************************************************)
(* Without expiry and before shutdown, a registered subdomain stays with   *)
(* the handler that registered it.                                         *)
(***************************************************************************)
THEOREM NamesAreOwned == Spec => []HttpNameOwned
  <1>1. RegistryInv => HttpNameOwned
    BY DEF RegistryInv
  <1> QED
    BY <1>1, RegistryInvariant, PTL

(***************************************************************************)
(* Only an entry whose client was never told Registered can outlive its    *)
(* handler.                                                                *)
(***************************************************************************)
THEOREM OrphansAreUnconfirmed == Spec => []OrphansUnconfirmed
  <1>1. RegistryInv => OrphansUnconfirmed
    BY DEF RegistryInv, EntryFitsHandler, OrphansUnconfirmed
  <1> QED
    BY <1>1, RegistryInvariant, PTL

(***************************************************************************)
(* A TCP handler owns its listening socket from bind to shutdown.          *)
(***************************************************************************)
THEOREM ListenersAreOwned == Spec => []ListenerOwned
  <1>1. RegistryInv => ListenerOwned
    BY DEF RegistryInv
  <1> QED
    BY <1>1, RegistryInvariant, PTL

(***************************************************************************)
(* Whoever recorded a port is the witness of PortRecordsAccounted until it *)
(* releases the record or loses its client.                                *)
(***************************************************************************)
Accounts(c, p) ==
    key[c] = p /\ (pc[c] \in TcpTracked \/ (pc[c] = "done" /\ reply[c] = "lost"))

LEMMA PortRecordStep ==
  ASSUME RegistryInv, PortRecordsAccounted, [Next]_vars
  PROVE  PortRecordsAccounted'
  <1>1. /\ pc \in [Conns -> Stages] /\ key \in [Conns -> Keys \cup {NoKey, AnyPort}]
        /\ reply \in [Conns -> {"none", "refused", "registered", "lost"}]
        /\ tcp_ports \subseteq Ports
        /\ \A d \in Conns : pc[d] \in {"bind", "bindDrawn", "track", "publish", "close",
                                       "untrack"} => key[d] \in Ports
    BY DEF RegistryInv, TypeOK, StageFitsKey
  <1>2. ASSUME UNCHANGED <<tcp_ports, pc, key, reply>> PROVE PortRecordsAccounted'
    BY <1>2 DEF PortRecordsAccounted
  <1>3. ASSUME NEW c \in Conns, Handler(c) PROVE PortRecordsAccounted'
    <2>1. /\ \A d \in Conns \ {c} : pc'[d] = pc[d] /\ key'[d] = key[d] /\ reply'[d] = reply[d]
          /\ \/ tcp_ports' \subseteq tcp_ports
             \/ tcp_ports' = tcp_ports \cup {key'[c]} /\ pc'[c] = "reply"
          /\ \A p \in tcp_ports' : Accounts(c, p) => Accounts(c, p)'
      <3> USE <1>1 DEF Goto, Answer, Accounts, TcpTracked
      <3>1. CASE HandshakeFails(c)
        BY <3>1 DEF HandshakeFails
      <3>2. CASE \E k \in Keys \cup {AnyPort} : Register(c, k)
        BY <3>2 DEF Register
      <3>3. CASE CheckPerIp(c) \/ CheckCap(c)
        BY <3>3 DEF CheckPerIp, CheckCap, Admit
      <3>4. CASE RefuseName(c) \/ InsertHttp(c) \/ FindTaken(c) \/ SendTaken(c)
        BY <3>4 DEF RefuseName, InsertHttp, FindTaken, SendTaken
      <3>5. CASE PickPort(c) \/ RedrawPort(c) \/ BindFails(c) \/ Bind(c)
        BY <3>5 DEF PickPort, RedrawPort, BindFails, Bind
      <3>6. CASE Track(c)
        BY <3>6 DEF Track
      <3>7. CASE SendRegistered(c)
        BY <3>7 DEF SendRegistered
      <3>8. CASE RegisteredLost(c)
        BY <3>8 DEF RegisteredLost
      <3>9. CASE Publish(c) \/ PingTick(c) \/ PingSent(c)
        BY <3>9 DEF Publish, PingTick, PingSent
      <3>10. CASE Wake(c) \/ ReadEof(c) \/ PingFails(c)
        BY <3>10 DEF Wake, ReadEof, PingFails, Leave
      <3>11. CASE CloseListener(c) \/ Untrack(c) \/ Remove(c)
        BY <3>11 DEF CloseListener, Untrack, Remove
      <3> QED
        BY <1>3, <3>1, <3>2, <3>3, <3>4, <3>5, <3>6, <3>7, <3>8, <3>9, <3>10, <3>11
           DEF Handler
    <2> SUFFICES ASSUME NEW p \in tcp_ports' PROVE \E d \in Conns : Accounts(d, p)'
      BY DEF PortRecordsAccounted, Accounts
    <2>2. CASE p \in tcp_ports
      <3>1. PICK d \in Conns : Accounts(d, p)
        BY <2>2 DEF PortRecordsAccounted, Accounts
      <3>2. Accounts(d, p)'
        BY <2>1, <3>1 DEF Accounts
      <3> QED
        BY <3>2
    <2>3. CASE p \notin tcp_ports
      <3>1. p = key'[c] /\ pc'[c] = "reply"
        BY <2>1, <2>3
      <3> QED
        BY <3>1 DEF Accounts, TcpTracked
    <2> QED
      BY <2>2, <2>3
  <1>4. ASSUME NEW c \in Conns, LinkStalls(c) \/ LinkDrops(c) PROVE PortRecordsAccounted'
    BY <1>2, <1>4 DEF LinkStalls, LinkDrops, handlerVars
  <1>5. ASSUME NEW t \in Tasks, Request(t) PROVE PortRecordsAccounted'
    BY <1>2, <1>5 DEF Request, RequestStart, RequestEnd, EvictOne, EvictIp,
         EvictSignal, EvictEnd, StartTask, EndTask, handlerVars
  <1>6. CASE Expire \/ Sigterm
    BY <1>2, <1>6 DEF Expire, Sigterm, Evict, handlerVars
  <1>7. CASE Quiet \/ UNCHANGED vars
    BY <1>2, <1>7 DEF Quiet, vars
  <1> QED
    BY <1>3, <1>4, <1>5, <1>6, <1>7 DEF Next

(***************************************************************************)
(* Only the record of a port whose client was never told Registered can    *)
(* outlive its handler, whoever else binds and releases the port.          *)
(***************************************************************************)
THEOREM PortRecordsAreAccounted == Spec => []PortRecordsAccounted
  <1>1. Init => PortRecordsAccounted
    BY DEF Init, PortRecordsAccounted
  <1> QED
    BY <1>1, PortRecordStep, RegistryInvariant, PTL DEF Spec

(***************************************************************************)
(* Both maps together.                                                     *)
(***************************************************************************)
THEOREM LeaksAreUnconfirmed == Spec => []LeaksUnconfirmed
  <1>1. OrphansUnconfirmed /\ PortRecordsAccounted => LeaksUnconfirmed
    BY DEF LeaksUnconfirmed
  <1> QED
    BY <1>1, OrphansAreUnconfirmed, PortRecordsAreAccounted, PTL

(***************************************************************************)
(* The only steps that change the map.                                     *)
(***************************************************************************)
LEMMA MapWriters ==
  ASSUME [Next]_vars
  PROVE  \/ UNCHANGED tunnels
         \/ \E c \in Conns : InsertHttp(c) \/ Publish(c) \/ Remove(c)
         \/ Expire \/ Sigterm
  <1>1. ASSUME NEW c \in Conns, Handler(c)
        PROVE  UNCHANGED tunnels \/ InsertHttp(c) \/ Publish(c) \/ Remove(c)
    BY <1>1 DEF Handler, HandshakeFails, Register, CheckPerIp, CheckCap, Admit,
         RefuseName, FindTaken, SendTaken, PickPort, RedrawPort, BindFails,
         Bind, Track, SendRegistered, RegisteredLost, Wake, ReadEof, PingTick,
         PingSent, PingFails, CloseListener, Untrack
  <1>2. ASSUME NEW c \in Conns, LinkStalls(c) \/ LinkDrops(c)
        PROVE  UNCHANGED tunnels
    BY <1>2 DEF LinkStalls, LinkDrops
  <1>3. ASSUME NEW t \in Tasks, Request(t) PROVE UNCHANGED tunnels
    BY <1>3 DEF Request, RequestStart, RequestEnd, EvictOne, EvictIp,
         EvictSignal, EvictEnd, StartTask, EndTask
  <1>4. CASE Quiet \/ UNCHANGED vars
    BY <1>4 DEF Quiet, vars
  <1> QED
    BY <1>1, <1>2, <1>3, <1>4 DEF Next

(***************************************************************************)
(* A name's entry is never taken away or replaced by anyone but its own    *)
(* handler.  Remove is the step that could hit a foreign entry:            *)
(* HttpNameOwned says that the entry it removes is its own.                *)
(***************************************************************************)
THEOREM NamesAreNeverTaken == Spec => NameNeverTaken
  <1> DEFINE Kept == ~ExpiryOn /\ ~stopping' =>
                \A k \in Subs :
                    tunnels[k] # NoConn /\ tunnels'[k] # tunnels[k] =>
                        /\ tunnels'[k] = NoConn
                        /\ pc[tunnels[k]] = "remove" /\ pc'[tunnels[k]] = "done"
  <1>1. ASSUME RegistryInv, [Next]_vars PROVE Kept
    <2>1. CASE UNCHANGED tunnels
      BY <2>1
    <2>2. ASSUME NEW c \in Conns, InsertHttp(c) PROVE Kept
      BY <1>1, <2>2 DEF InsertHttp, RegistryInv, TypeOK
    <2>3. ASSUME NEW c \in Conns, Publish(c) PROVE Kept
      BY <1>1, <2>3 DEF Publish, RegistryInv, TypeOK, StageFitsKey
    <2>4. ASSUME NEW c \in Conns, Remove(c) PROVE Kept
      BY <1>1, <2>4 DEF Remove, Goto, RegistryInv, TypeOK, HttpNameOwned,
                        HttpHolding
    <2>5. CASE Expire \/ Sigterm
      BY <2>5 DEF Expire, Sigterm
    <2> QED
      BY <1>1, <2>1, <2>2, <2>3, <2>4, <2>5, MapWriters
  <1>2. RegistryInv /\ [Next]_vars => [Kept]_vars
    BY <1>1
  <1> QED
    BY <1>2, RegistryInvariant, PTL DEF Spec, NameNeverTaken

(***************************************************************************)
(* The unconditional insert of serve_tcp overwrites only the entry of a    *)
(* handler that no longer listens: both cannot own the port's socket.      *)
(***************************************************************************)
THEOREM OverwritesOnlyClosing == Spec => OverwriteOnlyClosing
  <1> DEFINE Closing == \A p \in Ports :
                tunnels[p] # NoConn /\ tunnels'[p] \notin {NoConn, tunnels[p]} =>
                    pc[tunnels[p]] \in {"untrack", "remove"}
  <1>1. ASSUME RegistryInv, [Next]_vars PROVE Closing
    <2>1. CASE UNCHANGED tunnels
      BY <2>1
    <2>2. ASSUME NEW c \in Conns, InsertHttp(c) PROVE Closing
      BY <1>1, <2>2 DEF InsertHttp, RegistryInv, TypeOK
    <2>3. ASSUME NEW c \in Conns, Publish(c) PROVE Closing
      <3> SUFFICES ASSUME NEW p \in Ports, tunnels[p] # NoConn,
                          tunnels'[p] \notin {NoConn, tunnels[p]}
                   PROVE  pc[tunnels[p]] \in {"untrack", "remove"}
        OBVIOUS
      <3>1. p = key[c] /\ tunnels[p] \in Conns /\ tunnels[p] # c
        BY <1>1, <2>3 DEF Publish, RegistryInv, TypeOK
      <3>2. listening[p] = c
        BY <1>1, <2>3, <3>1 DEF Publish, RegistryInv, ListenerOwned, TcpBound
      <3>3. key[tunnels[p]] = p /\ pc[tunnels[p]] \in
                {"serve", "ping", "close", "untrack", "remove"}
        BY <1>1 DEF RegistryInv, EntryFitsHandler
      <3> QED
        BY <1>1, <3>1, <3>2, <3>3 DEF RegistryInv, ListenerOwned, TcpBound
    <2>4. ASSUME NEW c \in Conns, Remove(c) PROVE Closing
      BY <1>1, <2>4 DEF Remove, RegistryInv, TypeOK
    <2>5. CASE Expire \/ Sigterm
      BY <1>1, <2>5 DEF Expire, Sigterm, Evict, RegistryInv, TypeOK
    <2> QED
      BY <1>1, <2>1, <2>2, <2>3, <2>4, <2>5, MapWriters
  <1>2. RegistryInv /\ [Next]_vars => [Closing]_vars
    BY <1>1
  <1> QED
    BY <1>2, RegistryInvariant, PTL DEF Spec, OverwriteOnlyClosing

-----------------------------------------------------------------------------
(***************************************************************************)
(* The registry without expiry implements the lease service.               *)
(***************************************************************************)

\* What the lease service sees of a state.
leaseView == [k \in Subs |-> tunnels[k]]
phaseView == [c \in Conns |-> PhaseOf(c)]

(***************************************************************************)
(* A step of one handler moves at most that handler's phase.               *)
(***************************************************************************)
LEMMA OnePhaseMoves ==
  ASSUME NEW c \in Conns, RegistryInv,
         \A d \in Conns \ {c} : pc'[d] = pc[d] /\ key'[d] = key[d]
  PROVE  phaseView' = [phaseView EXCEPT ![c] = PhaseOf(c)']
  <1>1. \A d \in Conns \ {c} : PhaseOf(d)' = PhaseOf(d)
    BY DEF PhaseOf
  <1> QED
    BY <1>1 DEF phaseView

(***************************************************************************)
(* Every handler step before shutdown is a step of the lease service, or   *)
(* one it does not see.                                                    *)
(***************************************************************************)
LEMMA HandlerLease ==
  ASSUME RegistryInv, ~ExpiryOn, ~stopping, NEW c \in Conns, Handler(c)
  PROVE  [Lease!Next]_(Lease!vars)
  <1> USE DEF RegistryInv, TypeOK, StageFitsKey
  <1> DEFINE Same == UNCHANGED <<leaseView, phaseView, stopping>>
  <1>1. Same => [Lease!Next]_(Lease!vars)
    BY DEF Lease!vars, leaseView, phaseView
  <1>2. ASSUME UNCHANGED <<leaseView, stopping>>,
               \A d \in Conns \ {c} : pc'[d] = pc[d] /\ key'[d] = key[d],
               \/ PhaseOf(c)' = PhaseOf(c)
               \/ PhaseOf(c) = "asking"  /\ PhaseOf(c)' = "over"
               \/ PhaseOf(c) = "pending" /\ PhaseOf(c)' \in {"holding", "over"}
        PROVE  [Lease!Next]_(Lease!vars)
    <2>1. phaseView' = [phaseView EXCEPT ![c] = PhaseOf(c)']
      BY <1>2, OnePhaseMoves
    <2>2. phaseView[c] = PhaseOf(c)
      BY DEF phaseView
    <2>3. CASE PhaseOf(c)' = PhaseOf(c)
      <3>1. phaseView' = phaseView
        BY <2>1, <2>3 DEF phaseView
      <3> QED
        BY <1>1, <1>2, <3>1
    <2>4. CASE PhaseOf(c)' # PhaseOf(c)
      <3>1. Lease!Refuse(c) \/ Lease!Confirm(c) \/ Lease!Abandon(c)
        BY <1>2, <2>1, <2>2, <2>4 DEF Lease!Refuse, Lease!Confirm, Lease!Abandon,
               Lease!Move, leaseView, phaseView
      <3> QED
        BY <1>2, <3>1 DEF Lease!Next
    <2> QED
      BY <2>3, <2>4
  <1> USE DEF Goto, PhaseOf, leaseView, taskVars
  <1>3. CASE HandshakeFails(c)
    BY <1>2, <1>3 DEF HandshakeFails
  <1>4. ASSUME NEW k \in Keys \cup {AnyPort}, Register(c, k)
        PROVE  [Lease!Next]_(Lease!vars)
    BY <1>2, <1>4 DEF Register
  <1>5. CASE CheckPerIp(c)
    BY <1>2, <1>5 DEF CheckPerIp, Admit
  <1>6. CASE CheckCap(c)
    BY <1>2, <1>6 DEF CheckCap, Admit
  <1>7. CASE RefuseName(c) \/ FindTaken(c) \/ SendTaken(c)
    BY <1>2, <1>7 DEF RefuseName, FindTaken, SendTaken
  <1>8. CASE PickPort(c) \/ RedrawPort(c) \/ BindFails(c)
    BY <1>2, <1>8 DEF PickPort, RedrawPort, BindFails
  <1>9. CASE Bind(c) \/ Track(c)
    BY <1>2, <1>9 DEF Bind, Track
  <1>10. CASE SendRegistered(c) \/ RegisteredLost(c)
    BY <1>2, <1>10 DEF SendRegistered, RegisteredLost
  <1>11. CASE Wake(c) \/ ReadEof(c)
    BY <1>2, <1>11 DEF Wake, ReadEof, Leave
  <1>12. CASE PingTick(c) \/ PingSent(c) \/ PingFails(c)
    BY <1>2, <1>12 DEF PingTick, PingSent, PingFails, Leave
  <1>13. CASE CloseListener(c) \/ Untrack(c)
    BY <1>2, <1>13 DEF CloseListener, Untrack
  <1>14. CASE Publish(c)
    BY <1>2, <1>14 DEF Publish
  <1>15. CASE InsertHttp(c)
    <2> PICK n \in Subs : n = key[c]
      BY <1>15 DEF InsertHttp
    <2>1. /\ phaseView[c] = "asking" /\ PhaseOf(c)' = "pending"
          /\ leaseView[n] = NoConn
          /\ leaseView' = [leaseView EXCEPT ![n] = c]
          /\ UNCHANGED stopping
      BY <1>15 DEF InsertHttp, phaseView
    <2>2. phaseView' = [phaseView EXCEPT ![c] = "pending"]
      BY <1>15, <2>1, OnePhaseMoves DEF InsertHttp
    <2>3. Lease!Acquire(c, n)
      BY <2>1, <2>2 DEF Lease!Acquire, Lease!Move, leaseView, phaseView
    <2> QED
      BY <2>1, <2>3 DEF Lease!Next
  <1>16. CASE Remove(c)
    <2>1. CASE key[c] \in Ports
      BY <1>2, <1>16, <2>1 DEF Remove
    <2>2. CASE key[c] \in Subs
      <3> PICK n \in Subs : n = key[c]
        BY <2>2
      <3>1. /\ phaseView[c] = "holding" /\ PhaseOf(c)' = "over"
            /\ leaseView[n] = c
            /\ leaseView' = [leaseView EXCEPT ![n] = NoConn]
            /\ UNCHANGED stopping
        BY <1>16, <2>2 DEF Remove, phaseView, HttpNameOwned, HttpHolding
      <3>2. phaseView' = [phaseView EXCEPT ![c] = "over"]
        BY <1>16, <3>1, OnePhaseMoves DEF Remove
      <3>3. Lease!Release(c, n)
        BY <3>1, <3>2 DEF Lease!Release, Lease!Move, leaseView, phaseView
      <3> QED
        BY <3>1, <3>3 DEF Lease!Next
    <2> QED
      BY <1>16, <2>1, <2>2 DEF Remove
  <1> QED
    BY <1>3, <1>4, <1>5, <1>6, <1>7, <1>8, <1>9, <1>10, <1>11, <1>12, <1>13,
       <1>14, <1>15, <1>16 DEF Handler

(***************************************************************************)
(* Without expiry every step of the registry is a step of the lease        *)
(* service or stutters: SIGTERM is its shutdown, and whatever follows is   *)
(* unconstrained.                                                          *)
(***************************************************************************)
LEMMA NextLease ==
  ASSUME RegistryInv, RegistryInv', ~ExpiryOn, [Next]_vars
  PROVE  [Lease!Next]_(Lease!vars)
  <1>1. CASE stopping
    <2>1. stopping'
      <3>1. ASSUME NEW c \in Conns, Handler(c) PROVE UNCHANGED stopping
        BY <3>1 DEF Handler, HandshakeFails, Register, CheckPerIp, CheckCap,
             Admit, RefuseName, InsertHttp, FindTaken, SendTaken, PickPort,
             RedrawPort, BindFails, Bind, Track, SendRegistered,
             RegisteredLost, Publish, Wake, ReadEof, PingTick, PingSent,
             PingFails, CloseListener, Untrack, Remove
      <3>2. ASSUME NEW t \in Tasks, Request(t) PROVE UNCHANGED stopping
        BY <3>2 DEF Request, RequestStart, RequestEnd, EvictOne, EvictIp,
             EvictSignal, EvictEnd, StartTask, EndTask
      <3>3. ASSUME NEW c \in Conns, LinkStalls(c) \/ LinkDrops(c)
            PROVE  UNCHANGED stopping
        BY <3>3 DEF LinkStalls, LinkDrops
      <3>4. UNCHANGED vars => UNCHANGED stopping
        BY DEF vars
      <3> QED
        BY <1>1, <3>1, <3>2, <3>3, <3>4 DEF Next, Expire, Sigterm, Quiet
    <2>2. leaseView' \in [Subs -> Conns \cup {NoConn}]
      BY DEF leaseView, RegistryInv, TypeOK
    <2>3. phaseView' \in [Conns -> Lease!Phases]
      BY DEF phaseView, PhaseOf, Lease!Phases
    <2>4. Lease!AfterShutdown
      BY <1>1, <2>1, <2>2, <2>3 DEF Lease!AfterShutdown, leaseView, phaseView
    <2> QED
      BY <2>4 DEF Lease!Next
  <1>2. CASE ~stopping
    <2>1. CASE \E c \in Conns : Handler(c)
      BY <1>2, <2>1, HandlerLease
    <2>2. CASE Sigterm
      <3>1. leaseView' = [n \in Subs |-> NoConn]
        BY <2>2 DEF Sigterm, Evict, Entries, leaseView, RegistryInv, TypeOK
      <3>2. phaseView' = phaseView
        BY <2>2 DEF Sigterm, Evict, handlerVars, phaseView, PhaseOf
      <3>3. stopping' = TRUE
        BY <2>2 DEF Sigterm
      <3>4. Lease!Shutdown
        BY <3>1, <3>2, <3>3 DEF Lease!Shutdown, leaseView, phaseView
      <3> QED
        BY <1>2, <3>4 DEF Lease!Next
    <2>3. ASSUME UNCHANGED <<tunnels, pc, key, stopping>>
          PROVE  [Lease!Next]_(Lease!vars)
      BY <2>3 DEF Lease!vars, PhaseOf
    <2>4. CASE \E c \in Conns : LinkStalls(c) \/ LinkDrops(c)
      BY <2>3, <2>4 DEF LinkStalls, LinkDrops, handlerVars
    <2>5. ASSUME NEW t \in Tasks, Request(t)
          PROVE  [Lease!Next]_(Lease!vars)
      BY <2>3, <2>5 DEF Request, RequestStart, RequestEnd, EvictOne, EvictIp,
           EvictSignal, EvictEnd, StartTask, EndTask, handlerVars
    <2>6. CASE UNCHANGED vars
      BY <2>3, <2>6 DEF vars
    <2> QED
      BY <2>1, <2>2, <2>4, <2>5, <2>6 DEF Next, Expire, Quiet
  <1> QED
    BY <1>1, <1>2

(***************************************************************************)
(* With expiry disabled (the default) the relay's name registry is a lease *)
(* service: one client per name, ended only by its own session.            *)
(***************************************************************************)
THEOREM RegistryImplementsLease ==
  ASSUME ~ExpiryOn
  PROVE  Spec => ImplementsLease
  <1>1. Init => Lease!Init
    BY DEF Init, Lease!Init, PhaseOf
  <1>2. RegistryInv /\ RegistryInv' /\ [Next]_vars => [Lease!Next]_(Lease!vars)
    BY NextLease
  <1> QED
    BY <1>1, <1>2, RegistryInvariant, PTL DEF Spec, ImplementsLease, Lease!Spec

-----------------------------------------------------------------------------
(***************************************************************************)
(* The limits on tunnels.                                                  *)
(***************************************************************************)

(***************************************************************************)
(* What a step may do to the entries E and the registrations under way W   *)
(* that a limit counts: take some away, admit a registration while there   *)
(* is room, or turn a registration into an entry.                          *)
(***************************************************************************)
Moves(E, W, E2, W2, limit) ==
    \/ E2 \subseteq E /\ W2 \subseteq W
    \/ /\ E2 = E /\ \E c : W2 = W \cup {c}
       /\ limit > 0 => Cardinality(E) < limit
    \/ \E c \in W : \E k : E2 \subseteq E \cup {k} /\ W2 \subseteq W \ {c}

(***************************************************************************)
(* None of them leaves the bound: an admission that finds room counts      *)
(* itself among the registrations under way, and an insert only moves it.  *)
(***************************************************************************)
LEMMA MovesKeepLimit ==
  ASSUME NEW E, NEW W, NEW E2, NEW W2, NEW limit \in Nat, NEW most,
         WithinLimit(E, W, limit, most), Moves(E, W, E2, W2, limit)
  PROVE  WithinLimit(E2, W2, limit, Larger(most, Cardinality(W2)))
  <1>1. /\ IsFiniteSet(E) /\ IsFiniteSet(W) /\ most \in Nat
        /\ Cardinality(E) \in Nat /\ Cardinality(W) \in Nat
        /\ Cardinality(W) <= most
        /\ limit > 0 => Cardinality(E) + Cardinality(W) < limit + most
    BY FS_CardinalityType DEF WithinLimit
  <1> SUFFICES /\ IsFiniteSet(E2) /\ IsFiniteSet(W2)
               /\ Cardinality(E2) \in Nat /\ Cardinality(W2) \in Nat
               /\ \/ Cardinality(E2) + Cardinality(W2) <= Cardinality(E) + Cardinality(W)
                  \/ limit > 0 => Cardinality(E2) < limit
    BY <1>1 DEF WithinLimit, Larger
  <1>2. CASE E2 \subseteq E /\ W2 \subseteq W
    <2>1. /\ IsFiniteSet(E2) /\ Cardinality(E2) <= Cardinality(E)
          /\ IsFiniteSet(W2) /\ Cardinality(W2) <= Cardinality(W)
      BY <1>1, <1>2, FS_Subset
    <2>2. Cardinality(E2) \in Nat /\ Cardinality(W2) \in Nat
      BY <2>1, FS_CardinalityType
    <2> QED
      BY <1>1, <2>1, <2>2
  <1>3. CASE /\ E2 = E /\ \E c : W2 = W \cup {c}
             /\ limit > 0 => Cardinality(E) < limit
    <2>1. IsFiniteSet(W2)
      BY <1>1, <1>3, FS_AddElement
    <2>2. Cardinality(W2) \in Nat
      BY <2>1, FS_CardinalityType
    <2> QED
      BY <1>1, <1>3, <2>1, <2>2
  <1>4. ASSUME NEW c \in W, NEW k, E2 \subseteq E \cup {k}, W2 \subseteq W \ {c}
        PROVE  /\ IsFiniteSet(E2) /\ IsFiniteSet(W2)
               /\ Cardinality(E2) \in Nat /\ Cardinality(W2) \in Nat
               /\ Cardinality(E2) + Cardinality(W2) <= Cardinality(E) + Cardinality(W)
    <2> DEFINE more == E \cup {k}
               less == W \ {c}
    <2>1. IsFiniteSet(more) /\ Cardinality(more) <= Cardinality(E) + 1
      <3>1. /\ IsFiniteSet(more)
            /\ Cardinality(more) = IF k \in E THEN Cardinality(E) ELSE Cardinality(E) + 1
        BY <1>1, FS_AddElement
      <3> HIDE DEF more
      <3> QED
        BY <1>1, <3>1
    <2>2. IsFiniteSet(less) /\ Cardinality(less) = Cardinality(W) - 1
      BY <1>1, FS_RemoveElement
    <2> HIDE DEF more, less
    <2>3. E2 \in SUBSET more /\ W2 \in SUBSET less
      BY <1>4 DEF more, less
    <2>4. IsFiniteSet(E2) /\ Cardinality(E2) <= Cardinality(more)
      BY <2>1, <2>3, FS_Subset
    <2>5. IsFiniteSet(W2) /\ Cardinality(W2) <= Cardinality(less)
      BY <2>2, <2>3, FS_Subset
    <2>6. Cardinality(E2) \in Nat /\ Cardinality(W2) \in Nat /\ Cardinality(more) \in Nat
      BY <2>1, <2>4, <2>5, FS_CardinalityType
    <2> QED
      BY <1>1, <2>1, <2>2, <2>4, <2>5, <2>6
  <1> QED
    BY <1>2, <1>3, <1>4 DEF Moves

(***************************************************************************)
(* A handler moves nobody but itself.  It gets under way only through the  *)
(* check of the limit, which leaves the map alone; and it inserts only     *)
(* what was under way and is so no more.                                   *)
(***************************************************************************)
Stays(c) ==
    /\ UNCHANGED tunnels
    /\ c \in UnderWay' => c \in UnderWay
    /\ pc'[c] = "cap" \/ c \in UnderWay' => pc[c] = "cap" \/ c \in UnderWay

PassesCap(c) ==
    /\ UNCHANGED tunnels /\ pc[c] = "cap" /\ pc'[c] # "cap"
    /\ c \in UnderWay' => (MaxTunnels > 0 => Cardinality(Entries) < MaxTunnels)

PassesPerIp(c) ==
    /\ UNCHANGED tunnels /\ c \notin UnderWay' /\ pc[c] = "perIp"
    /\ pc'[c] = "cap" => (MaxPerIp > 0 => Cardinality(EntriesOfIp(ClientIp[c])) < MaxPerIp)

Inserts(c) ==
    /\ key[c] \in Keys /\ tunnels' = [tunnels EXCEPT ![key[c]] = c]
    /\ c \in UnderWay /\ c \notin UnderWay' /\ pc'[c] # "cap"

Removes(c) ==
    /\ key[c] \in Keys /\ tunnels' = [tunnels EXCEPT ![key[c]] = NoConn]
    /\ c \notin UnderWay' /\ pc'[c] # "cap"

LEMMA HandlerMoves ==
  ASSUME RegistryInv, IsFiniteSet(Entries), NEW c \in Conns, Handler(c)
  PROVE  /\ \A d \in Conns \ {c} : pc'[d] = pc[d] /\ key'[d] = key[d]
         /\ \/ Stays(c) \/ PassesCap(c) \/ PassesPerIp(c)
            \/ Inserts(c) \/ Removes(c)
  <1> DEFINE Frame == \A d \in Conns \ {c} : pc'[d] = pc[d] /\ key'[d] = key[d]
  <1>1. /\ pc \in [Conns -> Stages] /\ key \in [Conns -> Keys \cup {NoKey, AnyPort}]
        /\ pc[c] \in {"insert", "taken"} => key[c] \in Subs
        /\ pc[c] \in {"bind", "bindDrawn", "track", "publish"} => key[c] \in Ports
        /\ pc[c] = "remove" => key[c] \in Keys
    BY DEF RegistryInv, TypeOK, StageFitsKey
  <1>2. /\ Cardinality(Entries) \in Nat
        /\ Cardinality(EntriesOfIp(ClientIp[c])) \in Nat
    <2>1. EntriesOfIp(ClientIp[c]) \in SUBSET Entries
      BY DEF EntriesOfIp
    <2> QED
      BY <2>1, FS_Subset, FS_CardinalityType
  <1> USE <1>1 DEF Goto
  <1>3. CASE HandshakeFails(c)
    BY <1>3 DEF HandshakeFails, Stays, UnderWay
  <1>4. ASSUME NEW k \in Keys \cup {AnyPort}, Register(c, k) PROVE Frame /\ Stays(c)
    BY <1>4 DEF Register, Stays, UnderWay
  <1>5. CASE CheckPerIp(c)
    BY <1>2, <1>5 DEF CheckPerIp, Admit, PassesPerIp, UnderWay
  <1>6. CASE CheckCap(c)
    BY <1>2, <1>6 DEF CheckCap, Admit, PassesCap, UnderWay
  <1>7. CASE RefuseName(c) \/ SendTaken(c) \/ FindTaken(c)
    BY <1>7 DEF RefuseName, SendTaken, FindTaken, Stays, UnderWay
  <1>8. CASE InsertHttp(c)
    BY <1>8 DEF InsertHttp, Inserts, UnderWay
  <1>9. CASE PickPort(c) \/ RedrawPort(c)
    BY <1>9 DEF PickPort, RedrawPort, Stays, UnderWay
  <1>10. CASE BindFails(c) \/ Bind(c) \/ Track(c)
    BY <1>10 DEF BindFails, Bind, Track, Stays, UnderWay
  <1>11. CASE SendRegistered(c) \/ RegisteredLost(c)
    BY <1>11 DEF SendRegistered, RegisteredLost, Stays, UnderWay
  <1>12. CASE Publish(c)
    BY <1>12 DEF Publish, Inserts, UnderWay
  <1>13. CASE Wake(c) \/ ReadEof(c) \/ PingTick(c) \/ PingSent(c) \/ PingFails(c)
    BY <1>13 DEF Wake, ReadEof, PingTick, PingSent, PingFails, Leave, Stays, UnderWay
  <1>14. CASE CloseListener(c) \/ Untrack(c)
    BY <1>14 DEF CloseListener, Untrack, Stays, UnderWay
  <1>15. CASE Remove(c)
    BY <1>15 DEF Remove, Removes, UnderWay
  <1> QED
    BY <1>3, <1>4, <1>5, <1>6, <1>7, <1>8, <1>9, <1>10, <1>11, <1>12, <1>13, <1>14, <1>15
       DEF Handler

(***************************************************************************)
(* Hence the sets that the two limits count move as they should.           *)
(***************************************************************************)
CapMoves == Moves(Entries, UnderWay, Entries', UnderWay', MaxTunnels)

PerIpMoves(ip) ==
    Moves(EntriesOfIp(ip), UnderWayOf(ip), EntriesOfIp(ip)', UnderWayOf(ip)', MaxPerIp)

LEMMA HandlerCounts ==
  ASSUME RegistryInv, IsFiniteSet(Entries), NEW c \in Conns, Handler(c), NEW ip
  PROVE  CapMoves /\ PerIpMoves(ip)
  <1>1. /\ \A d \in Conns \ {c} : pc'[d] = pc[d] /\ key'[d] = key[d]
        /\ \/ Stays(c) \/ PassesCap(c) \/ PassesPerIp(c)
           \/ Inserts(c) \/ Removes(c)
    BY HandlerMoves
  <1>2. /\ UnderWay' \subseteq UnderWay \cup {c}
        /\ UnderWay \ {c} \subseteq UnderWay'
    BY <1>1 DEF UnderWay
  <1>3. /\ UnderWayOf(ip)' \subseteq UnderWayOf(ip) \cup {c}
        /\ UnderWayOf(ip) \ {c} \subseteq UnderWayOf(ip)'
        /\ ClientIp[c] # ip => UnderWayOf(ip)' \subseteq UnderWayOf(ip)
        /\ c \in UnderWayOf(ip) <=> ClientIp[c] = ip /\ (pc[c] = "cap" \/ c \in UnderWay)
        /\ c \in UnderWayOf(ip)' <=> ClientIp[c] = ip /\ (pc'[c] = "cap" \/ c \in UnderWay')
    BY <1>1, <1>2 DEF UnderWayOf
  <1>4. tunnels \in [Keys -> Conns \cup {NoConn}]
    BY DEF RegistryInv, TypeOK
  <1>5. UNCHANGED tunnels => Entries' = Entries /\ EntriesOfIp(ip)' = EntriesOfIp(ip)
    BY DEF Entries, EntriesOfIp
  <1>6. CASE Stays(c)
    BY <1>2, <1>3, <1>5, <1>6 DEF Stays, CapMoves, PerIpMoves, Moves
  <1>7. CASE PassesCap(c)
    <2>1. CapMoves
      <3>1. CASE c \in UnderWay'
        <4>1. UnderWay' = UnderWay \cup {c}
          BY <1>2, <3>1
        <4> QED
          BY <1>5, <1>7, <3>1, <4>1 DEF PassesCap, CapMoves, Moves
      <3>2. CASE c \notin UnderWay'
        BY <1>2, <1>5, <1>7, <3>2 DEF PassesCap, CapMoves, Moves
      <3> QED
        BY <3>1, <3>2
    <2>2. PerIpMoves(ip)
      BY <1>3, <1>5, <1>7 DEF PassesCap, PerIpMoves, Moves
    <2> QED
      BY <2>1, <2>2
  <1>8. CASE PassesPerIp(c)
    <2>1. CapMoves
      BY <1>2, <1>5, <1>8 DEF PassesPerIp, CapMoves, Moves
    <2>2. PerIpMoves(ip)
      <3>1. CASE c \in UnderWayOf(ip)'
        <4>1. UnderWayOf(ip)' = UnderWayOf(ip) \cup {c}
          BY <1>3, <3>1
        <4>2. ClientIp[c] = ip /\ pc'[c] = "cap"
          BY <1>3, <1>8, <3>1 DEF PassesPerIp
        <4> QED
          BY <1>5, <1>8, <4>1, <4>2 DEF PassesPerIp, PerIpMoves, Moves
      <3>2. CASE c \notin UnderWayOf(ip)'
        BY <1>3, <1>5, <1>8, <3>2 DEF PassesPerIp, PerIpMoves, Moves
      <3> QED
        BY <3>1, <3>2
    <2> QED
      BY <2>1, <2>2
  <1>9. CASE Inserts(c)
    <2>1. /\ Entries' \subseteq Entries \cup {key[c]}
          /\ EntriesOfIp(ip)' \subseteq EntriesOfIp(ip) \cup {key[c]}
          /\ ClientIp[c] # ip => EntriesOfIp(ip)' \subseteq EntriesOfIp(ip)
      BY <1>4, <1>9 DEF Inserts, Entries, EntriesOfIp
    <2>2. c \in UnderWay /\ UnderWay' \subseteq UnderWay \ {c}
      BY <1>2, <1>9 DEF Inserts
    <2>3. CapMoves
      BY <2>1, <2>2 DEF CapMoves, Moves
    <2>4. ClientIp[c] = ip => c \in UnderWayOf(ip) /\ UnderWayOf(ip)' \subseteq UnderWayOf(ip) \ {c}
      BY <1>3, <1>9 DEF Inserts
    <2>5. PerIpMoves(ip)
      BY <1>3, <2>1, <2>4 DEF PerIpMoves, Moves
    <2> QED
      BY <2>3, <2>5
  <1>10. CASE Removes(c)
    <2>1. Entries' \subseteq Entries /\ EntriesOfIp(ip)' \subseteq EntriesOfIp(ip)
      BY <1>4, <1>10 DEF Removes, Entries, EntriesOfIp
    <2> QED
      BY <1>2, <1>3, <1>10, <2>1 DEF Removes, CapMoves, PerIpMoves, Moves
  <1> QED
    BY <1>1, <1>6, <1>7, <1>8, <1>9, <1>10

(***************************************************************************)
(* Nobody else registers anything, and expiry and SIGTERM only take away.  *)
(***************************************************************************)
LEMMA NextCounts ==
  ASSUME RegistryInv, IsFiniteSet(Entries), [Next]_vars, NEW ip
  PROVE  CapMoves /\ PerIpMoves(ip)
  <1>1. ASSUME UNCHANGED <<pc, key>>,
               \A k \in Keys : tunnels'[k] \in {tunnels[k], NoConn}
        PROVE  CapMoves /\ PerIpMoves(ip)
    <2>1. UnderWay' = UnderWay
      BY <1>1 DEF UnderWay
    <2>2. UnderWayOf(ip)' = UnderWayOf(ip)
      BY <1>1, <2>1 DEF UnderWayOf
    <2>3. Entries' \subseteq Entries /\ EntriesOfIp(ip)' \subseteq EntriesOfIp(ip)
      BY <1>1 DEF Entries, EntriesOfIp
    <2> QED
      BY <2>1, <2>2, <2>3 DEF CapMoves, PerIpMoves, Moves
  <1>2. ASSUME NEW c \in Conns, Handler(c) PROVE CapMoves /\ PerIpMoves(ip)
    BY <1>2, HandlerCounts
  <1>3. ASSUME NEW c \in Conns, LinkStalls(c) \/ LinkDrops(c)
        PROVE  CapMoves /\ PerIpMoves(ip)
    BY <1>1, <1>3 DEF LinkStalls, LinkDrops, handlerVars
  <1>4. ASSUME NEW t \in Tasks, Request(t) PROVE CapMoves /\ PerIpMoves(ip)
    <2>1. UNCHANGED <<tunnels, pc, key>>
      BY <1>4 DEF Request, RequestStart, RequestEnd, EvictOne, EvictIp,
           EvictSignal, EvictEnd, StartTask, EndTask, handlerVars
    <2> QED
      BY <1>1, <2>1
  <1>5. CASE Expire \/ Sigterm
    <2>1. PICK K \in SUBSET Entries : Evict(K)
      BY <1>5 DEF Expire, Sigterm
    <2> QED
      BY <1>1, <2>1 DEF Evict, handlerVars
  <1>6. CASE Quiet \/ UNCHANGED vars
    BY <1>1, <1>6 DEF Quiet, vars
  <1> QED
    BY <1>2, <1>3, <1>4, <1>5, <1>6 DEF Next

(***************************************************************************)
(* Entries and registrations under way stay within the bound.              *)
(***************************************************************************)
THEOREM LimitsInvariant == LimitSpec => [](RegistryInv /\ LimitsInv)
  <1>1. LimitInit => RegistryInv /\ LimitsInv
    <2> SUFFICES ASSUME LimitInit PROVE RegistryInv /\ LimitsInv
      OBVIOUS
    <2>1. RegistryInv
      BY InitInv DEF LimitInit
    <2>2. Entries = {} /\ UnderWay = {}
      BY DEF LimitInit, Init, Entries, UnderWay
    <2>3. \A ip \in Addresses : EntriesOfIp(ip) = {} /\ UnderWayOf(ip) = {}
      BY <2>2 DEF LimitInit, Init, EntriesOfIp, UnderWayOf
    <2>4. \A limit \in Nat : WithinLimit({}, {}, limit, 0)
      BY FS_EmptySet DEF WithinLimit
    <2> QED
      BY <2>1, <2>2, <2>3, <2>4 DEF LimitInit, LimitsInv
  <1>2. RegistryInv /\ LimitsInv /\ [LimitNext]_limitVars => (RegistryInv /\ LimitsInv)'
    <2> SUFFICES ASSUME RegistryInv, LimitsInv, [LimitNext]_limitVars
                 PROVE  RegistryInv' /\ LimitsInv'
      OBVIOUS
    <2>1. CASE UNCHANGED limitVars
      <3>1. UNCHANGED vars /\ UNCHANGED <<pc, key, tunnels, crowd, crowdOf>>
        BY <2>1 DEF limitVars, vars
      <3>2. RegistryInv'
        BY <3>1, NextInv
      <3>3. /\ Entries' = Entries /\ UnderWay' = UnderWay
            /\ \A ip : EntriesOfIp(ip)' = EntriesOfIp(ip) /\ UnderWayOf(ip)' = UnderWayOf(ip)
        BY <3>1 DEF Entries, UnderWay, EntriesOfIp, UnderWayOf
      <3> QED
        BY <3>1, <3>2, <3>3 DEF LimitsInv
    <2>2. CASE LimitNext
      <3>1. [Next]_vars /\ IsFiniteSet(Entries)
        BY <2>2 DEF LimitNext, LimitsInv, WithinLimit
      <3>2. RegistryInv'
        BY <3>1, NextInv
      <3>3. CapMoves /\ \A ip : PerIpMoves(ip)
        BY <3>1, NextCounts
      <3>4. WithinLimit(Entries', UnderWay', MaxTunnels, crowd')
        <4>1. WithinLimit(Entries, UnderWay, MaxTunnels, crowd)
          BY DEF LimitsInv
        <4>2. crowd' = Larger(crowd, Cardinality(UnderWay'))
          BY <2>2 DEF LimitNext
        <4> QED
          BY <3>3, <4>1, <4>2, MovesKeepLimit DEF CapMoves
      <3>5. ASSUME NEW ip \in Addresses
            PROVE  /\ crowdOf'[ip] = Larger(crowdOf[ip], Cardinality(UnderWayOf(ip)'))
                   /\ WithinLimit(EntriesOfIp(ip)', UnderWayOf(ip)', MaxPerIp, crowdOf'[ip])
        <4>1. WithinLimit(EntriesOfIp(ip), UnderWayOf(ip), MaxPerIp, crowdOf[ip])
          BY DEF LimitsInv
        <4>2. crowdOf'[ip] = Larger(crowdOf[ip], Cardinality(UnderWayOf(ip)'))
          BY <2>2 DEF LimitNext
        <4> QED
          BY <3>3, <4>1, <4>2, MovesKeepLimit DEF PerIpMoves
      <3>6. crowdOf' \in [Addresses -> Nat]
        <4>1. \A ip \in Addresses : crowdOf'[ip] \in Nat
          BY <3>5 DEF WithinLimit
        <4>2. crowdOf' = [ip \in Addresses |-> crowdOf'[ip]]
          BY <2>2 DEF LimitNext
        <4> QED
          BY <4>1, <4>2
      <3> QED
        BY <3>2, <3>4, <3>5, <3>6 DEF LimitsInv
    <2> QED
      BY <2>1, <2>2
  <1> QED
    BY <1>1, <1>2, PTL DEF LimitSpec

(***************************************************************************)
(* --max-tunnels is exceeded by fewer tunnels than were being registered   *)
(* at once, whatever the number of connections; it holds when they come    *)
(* one by one.                                                             *)
(***************************************************************************)
THEOREM CapIsExceededByRacesOnly == LimitSpec => []CapExceededByRacesOnly
  <1>1. LimitsInv => CapExceededByRacesOnly
    <2> SUFFICES ASSUME LimitsInv, MaxTunnels > 0
                 PROVE  Cardinality(Entries) < MaxTunnels + crowd
      BY DEF CapExceededByRacesOnly
    <2>1. WithinLimit(Entries, UnderWay, MaxTunnels, crowd)
      BY DEF LimitsInv
    <2>2. Cardinality(Entries) \in Nat /\ Cardinality(UnderWay) \in Nat
      BY <2>1, FS_CardinalityType DEF WithinLimit
    <2> QED
      BY <2>1, <2>2 DEF WithinLimit
  <1> QED
    BY <1>1, LimitsInvariant, PTL

(***************************************************************************)
(* So is --max-tunnels-per-ip, address by address.                         *)
(***************************************************************************)
THEOREM PerIpIsExceededByRacesOnly == LimitSpec => []PerIpExceededByRacesOnly
  <1>1. LimitsInv => PerIpExceededByRacesOnly
    <2> SUFFICES ASSUME LimitsInv, MaxPerIp > 0, NEW ip \in Addresses
                 PROVE  Cardinality(EntriesOfIp(ip)) < MaxPerIp + crowdOf[ip]
      BY DEF PerIpExceededByRacesOnly
    <2>1. WithinLimit(EntriesOfIp(ip), UnderWayOf(ip), MaxPerIp, crowdOf[ip])
      BY DEF LimitsInv
    <2>2. Cardinality(EntriesOfIp(ip)) \in Nat /\ Cardinality(UnderWayOf(ip)) \in Nat
      BY <2>1, FS_CardinalityType DEF WithinLimit
    <2> QED
      BY <2>1, <2>2 DEF WithinLimit
  <1> QED
    BY <1>1, LimitsInvariant, PTL

(***************************************************************************)
(* Both limits together.                                                   *)
(***************************************************************************)
THEOREM LimitsAreExceededByRacesOnly == LimitSpec => []LimitsExceededByRacesOnly
  <1>1. CapExceededByRacesOnly /\ PerIpExceededByRacesOnly => LimitsExceededByRacesOnly
    BY DEF LimitsExceededByRacesOnly
  <1> QED
    BY <1>1, CapIsExceededByRacesOnly, PerIpIsExceededByRacesOnly, PTL

-----------------------------------------------------------------------------
(***************************************************************************)
(* The client and the registry.                                            *)
(***************************************************************************)

(***************************************************************************)
(* Nothing is dialled at the start.                                        *)
(***************************************************************************)
LEMMA ClientInit == CInit => ClientInv
  <1> SUFFICES ASSUME CInit PROVE ClientInv
    OBVIOUS
  <1>1. RegistryInv /\ ~stopping
    BY InitInv DEF CInit, Init
  <1>2. CTypeOK
    BY DEF CInit, CTypeOK, Phases
  <1>3. SlotsFit /\ AnswersFit
    BY DEF CInit, Init, SlotsFit, AnswersFit
  <1>4. SessionFits /\ ExitJustified
    BY DEF CInit, SessionFits, ExitJustified
  <1> QED
    BY <1>1, <1>2, <1>3, <1>4 DEF ClientInv

(***************************************************************************)
(* A step of the handler of c moves only c; it asks for nothing but the    *)
(* client's key, does not act after its end, and never takes an answer     *)
(* back.                                                                   *)
(***************************************************************************)
LEMMA HandlerFrame ==
  ASSUME ClientInv, NEW c \in Mine, HandlerOf(c)
  PROVE  /\ Handler(c) /\ c \in dialled /\ pc[c] # "done"
         /\ \A d \in Conns \ {c} : pc'[d] = pc[d] /\ key'[d] = key[d] /\ reply'[d] = reply[d]
         /\ key'[c] \in {NoKey, myKey}
         /\ reply[c] \notin {"refused"} /\ (reply[c] = "registered" => reply'[c] = "registered")
         /\ reply'[c] = "refused" => pc'[c] = "done"
         /\ reply'[c] = "registered" =>
              pc'[c] \in {"publish", "serve", "ping", "close", "untrack", "remove", "done"}
         /\ UNCHANGED stopping
  <1>1. /\ c \in Conns /\ c \in dialled /\ myKey \in Keys \cup {AnyPort}
        /\ pc \in [Conns -> Stages] /\ key \in [Conns -> Keys \cup {NoKey, AnyPort}]
        /\ reply \in [Conns -> {"none", "refused", "registered", "lost"}]
        /\ key[c] \in {NoKey, myKey} /\ key[c] # AnyPort
        /\ reply[c] = "refused" => pc[c] = "done"
        /\ reply[c] = "registered" =>
             pc[c] \in {"publish", "serve", "ping", "close", "untrack", "remove", "done"}
        /\ pc[c] # "pick"
    BY ClientAssumption DEF HandlerOf, ClientInv, RegistryInv, TypeOK, CTypeOK, SlotsFit,
           AnswersFit, StageFitsKey
  <1>2. Handler(c)
    BY <1>1 DEF HandlerOf, Handler
  <1> USE <1>1 DEF Goto, Answer
  <1> DEFINE Framed ==
         /\ pc[c] # "done"
         /\ \A d \in Conns \ {c} : pc'[d] = pc[d] /\ key'[d] = key[d] /\ reply'[d] = reply[d]
         /\ key'[c] \in {NoKey, myKey}
         /\ reply[c] \notin {"refused"} /\ (reply[c] = "registered" => reply'[c] = "registered")
         /\ reply'[c] = "refused" => pc'[c] = "done"
         /\ reply'[c] = "registered" =>
              pc'[c] \in {"publish", "serve", "ping", "close", "untrack", "remove", "done"}
         /\ UNCHANGED stopping
  <1> SUFFICES Framed
    BY <1>2
  <1>3. CASE HandshakeFails(c)
    BY <1>3 DEF HandshakeFails
  <1>4. CASE Register(c, myKey)
    BY <1>4 DEF Register
  <1>5. CASE CheckPerIp(c)
    BY <1>5 DEF CheckPerIp, Admit
  <1>6. CASE CheckCap(c)
    BY <1>6 DEF CheckCap, Admit
  <1>7. CASE RefuseName(c) \/ SendTaken(c)
    BY <1>7 DEF RefuseName, SendTaken
  <1>8. CASE InsertHttp(c) \/ FindTaken(c)
    BY <1>8 DEF InsertHttp, FindTaken
  <1>9. CASE BindFails(c) \/ Bind(c) \/ Track(c)
    BY <1>9 DEF BindFails, Bind, Track
  <1>10. CASE SendRegistered(c)
    BY <1>10 DEF SendRegistered
  <1>11. CASE RegisteredLost(c)
    BY <1>11 DEF RegisteredLost
  <1>12. CASE Publish(c) \/ PingTick(c) \/ PingSent(c)
    BY <1>12 DEF Publish, PingTick, PingSent
  <1>13. CASE Wake(c) \/ ReadEof(c) \/ PingFails(c)
    BY <1>13 DEF Wake, ReadEof, PingFails, Leave
  <1>14. CASE CloseListener(c) \/ Untrack(c) \/ Remove(c)
    BY <1>14 DEF CloseListener, Untrack, Remove
  <1> HIDE DEF Framed
  <1> QED
    BY <1>3, <1>4, <1>5, <1>6, <1>7, <1>8, <1>9, <1>10, <1>11, <1>12, <1>13, <1>14
       DEF HandlerOf

(***************************************************************************)
(* A step of a handler.                                                    *)
(***************************************************************************)
LEMMA ClientHandlerInv ==
  ASSUME ClientInv, NEW c \in Mine, HandlerOf(c), UNCHANGED <<clientVars, dialled, tries>>
  PROVE  ClientInv'
  <1>1. c \in Conns /\ Handler(c) /\ c \in dialled /\ pc[c] # "done"
    BY HandlerFrame, ClientAssumption
  <1>2. RegistryInv'
    BY <1>1, HandlerInv DEF ClientInv
  <1>3. ~stopping'
    BY HandlerFrame DEF ClientInv
  <1>4. CTypeOK'
    BY DEF ClientInv, CTypeOK, clientVars
  <1>5. SlotsFit'
    BY <1>1, HandlerFrame DEF ClientInv, SlotsFit, clientVars
  <1>6. AnswersFit'
    BY HandlerFrame DEF ClientInv, AnswersFit
  <1>7. \A d \in Conns : /\ reply[d] = "registered" => reply'[d] = "registered"
                         /\ reply[d] = "refused" => reply'[d] = "refused"
    BY HandlerFrame
  <1>8. cur \in dialled => cur \in Conns
    BY ClientAssumption DEF ClientInv, CTypeOK
  <1>9. SessionFits'
    BY <1>7, <1>8 DEF ClientInv, SessionFits, clientVars
  <1>10. ExitJustified'
    BY <1>7, <1>8 DEF ClientInv, SessionFits, ExitJustified, clientVars
  <1> QED
    BY <1>2, <1>3, <1>4, <1>5, <1>6, <1>9, <1>10 DEF ClientInv

(***************************************************************************)
(* A step that leaves handlers and answers alone.                          *)
(***************************************************************************)
LEMMA ElsewhereInv ==
  ASSUME ClientInv, RegistryInv', UNCHANGED <<pc, key, reply, stopping, clientVars, dialled, tries>>
  PROVE  ClientInv'
  BY DEF ClientInv, CTypeOK, SlotsFit, AnswersFit, SessionFits, ExitJustified, clientVars

(***************************************************************************)
(* Links, requests and expiry.                                             *)
(***************************************************************************)
LEMMA ClientRelayStepInv ==
  ASSUME ClientInv, RelayStep
  PROVE  ClientInv'
  <1>1. RegistryInv /\ UNCHANGED <<clientVars, dialled, tries>> /\ dialled \subseteq Conns
    BY ClientAssumption DEF ClientInv, CTypeOK, RelayStep
  <1>2. ASSUME NEW c \in Mine, HandlerOf(c) PROVE ClientInv'
    BY <1>1, <1>2, ClientHandlerInv
  <1>3. ASSUME NEW c \in dialled, LinkStalls(c) \/ LinkDrops(c) PROVE ClientInv'
    <2>1. RegistryInv'
      BY <1>1, <1>3, LinkInv
    <2>2. UNCHANGED <<pc, key, reply, stopping>>
      BY <1>3 DEF LinkStalls, LinkDrops, handlerVars
    <2> QED
      BY <1>1, <2>1, <2>2, ElsewhereInv
  <1>4. ASSUME NEW t \in Tasks, Request(t) PROVE ClientInv'
    <2>1. RegistryInv'
      BY <1>1, <1>4, RequestInv
    <2>2. UNCHANGED <<pc, key, reply, stopping>>
      BY <1>4 DEF Request, RequestStart, RequestEnd, EvictOne, EvictIp, EvictSignal,
           EvictEnd, StartTask, EndTask, handlerVars
    <2> QED
      BY <1>1, <2>1, <2>2, ElsewhereInv
  <1>5. CASE Expire
    <2>1. PICK K \in SUBSET Entries : Evict(K)
      BY <1>5 DEF Expire
    <2>2. ExpiryOn /\ UNCHANGED stopping /\ stopping' \in BOOLEAN
      BY <1>1, <1>5 DEF Expire, RegistryInv, TypeOK
    <2>3. RegistryInv'
      BY <1>1, <2>1, <2>2, EvictInv
    <2>4. UNCHANGED <<pc, key, reply>>
      BY <2>1 DEF Evict, handlerVars
    <2> QED
      BY <1>1, <2>2, <2>3, <2>4, ElsewhereInv
  <1> QED
    BY <1>2, <1>3, <1>4, <1>5 DEF RelayStep

(***************************************************************************)
(* The heart of the argument: the slot of a new connection is one that     *)
(* nothing in the relay refers to, so no entry, socket or mutex is handed  *)
(* to a connection that never registered for it.                           *)
(***************************************************************************)
LEMMA ConnectInv ==
  ASSUME ClientInv, NEW c \in Mine, Connect(c)
  PROVE  ClientInv'
  <1>1. /\ RegistryInv /\ ~stopping /\ CTypeOK /\ SlotsFit /\ AnswersFit
        /\ c \in Conns /\ Mine \subseteq Conns
    BY ClientAssumption DEF ClientInv
  <1>2. pc[c] \in {"hello", "done"} /\ \A k \in Keys : tunnels[k] # c
    <2>1. CASE c \notin dialled
      <3>1. pc[c] = "hello"
        BY <1>1, <2>1 DEF SlotsFit
      <3> QED
        BY <1>1, <3>1 DEF RegistryInv, EntryFitsHandler, HttpHolding
    <2>2. CASE pc[c] = "done" /\ ~Referenced(c)
      BY <2>2 DEF Referenced
    <2> QED
      BY <2>1, <2>2 DEF Connect, Fresh
  <1>3. /\ phase' = "await" /\ cur' = c /\ dialled' = dialled \cup {c}
        /\ pc' = [pc EXCEPT ![c] = "hello"] /\ key' = [key EXCEPT ![c] = NoKey]
        /\ link' = [link EXCEPT ![c] = "up"] /\ reply' = [reply EXCEPT ![c] = "none"]
        /\ signalled' = signalled \ {c}
        /\ UNCHANGED <<tunnels, tcp_ports, listening, lock, task, holds, stopping, myKey,
                       attempts, tries>>
    BY DEF Connect, taskVars
  <1>4. TypeOK /\ StageFitsKey /\ EntryFitsHandler /\ ListenerOwned /\ HttpNameOwned
    BY <1>1 DEF RegistryInv
  <1>5. TypeOK'
    BY <1>1, <1>2, <1>3, <1>4 DEF TypeOK, Stages
  <1>6. StageFitsKey' /\ ListenerOwned' /\ HttpNameOwned'
    BY <1>1, <1>3, <1>4 DEF TypeOK, StageFitsKey, ListenerOwned, HttpNameOwned, TcpBound,
           HttpHolding
  <1>7. EntryFitsHandler'
    BY <1>1, <1>2, <1>3, <1>4 DEF TypeOK, EntryFitsHandler
  <1>8. CTypeOK'
    BY <1>1, <1>3 DEF CTypeOK, Phases
  <1>9. SlotsFit' /\ AnswersFit'
    BY <1>1, <1>3, <1>4 DEF SlotsFit, AnswersFit, TypeOK
  <1>10. SessionFits' /\ ExitJustified'
    BY <1>3 DEF SessionFits, ExitJustified
  <1> QED
    BY <1>1, <1>3, <1>5, <1>6, <1>7, <1>8, <1>9, <1>10 DEF ClientInv, RegistryInv

(***************************************************************************)
(* The other steps of the client only read the relay's state.              *)
(***************************************************************************)
LEMMA ClientOwnInv ==
  ASSUME ClientInv, UNCHANGED <<vars, dialled>>,
         ConnectFails \/ GetRegistered \/ GetError \/ GetNothing \/ SessionEnds
  PROVE  ClientInv'
  <1>1. RegistryInv' /\ ~stopping' /\ AnswersFit'
    BY DEF ClientInv, vars, RegistryInv, TypeOK, StageFitsKey, EntryFitsHandler,
           ListenerOwned, HttpNameOwned, AnswersFit
  <1>2. UNCHANGED <<myKey, dialled, pc, key, reply>>
    BY DEF vars, ConnectFails, GetRegistered, GetError, GetNothing, SessionEnds, EndOk, EndErr
  <1>3. SlotsFit'
    BY <1>2 DEF ClientInv, SlotsFit
  <1>4. CTypeOK /\ SessionFits /\ ExitJustified
    BY DEF ClientInv
  <1>5. ASSUME CTypeOK' /\ SessionFits' /\ ExitJustified' PROVE ClientInv'
    BY <1>1, <1>3, <1>5 DEF ClientInv
  <1>6. CASE EndErr
    BY <1>2, <1>4, <1>5, <1>6, ClientAssumption
       DEF EndErr, CTypeOK, SessionFits, ExitJustified, Phases
  <1>7. CASE EndOk
    BY <1>2, <1>4, <1>5, <1>7 DEF EndOk, CTypeOK, SessionFits, ExitJustified, Phases
  <1>8. CASE GetRegistered
    BY <1>2, <1>4, <1>5, <1>8
       DEF GetRegistered, CTypeOK, SessionFits, ExitJustified, Phases
  <1>9. CASE GetError
    BY <1>2, <1>4, <1>5, <1>9 DEF GetError, CTypeOK, SessionFits, ExitJustified, Phases
  <1> QED
    BY <1>6, <1>7, <1>8, <1>9 DEF ConnectFails, GetNothing, SessionEnds

(***************************************************************************)
(* ctrl-c takes the link of the session down and ends the client.          *)
(***************************************************************************)
LEMMA CtrlCInv ==
  ASSUME ClientInv, CtrlC
  PROVE  ClientInv'
  <1>1. /\ phase' = "stopped" /\ link' \in [Conns -> {"up", "stalled", "down"}]
        /\ UNCHANGED <<tunnels, tcp_ports, listening, lock, pc, key, reply, signalled, task,
                       holds, stopping, myKey, cur, attempts, dialled, tries>>
    BY DEF CtrlC, handlerVars, taskVars, ClientInv, RegistryInv, TypeOK
  <1>2. RegistryInv'
    BY <1>1 DEF ClientInv, RegistryInv, TypeOK, StageFitsKey, EntryFitsHandler,
           ListenerOwned, HttpNameOwned
  <1> QED
    BY <1>1, <1>2 DEF ClientInv, CTypeOK, SlotsFit, AnswersFit, SessionFits, ExitJustified,
           Phases

(***************************************************************************)
(* The registry's invariant survives clients that reconnect, and the       *)
(* client is where the relay's answers have put it.                        *)
(***************************************************************************)
THEOREM ClientInvariant == CSpec => []ClientInv
  <1>1. ClientInv /\ [CNext]_cvars => ClientInv'
    <2> SUFFICES ASSUME ClientInv, [CNext]_cvars PROVE ClientInv'
      OBVIOUS
    <2>1. CASE UNCHANGED cvars
      <3>1. UNCHANGED <<pc, key, reply, stopping, clientVars, dialled, tries>> /\ UNCHANGED vars
        BY <2>1 DEF cvars, vars
      <3>2. RegistryInv'
        BY <3>1, NextInv DEF ClientInv
      <3> QED
        BY <3>1, <3>2, ElsewhereInv
    <2>2. CASE ClientStep
      <3>1. ASSUME NEW c \in Mine, Connect(c) PROVE ClientInv'
        BY <3>1, ConnectInv
      <3>2. CASE ConnectFails \/ GetRegistered \/ GetError \/ GetNothing \/ SessionEnds
        BY <3>2, ClientOwnInv DEF ConnectFails, GetRegistered, GetError, GetNothing, SessionEnds
      <3> QED
        BY <2>2, <3>1, <3>2 DEF ClientStep
    <2> QED
      BY <2>1, <2>2, CtrlCInv, ClientRelayStepInv DEF CNext, Over
  <1> QED
    BY <1>1, ClientInit, PTL DEF CSpec

(***************************************************************************)
(* The client exits for spent retries or for an Error frame, never for     *)
(* anything else.                                                          *)
(***************************************************************************)
THEOREM ExitsAreJustified == CSpec => []ExitJustified
  <1>1. ClientInv => ExitJustified
    BY DEF ClientInv
  <1> QED
    BY <1>1, ClientInvariant, PTL

(***************************************************************************)
(* A client that serves a name is the one the relay routes the name to,    *)
(* however often it has reconnected: its handler was told Registered and   *)
(* has not ended, so it holds the name, and names are owned.               *)
(***************************************************************************)
THEOREM ReadyClientsAreRouted == CSpec => []ReadyMeansRouted
  <1>1. ClientInv => ReadyMeansRouted
    <2> SUFFICES ASSUME ClientInv, phase = "serve", myKey \in Subs, pc[cur] # "done", ~ExpiryOn
                 PROVE  tunnels[myKey] = cur
      BY DEF ReadyMeansRouted
    <2>1. cur \in Conns /\ reply[cur] = "registered"
      BY ClientAssumption DEF ClientInv, CTypeOK, SessionFits
    <2>2. pc[cur] \in {"publish", "serve", "ping", "close", "untrack", "remove"}
      BY <2>1 DEF ClientInv, AnswersFit
    <2>3. key[cur] = myKey
      BY <2>1, <2>2 DEF ClientInv, RegistryInv, StageFitsKey, SlotsFit
    <2>4. pc[cur] \in HttpHolding
      BY <2>1, <2>2, <2>3 DEF ClientInv, RegistryInv, StageFitsKey, HttpHolding
    <2> QED
      BY <2>1, <2>3, <2>4 DEF ClientInv, RegistryInv, HttpNameOwned
  <1> QED
    BY <1>1, ClientInvariant, PTL

(***************************************************************************)
(* Reconnecting does not weaken what the registry promises: only the entry *)
(* of a connection that was never told Registered outlives its handler.    *)
(***************************************************************************)
THEOREM ReconnectingLeavesOnlyUnconfirmed == CSpec => []OrphansUnconfirmed
  <1>1. ClientInv => OrphansUnconfirmed
    BY DEF ClientInv, RegistryInv, EntryFitsHandler, OrphansUnconfirmed
  <1> QED
    BY <1>1, ClientInvariant, PTL
=============================================================================
