---------------------------- MODULE ClientRelay ----------------------------
(***************************************************************************)
(* A client process (crates/seamless-client/src/main.rs) in composition    *)
(* with the relay's registry: the reconnect loop of main, the sessions of  *)
(* run_session, and the handlers that serve them.                          *)
(*                                                                         *)
(* The client asks for the same key in every session.  Its connections are *)
(* slots of the registry's Conns: a slot whose handler has ended and whose *)
(* entry nobody refers to is used for the next connection.  The client and *)
(* the relay notice a broken path independently: `link` is the relay's     *)
(* view, and a stalled link may already be over for the client.  The relay *)
(* is not shut down while it is watched here.                              *)
(***************************************************************************)
EXTENDS TunnelRegistry

CONSTANTS
    Mine,        \* the slots of this client
    MyKeys,      \* the keys it may have been started for
    MaxRetries   \* --max-retries, 0 = unlimited

ASSUME ClientAssumption ==
    Mine \subseteq Conns /\ MyKeys \subseteq Keys /\ MaxRetries \in Nat

VARIABLES
    myKey,    \* the subdomain or port of the command line
    phase,    \* where main is: see Phases
    cur,      \* the connection of the session under way, NoConn for none
    attempts, \* sessions that failed since the last clean end
    dialled,  \* slots the relay has accepted a connection in
    tries,    \* history: consecutive sessions that ended before Registered
    blocker   \* history: whose entry made the relay answer 409 in this session

clientVars == <<myKey, phase, cur, attempts>>
cvars == <<vars, clientVars, dialled, tries, blocker>>

Phases == {"dial",   \* about to connect, after the backoff if there is one
           "await",  \* Register sent, waiting for the reply
           "serve",  \* in the accept_stream loop
           "gaveUp", "refused", "stopped"}  \* exited: retries spent, PERMANENT, ctrl-c

Exited == phase \in {"gaveUp", "refused", "stopped"}

CInit ==
    /\ Init
    /\ myKey \in MyKeys
    /\ phase = "dial" /\ cur = NoConn /\ attempts = 0
    /\ dialled = {} /\ tries = 0 /\ blocker = NoConn

\* The slot serves no connection and nothing in the relay refers to it.
Fresh(c) == c \notin dialled \/ (pc[c] = "done" /\ ~Referenced(c))

\* The relay's end of the connection is gone: the handler has returned, and so
\* has every request that held the entry and its mux.
ClosedByRelay(c) == pc[c] = "done" /\ ~Referenced(c)

\* The transport reports the path dead, or the relay closed the connection.
ConnectionOver(c) == link[c] # "up" \/ ClosedByRelay(c)

-----------------------------------------------------------------------------
(***************************************************************************)
(* main: what a session's result does to the loop.                         *)
(***************************************************************************)

\* Ok(()): attempts = 0, reconnect at once.
EndOk ==
    /\ attempts' = 0 /\ phase' = "dial" /\ cur' = NoConn
    /\ tries' = 0
    /\ UNCHANGED myKey

\* Err without PERMANENT: count, give up at --max-retries, or sleep and retry.
\* The delay of the backoff is not modelled, only that it passes.
EndErr ==
    /\ attempts' = attempts + 1
    /\ phase' = IF MaxRetries # 0 /\ attempts' >= MaxRetries THEN "gaveUp" ELSE "dial"
    /\ cur' = NoConn
    /\ tries' = tries + 1
    /\ UNCHANGED myKey

-----------------------------------------------------------------------------
(***************************************************************************)
(* run_session.                                                            *)
(***************************************************************************)

ConnectFails ==
    /\ phase = "dial"
    /\ EndErr
    /\ UNCHANGED <<vars, dialled, blocker>>

\* The handshake is over and Register is on its way; the accept loop spawns a
\* handler for the new connection.
Connect(c) ==
    /\ phase = "dial" /\ c \in Mine /\ Fresh(c)
    /\ phase' = "await" /\ cur' = c /\ dialled' = dialled \cup {c}
    /\ pc' = [pc EXCEPT ![c] = "hello"]
    /\ key' = [key EXCEPT ![c] = NoKey]
    /\ link' = [link EXCEPT ![c] = "up"]
    /\ reply' = [reply EXCEPT ![c] = "none"]
    /\ signalled' = signalled \ {c}
    /\ blocker' = NoConn
    /\ UNCHANGED <<tunnels, tcp_ports, listening, lock, taskVars, stopping, myKey,
                   attempts, tries>>

GetRegistered ==
    /\ phase = "await" /\ reply[cur] = "registered"
    /\ phase' = "serve"
    /\ UNCHANGED <<vars, myKey, cur, attempts, dialled, tries, blocker>>

\* Any Error frame is PERMANENT.
GetError ==
    /\ phase = "await" /\ reply[cur] = "refused" /\ link[cur] # "down"
    /\ phase' = "refused"
    /\ UNCHANGED <<vars, myKey, cur, attempts, dialled, tries, blocker>>

\* Mutant of GetNothing: a handler that returns without an answer goes unnoticed.
GetNothingOnLinkOnly ==
    /\ phase = "await" /\ link[cur] # "up"
    /\ EndErr /\ blocker' = NoConn
    /\ UNCHANGED <<vars, dialled>>

\* The control stream ends before an answer.
GetNothing ==
    /\ phase = "await"
    /\ link[cur] # "up" \/ (pc[cur] = "done" /\ reply[cur] # "refused")
    /\ EndErr /\ blocker' = NoConn
    /\ UNCHANGED <<vars, dialled>>

\* Mutant of SessionEnds: the counter is not reset.
SessionEndsUnreset ==
    /\ phase = "serve" /\ ConnectionOver(cur)
    /\ phase' = "dial" /\ cur' = NoConn /\ tries' = 0
    /\ UNCHANGED <<vars, myKey, attempts, dialled, blocker>>

\* accept_stream returns None.  The end of the control stream alone ends only
\* the control task, which changes nothing here.
SessionEnds ==
    /\ phase = "serve" /\ ConnectionOver(cur)
    /\ EndOk
    /\ UNCHANGED <<vars, dialled, blocker>>

\* ctrl-c drops the session and its connection.
CtrlC ==
    /\ ~Exited
    /\ phase' = "stopped"
    /\ link' = [c \in Conns |-> IF c = cur /\ pc[c] # "done" THEN "down" ELSE link[c]]
    /\ UNCHANGED <<tunnels, tcp_ports, listening, handlerVars, signalled, taskVars,
                   stopping, myKey, cur, attempts, dialled, tries, blocker>>

ClientStep ==
    \/ ConnectFails \/ (\E c \in Mine : Connect(c))
    \/ GetRegistered \/ GetError \/ GetNothing \/ SessionEnds

-----------------------------------------------------------------------------
(***************************************************************************)
(* The relay.  Its handlers read what this client sends: always the same   *)
(* Register.                                                               *)
(***************************************************************************)

HandlerOf(c) ==
    /\ c \in dialled
    /\ \/ /\ \/ HandshakeFails(c) \/ Register(c, myKey)
             \/ CheckPerIp(c) \/ CheckCap(c)
             \/ RefuseName(c) \/ InsertHttp(c) \/ SendTaken(c)
             \/ BindFails(c) \/ Bind(c) \/ Track(c)
             \/ SendRegistered(c) \/ RegisteredLost(c) \/ Publish(c)
             \/ Wake(c) \/ ReadEof(c)
             \/ PingTick(c) \/ PingSent(c) \/ PingFails(c)
             \/ CloseListener(c) \/ Untrack(c) \/ Remove(c)
          /\ UNCHANGED blocker
       \/ FindTaken(c) /\ blocker' = IF c = cur THEN tunnels[key[c]] ELSE blocker

RelayStep ==
    /\ \/ \E c \in Mine : HandlerOf(c)
       \/ /\ \/ \E c \in dialled : LinkStalls(c) \/ LinkDrops(c)
             \/ \E t \in Tasks : Request(t)
             \/ Expire
          /\ UNCHANGED blocker
    /\ UNCHANGED <<clientVars, dialled, tries>>

Over == Exited /\ (\A c \in dialled : pc[c] = "done") /\ UNCHANGED cvars

CNext ==
    \/ ClientStep
    \/ CtrlC
    \/ RelayStep
    \/ Over

CSpec == CInit /\ [][CNext]_cvars

(***************************************************************************)
(* Fairness: the registry's, lifted; the 30 s timeout that ends "hello";   *)
(* and the client's own steps.  That a session ends on a path that is down *)
(* is the transport's part: it reports a dead path some time.              *)
(***************************************************************************)
Lifted(A) == A /\ UNCHANGED <<clientVars, dialled, tries>>

CFairness ==
    /\ WF_cvars(ClientStep)
    /\ \A c \in Mine :
        /\ WF_cvars(Lifted(HandlerOf(c) /\ pc[c] # "serve"))
        /\ WF_cvars(Lifted(PingTick(c) /\ UNCHANGED blocker))
        /\ SF_cvars(Lifted(Wake(c) /\ UNCHANGED blocker))
        /\ SF_cvars(Lifted(ReadEof(c) /\ UNCHANGED blocker))
    /\ \A t \in Tasks : WF_cvars(Lifted((EvictSignal(t) \/ EvictEnd(t)) /\ UNCHANGED blocker))

CFairSpec == CSpec /\ CFairness

-----------------------------------------------------------------------------
\* The client goes on until it has an answer: under every interleaving of its
\* sessions with the handlers of its older ones, with links that stall or
\* drop and with admin disconnects, it is again and again serving, or it has
\* exited.  No session hangs between connect and reply.  (The relay of the run
\* has no --tunnel-max-age, the default: nothing expires.)
ServesOrExits == []<>(phase = "serve" \/ Exited)

\* A request holds the entry of the session the client is in.
HeldUp == phase = "serve" /\ \E t \in Tasks : task[t] = "request" /\ cur \in holds[t]

\* A client whose handler has ended (a disconnect, a ping that failed) leaves
\* its session, although only the end of the connection tells it: the handler
\* took the entry out of the map, so no request or disconnect finds it any
\* more, and once those that hold it are over the connection closes.  Only a
\* request that never ends keeps the client in a session nobody serves.
EndedTunnelNoticed ==
    \/ phase = "serve" /\ pc[cur] = "done" ~> phase # "serve"
    \/ <>[]HeldUp

\* The client gives up only for a reason: after --max-retries sessions in a row
\* that ended before Registered, or when the relay answered its last Register
\* with an Error.
ExitJustified ==
    /\ phase = "gaveUp" => tries >= MaxRetries
    /\ phase = "refused" => reply[cur] = "refused"

\* "seamless tunnel ready": while the client serves a name and its handler has
\* not ended, the relay routes the name to the session the client is in, and
\* not to one of its older connections.  (Expiry voids it.)
ReadyMeansRouted ==
    /\ phase = "serve" /\ myKey \in Subs /\ pc[cur] # "done"
    /\ ~ExpiryOn
    => tunnels[myKey] = cur

(***************************************************************************)
(* The inductive invariant behind the two.                                 *)
(***************************************************************************)

CTypeOK ==
    /\ myKey \in MyKeys /\ phase \in Phases
    /\ cur \in Mine \cup {NoConn} /\ dialled \subseteq Mine
    /\ attempts \in Nat /\ tries = attempts

\* A slot the relay has not accepted a connection in is as it was; the others
\* have asked for the client's key or nothing.
SlotsFit ==
    /\ \A c \in Conns \ dialled : pc[c] = "hello"
    /\ \A c \in Conns : key[c] \in {NoKey, myKey}

\* An Error frame is a handler's last act; Registered is followed by serving
\* and the cleanup.
AnswersFit ==
    \A c \in Conns :
        /\ reply[c] = "refused" => pc[c] = "done"
        /\ reply[c] = "registered" =>
             pc[c] \in {"publish", "serve", "ping", "close", "untrack", "remove", "done"}

\* The client is where the answers it got have put it.
SessionFits ==
    /\ phase \in {"await", "serve", "refused"} => cur \in dialled
    /\ phase = "serve" => reply[cur] = "registered"

ClientInv ==
    /\ RegistryInv /\ ~stopping
    /\ CTypeOK /\ SlotsFit /\ AnswersFit /\ SessionFits /\ ExitJustified

\* README.md: "The tunnel stays up. If the connection drops, the client
\* reconnects automatically with exponential backoff": the client's own older
\* session never makes it give up.
OwnEntryNotFatal == phase = "refused" => blocker \notin Mine
=============================================================================
