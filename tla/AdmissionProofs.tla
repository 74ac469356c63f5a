-------------------------- MODULE AdmissionProofs --------------------------
(***************************************************************************)
(* The sliding window holds for every limit, window length and number of   *)
(* addresses; the doors that share it implement it, pass nobody whom the   *)
(* lists refuse, and count the forwarding tasks exactly, for every set of  *)
(* connections and lists.                                                  *)
(***************************************************************************)
EXTENDS Admission, FiniteSetTheorems, TLAPS

USE LimiterAssumption

(***************************************************************************)
(* Any part of 1..n is finite and has at most n elements.                  *)
(***************************************************************************)
LEMMA PositionsFinite ==
  ASSUME NEW n \in Nat, NEW S \in SUBSET (1..n)
  PROVE  IsFiniteSet(S) /\ Cardinality(S) \in Nat
  <1>1. 1 \in Int /\ n \in Int
    OBVIOUS
  <1>2. IsFiniteSet(1..n)
    BY <1>1, FS_Interval
  <1>3. IsFiniteSet(S)
    BY <1>2, FS_Subset
  <1> QED
    BY <1>3, FS_CardinalityType

(***************************************************************************)
(* The initial state has empty queues and an empty history.                *)
(***************************************************************************)
LEMMA LimiterInit == Init => LimiterInv
  <1> SUFFICES ASSUME Init PROVE LimiterInv
    OBVIOUS
  <1>1. TypeOK /\ Chronological /\ NoBurst
    BY DEF Init, TypeOK, Chronological, NoBurst
  <1>2. QueueComplete
    BY FS_EmptySet DEF Init, QueueComplete, InWindow
  <1> QED
    BY <1>1, <1>2 DEF LimiterInv

(***************************************************************************)
(* A tick only shrinks the window.                                         *)
(***************************************************************************)
LEMMA TickInv == LimiterInv /\ Tick => LimiterInv'
  <1> SUFFICES ASSUME LimiterInv, Tick PROVE LimiterInv'
    OBVIOUS
  <1> USE DEF LimiterInv, Tick, TypeOK
  <1>1. TypeOK' /\ Chronological' /\ NoBurst'
    BY DEF Chronological, NoBurst
  <1>2. \A ip \in Ips : InWindow(ip)' \subseteq InWindow(ip)
    BY DEF InWindow
  <1>3. QueueComplete'
    BY <1>2 DEF QueueComplete
  <1> QED
    BY <1>1, <1>3

(***************************************************************************)
(* Pruning keeps every element that still counts.                          *)
(***************************************************************************)
LEMMA RetainedFacts ==
  ASSUME LimiterInv, NEW ip \in Ips
  PROVE  /\ Retained(ip) = InWindow(ip)
         /\ Retained(ip) \in SUBSET (1..Len(admitted[ip]))
         /\ IsFiniteSet(Retained(ip)) /\ Cardinality(Retained(ip)) \in Nat
         /\ Cardinality(Retained(ip)) <= Max
  <1>1. Len(admitted[ip]) \in Nat
    BY DEF LimiterInv, TypeOK
  <1>2. Retained(ip) = InWindow(ip) /\ Retained(ip) \subseteq queue[ip]
    BY DEF LimiterInv, QueueComplete, Retained, InWindow
  <1>3. queue[ip] \in SUBSET (1..Len(admitted[ip])) /\ Cardinality(queue[ip]) <= Max
    BY DEF LimiterInv, QueueComplete
  <1>4. IsFiniteSet(queue[ip]) /\ Cardinality(queue[ip]) \in Nat
    BY <1>1, <1>3, PositionsFinite
  <1>5. IsFiniteSet(Retained(ip)) /\ Cardinality(Retained(ip)) <= Cardinality(queue[ip])
    BY <1>2, <1>4, FS_Subset
  <1>6. Cardinality(Retained(ip)) \in Nat
    BY <1>5, FS_CardinalityType
  <1> QED
    BY <1>2, <1>3, <1>4, <1>5, <1>6

(***************************************************************************)
(* A refusal prunes the queue and changes nothing else.                    *)
(***************************************************************************)
LEMMA RefuseInv ==
  ASSUME LimiterInv, NEW ip \in Ips, CheckRefuses(ip)
  PROVE  LimiterInv'
  <1> USE DEF LimiterInv, TypeOK
  <1>1. /\ UNCHANGED <<now, admitted>>
        /\ queue' = [queue EXCEPT ![ip] = Retained(ip)]
    BY DEF CheckRefuses
  <1>2. Retained(ip) \in SUBSET (Nat \ {0})
    BY DEF Retained
  <1>3. TypeOK' /\ Chronological' /\ NoBurst'
    BY <1>1, <1>2 DEF Chronological, NoBurst
  <1>4. \A a \in Ips : InWindow(a)' = InWindow(a)
    BY <1>1 DEF InWindow
  <1>5. QueueComplete'
    BY <1>1, <1>4, RetainedFacts DEF QueueComplete
  <1> QED
    BY <1>3, <1>5

(***************************************************************************)
(* The heart of the argument: if the admission Max places back were still  *)
(* in the window, so would be the Max - 1 after it, and the pruned queue   *)
(* would be full.                                                          *)
(***************************************************************************)
LEMMA OldestHasLeft ==
  ASSUME LimiterInv, NEW ip \in Ips, Max > 0,
         Cardinality(Retained(ip)) < Max,
         NEW i \in 1..Len(admitted[ip]), i + Max = Len(admitted[ip]) + 1
  PROVE  now - admitted[ip][i] >= Window
  <1> DEFINE n == Len(admitted[ip])
  <1>1. n \in Nat /\ now \in Nat /\ \A j \in 1..n : admitted[ip][j] \in Nat
    BY DEF LimiterInv, TypeOK
  <1> SUFFICES ASSUME now - admitted[ip][i] < Window PROVE FALSE
    BY <1>1
  <1>2. \A j \in i..n : j \in 1..n /\ admitted[ip][i] <= admitted[ip][j]
    BY <1>1 DEF LimiterInv, Chronological
  <1>3. i..n \subseteq Retained(ip)
    <2>1. \A j \in i..n : j \in 1..n /\ now - admitted[ip][j] < Window
      BY <1>1, <1>2
    <2>2. i..n \subseteq InWindow(ip)
      BY <2>1 DEF InWindow
    <2> QED
      BY <2>2, RetainedFacts
  <1>4. Cardinality(i..n) = Max
    <2>1. i \in Int /\ n \in Int /\ ~(i > n) /\ n - i + 1 = Max
      BY <1>1
    <2> QED
      BY <2>1, FS_Interval
  <1>5. Cardinality(i..n) <= Cardinality(Retained(ip))
    BY <1>3, RetainedFacts, FS_Subset
  <1> QED
    BY <1>4, <1>5, RetainedFacts

(***************************************************************************)
(* An admission keeps the invariant.                                       *)
(***************************************************************************)
LEMMA AdmitInv ==
  ASSUME LimiterInv, NEW ip \in Ips, CheckAdmits(ip)
  PROVE  LimiterInv'
  <1> USE DEF LimiterInv, TypeOK
  <1>1. CASE Max = 0
    BY <1>1 DEF CheckAdmits, Chronological, QueueComplete, NoBurst, InWindow
  <1>2. CASE Max > 0
    <2> DEFINE n == Len(admitted[ip])
    <2>1. /\ UNCHANGED now /\ Cardinality(Retained(ip)) < Max
          /\ admitted' = [admitted EXCEPT ![ip] = Append(@, now)]
          /\ queue' = [queue EXCEPT ![ip] = Retained(ip) \cup {n + 1}]
      BY <1>2 DEF CheckAdmits
    <2>2. n \in Nat /\ admitted[ip] \in Seq(Nat)
      OBVIOUS
    <2>3. /\ Len(admitted'[ip]) = n + 1 /\ admitted'[ip][n + 1] = now
          /\ \A j \in 1..n : admitted'[ip][j] = admitted[ip][j]
          /\ \A a \in Ips \ {ip} : admitted'[a] = admitted[a] /\ queue'[a] = queue[a]
      BY <2>1, <2>2
    <2>4. TypeOK'
      BY <2>1, <2>2 DEF Retained
    <2>5. Chronological'
      BY <2>1, <2>2, <2>3 DEF Chronological
    <2>6. QueueComplete'
      <3>1. InWindow(ip)' \subseteq Retained(ip) \cup {n + 1}
        BY <2>1, <2>2, <2>3, RetainedFacts DEF InWindow
      <3>2. \A a \in Ips \ {ip} : InWindow(a)' = InWindow(a)
        BY <2>1, <2>3 DEF InWindow
      <3>3. Retained(ip) \cup {n + 1} \subseteq 1..(n + 1) /\ n + 1 \notin Retained(ip)
        BY <2>2, RetainedFacts
      <3>4. Cardinality(Retained(ip) \cup {n + 1}) = Cardinality(Retained(ip)) + 1
        BY <3>3, RetainedFacts, FS_AddElement
      <3>5. Cardinality(Retained(ip) \cup {n + 1}) <= Max
        BY <2>1, <3>4, RetainedFacts
      <3> QED
        BY <2>1, <2>3, <3>1, <3>2, <3>3, <3>5 DEF QueueComplete
    <2>7. NoBurst'
      <3> SUFFICES ASSUME NEW a \in Ips, NEW i \in 1..Len(admitted'[a]),
                          i + Max <= Len(admitted'[a])
                   PROVE  admitted'[a][i + Max] - admitted'[a][i] >= Window
        BY <2>1 DEF NoBurst
      <3>1. CASE a # ip
        BY <1>2, <2>3, <3>1 DEF NoBurst
      <3>2. CASE a = ip /\ i + Max <= n
        <4>1. i \in 1..n /\ i + Max \in 1..n
          BY <1>2, <2>2, <2>3, <3>2
        <4>2. admitted[ip][i + Max] - admitted[ip][i] >= Window
          BY <1>2, <3>2, <4>1 DEF NoBurst
        <4> QED
          BY <2>3, <3>2, <4>1, <4>2
      <3>3. CASE a = ip /\ i + Max = n + 1
        <4>1. i \in 1..n
          BY <1>2, <2>2, <2>3, <3>3
        <4>2. now - admitted[ip][i] >= Window
          BY <1>2, <2>1, <3>3, <4>1, OldestHasLeft
        <4> QED
          BY <2>3, <3>3, <4>1, <4>2
      <3> QED
        BY <2>2, <2>3, <3>1, <3>2, <3>3
    <2> QED
      BY <2>4, <2>5, <2>6, <2>7
  <1> QED
    BY <1>1, <1>2

(***************************************************************************)
(* The queue never forgets an admission that counts, in any behaviour.     *)
(***************************************************************************)
THEOREM LimiterInvariant == Spec => []LimiterInv
  <1>1. LimiterInv /\ [Next]_vars => LimiterInv'
    <2> SUFFICES ASSUME LimiterInv, [Next]_vars PROVE LimiterInv'
      OBVIOUS
    <2>1. CASE UNCHANGED vars
      BY <2>1 DEF vars, LimiterInv, TypeOK, Chronological, QueueComplete,
                  NoBurst, InWindow
    <2> QED
      BY <2>1, TickInv, AdmitInv, RefuseInv DEF Next, CheckAndRecord
  <1> QED
    BY <1>1, LimiterInit, PTL DEF Spec

(***************************************************************************)
(* No window of the configured length sees more than Max admissions of an  *)
(* address.                                                                *)
(***************************************************************************)
THEOREM LimiterNoBurst == Spec => []NoBurst
  <1>1. LimiterInv => NoBurst
    BY DEF LimiterInv
  <1> QED
    BY <1>1, LimiterInvariant, PTL

(***************************************************************************)
(* A refused address has used up its window.                               *)
(***************************************************************************)
THEOREM LimiterRefusesOnlyWhenFull == Spec => []RefusedOnlyWhenFull
  <1>1. Init => RefusedOnlyWhenFull
    BY DEF Init, NoCall, RefusedOnlyWhenFull
  <1>2. LimiterInv /\ RefusedOnlyWhenFull /\ [Next]_vars => RefusedOnlyWhenFull'
    <2> SUFFICES ASSUME LimiterInv, RefusedOnlyWhenFull, [Next]_vars
                 PROVE  RefusedOnlyWhenFull'
      OBVIOUS
    <2>1. CASE Tick
      BY <2>1 DEF Tick, NoCall, RefusedOnlyWhenFull
    <2>2. ASSUME NEW ip \in Ips, CheckAdmits(ip) PROVE RefusedOnlyWhenFull'
      BY <2>2 DEF CheckAdmits, RefusedOnlyWhenFull
    <2>3. ASSUME NEW ip \in Ips, CheckRefuses(ip) PROVE RefusedOnlyWhenFull'
      <3>1. Cardinality(InWindow(ip)) >= Max
        BY <2>3, RetainedFacts DEF CheckRefuses
      <3>2. InWindow(ip)' = InWindow(ip) /\ last'.ip = ip
        BY <2>3 DEF CheckRefuses, InWindow
      <3> QED
        BY <3>1, <3>2 DEF RefusedOnlyWhenFull, InWindow
    <2>4. CASE UNCHANGED vars
      BY <2>4 DEF vars, RefusedOnlyWhenFull, InWindow
    <2> QED
      BY <2>1, <2>2, <2>3, <2>4 DEF Next, CheckAndRecord
  <1> QED
    BY <1>1, <1>2, LimiterInvariant, PTL DEF Spec

-----------------------------------------------------------------------------
(***************************************************************************)
(* The doors.                                                              *)
(***************************************************************************)

(***************************************************************************)
(* A step lets each connection see the lists as they are after it, and a   *)
(* connection under way forgets nothing that it has seen.                  *)
(***************************************************************************)
LEMMA Observed ==
  ASSUME ATypeOK, Observe
  PROVE  /\ seen' \in [Conns -> [ip : BOOLEAN, token : BOOLEAN, name : BOOLEAN]]
         /\ \A c \in Conns : pc[c] # "done" =>
               /\ seen[c].ip \/ IpOf[c] \notin denied' => seen'[c].ip
               /\ seen[c].token \/ TokenFits(c, tokens') => seen'[c].token
               /\ seen[c].name \/ NameFits(c, blocked') => seen'[c].name
  <1> DEFINE Entry(c) ==
        LET allows == Allowance(c, tokens', blocked', denied')
        IN IF pc[c] = "done" THEN allows
           ELSE [ip |-> allows.ip \/ seen[c].ip, token |-> allows.token \/ seen[c].token,
                 name |-> allows.name \/ seen[c].name]
  <1>1. seen' = [c \in Conns |-> Entry(c)]
    BY Zenon DEF Observe
  <1>2. ASSUME NEW c \in Conns
        PROVE  /\ Entry(c) \in [ip : BOOLEAN, token : BOOLEAN, name : BOOLEAN]
               /\ pc[c] # "done" =>
                    /\ seen[c].ip \/ IpOf[c] \notin denied' => Entry(c).ip
                    /\ seen[c].token \/ TokenFits(c, tokens') => Entry(c).token
                    /\ seen[c].name \/ NameFits(c, blocked') => Entry(c).name
    BY <1>2 DEF Allowance, TokenFits, NameFits
  <1> HIDE DEF Entry
  <1> QED
    BY <1>1, <1>2

(***************************************************************************)
(* A connection that does not move has still passed what it had passed.    *)
(***************************************************************************)
LEMMA StillPassed ==
  ASSUME ATypeOK, AdmittedByLists, Observe, NEW c \in Conns, pc'[c] = pc[c]
  PROVE  PassedLists(c)'
  <1>1. PassedLists(c)
    BY DEF AdmittedByLists
  <1> QED
    BY <1>1, Observed DEF PassedLists

(***************************************************************************)
(* Startup: no connection is under way.                                    *)
(***************************************************************************)
LEMMA AdmissionInit == AInit => AdmissionInv
  <1> SUFFICES ASSUME AInit PROVE AdmissionInv
    OBVIOUS
  <1>1. seen \in [Conns -> [ip : BOOLEAN, token : BOOLEAN, name : BOOLEAN]]
    BY DEF AInit, Allowance, TokenFits, NameFits
  <1>2. pc \in [Conns -> ClientStages \cup PeerStages]
        /\ (\A c \in Clients : pc[c] \in ClientStages)
        /\ (\A p \in Peers : pc[p] \in PeerStages)
    BY DEF AInit, ClientStages, PeerStages, Conns
  <1>3. unread \in BOOLEAN
    BY DEF AInit
  <1>4. ATypeOK
    BY <1>1, <1>2, <1>3 DEF AInit, ATypeOK
  <1>5. AdmittedByLists
    <2>1. tokens # {}
      BY Zenon DEF AInit
    <2>2. \A c \in Conns : pc[c] = "done"
      BY DEF AInit
    <2> QED
      BY <2>1, <2>2 DEF AdmittedByLists, PassedLists
  <1>6. Counted = {}
    BY DEF AInit, Counted, Conns
  <1>7. PassGaugeExact /\ IsFiniteSet(Counted)
    BY <1>6, FS_EmptySet DEF AInit, PassGaugeExact
  <1> QED
    BY <1>4, <1>5, <1>7 DEF AdmissionInv

(***************************************************************************)
(* The SIGHUP task replaces one list at a time; nobody moves meanwhile.    *)
(***************************************************************************)
LEMMA ListsInv ==
  ASSUME AdmissionInv, Observe, UNCHANGED <<pc, copyVars>>,
         tokens' \subseteq Tokens, blocked' \subseteq Names, denied' \subseteq Ips,
         tokens' # {}, reload' \in {"idle", "auth", "block", "deny"}, unread' \in BOOLEAN
  PROVE  AdmissionInv'
  <1>1. ATypeOK /\ AdmittedByLists /\ PassGaugeExact /\ IsFiniteSet(Counted)
    BY DEF AdmissionInv
  <1>2. ATypeOK'
    BY <1>1, Observed DEF ATypeOK, copyVars
  <1>3. AdmittedByLists'
    BY <1>1, StillPassed DEF AdmittedByLists, Conns
  <1>4. Counted' = Counted
    BY DEF Counted
  <1>5. PassGaugeExact' /\ IsFiniteSet(Counted)'
    BY <1>1, <1>4 DEF PassGaugeExact, copyVars
  <1> QED
    BY <1>2, <1>3, <1>5 DEF AdmissionInv

(***************************************************************************)
(* A connection moves to another stage: its lists must have let it pass,   *)
(* and the gauge moves by what the number of counted tasks moves.          *)
(***************************************************************************)
LEMMA MoveInv ==
  ASSUME AdmissionInv, Observe, NEW c \in Conns, NEW stage, Goto(c, stage),
         UNCHANGED <<listVars, reload, unread>>,
         c \in Clients => stage \in ClientStages,
         c \in Peers => stage \in PeerStages,
         ends' \in [Peers -> SUBSET Sides], copying' \in [Peers -> SUBSET Sides],
         PassedLists(c)',
         active' \in Nat, PassGaugeExact', IsFiniteSet(Counted')
  PROVE  AdmissionInv'
  <1>1. ATypeOK /\ AdmittedByLists
    BY DEF AdmissionInv
  <1>2. pc' = [pc EXCEPT ![c] = stage] /\ pc \in [Conns -> ClientStages \cup PeerStages]
    BY <1>1 DEF Goto, ATypeOK
  <1>3. /\ pc' \in [Conns -> ClientStages \cup PeerStages]
        /\ \A d \in Clients : pc'[d] \in ClientStages
        /\ \A p \in Peers : pc'[p] \in PeerStages
    BY <1>1, <1>2 DEF ATypeOK, Conns
  <1>4. ATypeOK'
    BY <1>1, <1>3, Observed DEF ATypeOK, listVars
  <1>5. ASSUME NEW d \in Conns, d # c PROVE PassedLists(d)'
    BY <1>1, <1>2, <1>5, StillPassed
  <1>6. AdmittedByLists'
    BY <1>1, <1>5 DEF AdmittedByLists, listVars
  <1> QED
    BY <1>4, <1>6 DEF AdmissionInv

(***************************************************************************)
(* A move between two stages that are both counted or both not counted     *)
(* leaves the gauge exact.                                                 *)
(***************************************************************************)
LEMMA SameCount ==
  ASSUME AdmissionInv, NEW c \in Conns, NEW stage, Goto(c, stage), UNCHANGED active,
         (c \in Peers /\ pc[c] \in {"connect", "copy"})
           <=> (c \in Peers /\ stage \in {"connect", "copy"})
  PROVE  active' \in Nat /\ PassGaugeExact' /\ IsFiniteSet(Counted')
  <1>1. pc' = [pc EXCEPT ![c] = stage] /\ pc \in [Conns -> ClientStages \cup PeerStages]
    BY DEF Goto, AdmissionInv, ATypeOK
  <1>2. Counted' = Counted
    BY <1>1 DEF Counted, Conns
  <1> QED
    BY <1>2 DEF AdmissionInv, ATypeOK, PassGaugeExact

(***************************************************************************)
(* The steps before a connection is counted.                               *)
(***************************************************************************)
LEMMA DoorInv ==
  ASSUME AdmissionInv, NEW c \in Conns,
         \/ Accept(c) \/ CheckDenylist(c) \/ RateAdmits(c) \/ RateRefuses(c)
         \/ HelloFails(c) \/ Hello(c) \/ CheckAuth(c) \/ CheckName(c) \/ Leave(c)
         \/ CheckGeo(c)
  PROVE  AdmissionInv'
  <1>1. /\ ATypeOK /\ PassedLists(c) /\ Clients \cap Peers = {}
        /\ c \in Clients => pc[c] \in ClientStages
        /\ c \in Peers => pc[c] \in PeerStages
    BY AdmissionAssumption DEF AdmissionInv, ATypeOK, AdmittedByLists
  <1>2. Observe /\ UNCHANGED <<listVars, reload, unread, copyVars>>
    BY DEF Accept, CheckDenylist, RateAdmits, RateRefuses, HelloFails, Hello, CheckAuth,
           CheckName, Leave, CheckGeo, Quietly
  <1>3. \E stage \in ClientStages \cup PeerStages :
          /\ Goto(c, stage)
          /\ c \in Clients => stage \in ClientStages
          /\ c \in Peers => stage \in PeerStages
          /\ c \in Peers => pc[c] \notin {"connect", "copy"}
          /\ c \in Peers => stage \notin {"connect", "copy"}
          /\ stage \notin {"accepted", "done"} =>
               /\ pc[c] # "done" /\ (pc[c] # "accepted" \/ IpOf[c] \notin denied)
          /\ c \in Clients /\ stage \in {"rate", "name", "admitted"} =>
               pc[c] \in {"rate", "name"} \/ TokenOf[c] \in tokens
          /\ c \in Clients /\ stage = "admitted" => NameOf[c] \notin blocked \cup Reserved
    <2> USE <1>1 DEF ClientStages, PeerStages, Conns
    <2>1. CASE Accept(c)
      BY <2>1 DEF Accept
    <2>2. CASE CheckDenylist(c)
      BY <2>2 DEF CheckDenylist
    <2>3. CASE RateAdmits(c)
      BY <2>3 DEF RateAdmits
    <2>4. CASE RateRefuses(c)
      BY <2>4 DEF RateRefuses
    <2>5. CASE HelloFails(c) \/ Hello(c) \/ Leave(c)
      BY <2>5 DEF HelloFails, Hello, Leave
    <2>6. CASE CheckAuth(c)
      BY <2>6 DEF CheckAuth
    <2>7. CASE CheckName(c)
      BY <2>7 DEF CheckName
    <2>8. CASE CheckGeo(c)
      BY <2>8 DEF CheckGeo
    <2> QED
      BY <2>1, <2>2, <2>3, <2>4, <2>5, <2>6, <2>7, <2>8
  <1>4. PICK stage \in ClientStages \cup PeerStages : <1>3!(stage)
    BY <1>3
  <1>5. pc' = [pc EXCEPT ![c] = stage] /\ pc'[c] = stage
    BY <1>1, <1>4 DEF Goto, ATypeOK
  <1>6. PassedLists(c)'
    BY <1>1, <1>2, <1>4, <1>5, Observed DEF PassedLists, TokenFits, NameFits, listVars
  <1>7. ends' \in [Peers -> SUBSET Sides] /\ copying' \in [Peers -> SUBSET Sides]
    BY <1>1, <1>2 DEF ATypeOK, copyVars
  <1>8. active' \in Nat /\ PassGaugeExact' /\ IsFiniteSet(Counted')
    BY <1>2, <1>4, SameCount DEF copyVars
  <1> QED
    BY <1>2, <1>4, <1>6, <1>7, <1>8, MoveInv

(***************************************************************************)
(* A forwarding task counts itself.                                        *)
(***************************************************************************)
LEMMA CountInv ==
  ASSUME AdmissionInv, NEW p \in Peers, Count(p)
  PROVE  AdmissionInv'
  <1>1. /\ ATypeOK /\ PassedLists(p) /\ p \in Conns /\ p \notin Clients
        /\ active = Cardinality(Counted) /\ IsFiniteSet(Counted)
    BY AdmissionAssumption DEF AdmissionInv, AdmittedByLists, PassGaugeExact, Conns
  <1>2. /\ Observe /\ UNCHANGED <<listVars, reload, unread, ends, copying>>
        /\ pc[p] = "spawned" /\ Goto(p, "connect") /\ active' = active + 1
    BY DEF Count, PeerUnchanged
  <1>3. pc' = [pc EXCEPT ![p] = "connect"] /\ pc \in [Conns -> ClientStages \cup PeerStages]
    BY <1>1, <1>2 DEF Goto, ATypeOK
  <1>4. Counted' = Counted \cup {p} /\ p \notin Counted
    BY <1>1, <1>2, <1>3 DEF Counted, Conns
  <1>5. IsFiniteSet(Counted') /\ Cardinality(Counted') = Cardinality(Counted) + 1
    BY <1>1, <1>4, FS_AddElement
  <1>6. active' \in Nat /\ PassGaugeExact'
    BY <1>1, <1>2, <1>5 DEF PassGaugeExact, ATypeOK
  <1>7. PassedLists(p)'
    BY <1>1, <1>2, <1>3, Observed DEF PassedLists
  <1> QED
    BY <1>1, <1>2, <1>5, <1>6, <1>7, MoveInv DEF ATypeOK, PeerStages

(***************************************************************************)
(* A forwarding task ends and counts itself out, on either way.            *)
(***************************************************************************)
LEMMA EndInv ==
  ASSUME AdmissionInv, NEW p \in Peers, ConnectFails(p) \/ JoinEnds(p)
  PROVE  AdmissionInv'
  <1>1. /\ ATypeOK /\ p \in Conns /\ p \notin Clients
        /\ active = Cardinality(Counted) /\ IsFiniteSet(Counted)
    BY AdmissionAssumption DEF AdmissionInv, PassGaugeExact, Conns
  <1>2. /\ Observe /\ UNCHANGED <<listVars, reload, unread, copying>>
        /\ pc[p] \in {"connect", "copy"} /\ Goto(p, "done") /\ active' = active - 1
        /\ ends' \in [Peers -> SUBSET Sides]
    BY <1>1 DEF ConnectFails, JoinEnds, PeerUnchanged, ATypeOK
  <1>3. pc' = [pc EXCEPT ![p] = "done"] /\ pc \in [Conns -> ClientStages \cup PeerStages]
    BY <1>1, <1>2 DEF Goto, ATypeOK
  <1>4. Counted' = Counted \ {p} /\ p \in Counted
    BY <1>1, <1>2, <1>3 DEF Counted, Conns
  <1>5. IsFiniteSet(Counted') /\ Cardinality(Counted') = Cardinality(Counted) - 1
    BY <1>1, <1>4, FS_RemoveElement
  <1>6. Cardinality(Counted') \in Nat
    BY <1>5, FS_CardinalityType
  <1>7. active' \in Nat /\ PassGaugeExact'
    BY <1>1, <1>2, <1>5, <1>6 DEF PassGaugeExact
  <1>8. PassedLists(p)'
    BY <1>1, <1>3 DEF PassedLists
  <1> QED
    BY <1>1, <1>2, <1>5, <1>7, <1>8, MoveInv DEF ATypeOK, PeerStages

(***************************************************************************)
(* The backend answers, and the two copies go their way.                   *)
(***************************************************************************)
LEMMA CopyInv ==
  ASSUME AdmissionInv, NEW p \in Peers,
         \/ Connects(p)
         \/ \E s \in Sides : SideCloses(p, s) \/ CopyReadsEof(p, s) \/ CopyWriteFails(p, s)
  PROVE  AdmissionInv'
  <1>1. ATypeOK /\ PassedLists(p) /\ p \in Conns /\ p \notin Clients
    BY AdmissionAssumption DEF AdmissionInv, AdmittedByLists, Conns
  <1>2. /\ Observe /\ UNCHANGED <<listVars, reload, unread, active>>
        /\ pc[p] \in {"connect", "copy"}
    BY DEF Connects, SideCloses, CopyReadsEof, CopyWriteFails, PeerUnchanged
  <1>3. ends' \in [Peers -> SUBSET Sides] /\ copying' \in [Peers -> SUBSET Sides]
    <2>1. ends \in [Peers -> SUBSET Sides] /\ copying \in [Peers -> SUBSET Sides]
      BY <1>1 DEF ATypeOK
    <2> QED
      BY <2>1 DEF Connects, SideCloses, CopyReadsEof, CopyWriteFails
  <1>4. Goto(p, "copy")
    <2>1. pc \in [Conns -> ClientStages \cup PeerStages]
      BY <1>1 DEF ATypeOK
    <2>2. CASE Connects(p)
      BY <2>2 DEF Connects
    <2>3. CASE pc[p] = "copy" /\ UNCHANGED pc
      BY <1>1, <2>1, <2>3 DEF Goto
    <2> QED
      BY <2>2, <2>3 DEF SideCloses, CopyReadsEof, CopyWriteFails
  <1>5. pc'[p] = "copy"
    BY <1>1, <1>4 DEF Goto, ATypeOK
  <1>6. PassedLists(p)'
    BY <1>1, <1>2, <1>5, Observed DEF PassedLists
  <1>7. active' \in Nat /\ PassGaugeExact' /\ IsFiniteSet(Counted')
    BY <1>1, <1>2, <1>4, SameCount
  <1> QED
    BY <1>1, <1>2, <1>3, <1>4, <1>6, <1>7, MoveInv DEF PeerStages

(***************************************************************************)
(* SIGHUP, the three reloads, and the clock.                               *)
(***************************************************************************)
LEMMA SignalInv ==
  ASSUME AdmissionInv, Sighup \/ ReloadLists \/ ClockTick
  PROVE  AdmissionInv'
  <1>1. /\ tokens \subseteq Tokens /\ blocked \subseteq Names /\ denied \subseteq Ips
        /\ tokens # {} /\ reload \in {"idle", "auth", "block", "deny"} /\ unread \in BOOLEAN
    BY DEF AdmissionInv, ATypeOK, AdmittedByLists
  <1>2. CASE Sighup
    BY <1>1, <1>2, ListsInv DEF Sighup, listVars
  <1>3. CASE ClockTick
    BY <1>1, <1>3, ListsInv DEF ClockTick, listVars
  <1>4. ASSUME NEW f \in (SUBSET Tokens) \cup {Unreadable}, ReloadAuth(f) PROVE AdmissionInv'
    <2>1. /\ tokens' = LoadTokenSet(f) /\ UNCHANGED <<blocked, denied, pc, copyVars>>
          /\ Observe /\ reload' = "block"
      BY <1>4 DEF ReloadAuth, Reload
    <2>2. tokens' \subseteq Tokens /\ tokens' # {}
      BY <1>1, <2>1 DEF LoadTokenSet
    <2>3. unread' \in BOOLEAN
      BY <1>4, Zenon DEF ReloadAuth, Reload
    <2> QED
      BY <1>1, <2>1, <2>2, <2>3, ListsInv
  <1>5. ASSUME NEW f \in (SUBSET Names) \cup {Unreadable}, ReloadBlocklist(f) PROVE AdmissionInv'
    <2>1. /\ blocked' \subseteq Names /\ UNCHANGED <<tokens, denied, pc, copyVars>>
          /\ Observe /\ reload' = "deny"
      BY <1>1, <1>5 DEF ReloadBlocklist, Reload
    <2>2. unread' \in BOOLEAN
      BY <1>5, Zenon DEF ReloadBlocklist, Reload
    <2> QED
      BY <1>1, <2>1, <2>2, ListsInv
  <1>6. ASSUME NEW f \in (SUBSET Ips) \cup {Unreadable}, ReloadDenylist(f) PROVE AdmissionInv'
    <2>1. /\ denied' \subseteq Ips /\ UNCHANGED <<tokens, blocked, pc, copyVars>>
          /\ Observe /\ reload' = "idle"
      BY <1>1, <1>6 DEF ReloadDenylist, Reload, ParseDenylistFile
    <2>2. unread' \in BOOLEAN
      BY <1>6, Zenon DEF ReloadDenylist, Reload
    <2> QED
      BY <1>1, <2>1, <2>2, ListsInv
  <1> QED
    BY <1>2, <1>3, <1>4, <1>5, <1>6 DEF ReloadLists

(***************************************************************************)
(* The inductive invariant of the doors holds in every behaviour.          *)
(***************************************************************************)
THEOREM AdmissionInvariant == ASpec => []AdmissionInv
  <1>1. AdmissionInv /\ [ANext]_avars => AdmissionInv'
    <2> SUFFICES ASSUME AdmissionInv, [ANext]_avars PROVE AdmissionInv'
      OBVIOUS
    <2>1. CASE UNCHANGED avars
      BY <2>1 DEF avars, listVars, copyVars, AdmissionInv, ATypeOK, AdmittedByLists,
                  PassedLists, PassGaugeExact, Counted
    <2>2. CASE Sighup \/ ReloadLists \/ ClockTick
      BY <2>2, SignalInv
    <2>3. ASSUME NEW c \in Conns,
                 Accept(c) \/ CheckDenylist(c) \/ RateAdmits(c) \/ RateRefuses(c)
          PROVE  AdmissionInv'
      BY <2>3, DoorInv
    <2>4. ASSUME NEW c \in Clients, ClientStep(c) PROVE AdmissionInv'
      BY <2>4, DoorInv DEF ClientStep, Conns
    <2>5. ASSUME NEW p \in Peers, PeerStep(p) PROVE AdmissionInv'
      <3>1. p \in Conns
        BY DEF Conns
      <3> QED
        BY <2>5, <3>1, DoorInv, CountInv, EndInv, CopyInv DEF PeerStep, Finish
    <2> QED
      BY <2>1, <2>2, <2>3, <2>4, <2>5 DEF ANext
  <1> QED
    BY <1>1, AdmissionInit, PTL DEF ASpec

(***************************************************************************)
(* Nobody passes a check that the list in question refused all the time    *)
(* since the connection arrived, however reloads fall between the checks.  *)
(***************************************************************************)
THEOREM ListsAreObeyed == ASpec => []AdmittedByLists
  <1>1. AdmissionInv => AdmittedByLists
    BY DEF AdmissionInv
  <1> QED
    BY <1>1, AdmissionInvariant, PTL

(***************************************************************************)
(* The gauge is exact for every number of simultaneous connections.        *)
(***************************************************************************)
THEOREM GaugeIsExact == ASpec => []PassGaugeExact
  <1>1. AdmissionInv => PassGaugeExact
    BY DEF AdmissionInv
  <1> QED
    BY <1>1, AdmissionInvariant, PTL

(***************************************************************************)
(* The doors use the limiter as it specifies: each of their steps is one   *)
(* call, a tick, or nothing to it.                                         *)
(***************************************************************************)
THEOREM DoorsImplementLimiter == ASpec => Spec
  <1>1. AInit => Init
    BY DEF AInit
  <1>2. [ANext]_avars => [Next]_vars
    <2> SUFFICES ASSUME [ANext]_avars PROVE [Next]_vars
      OBVIOUS
    <2>1. CASE UNCHANGED avars
      BY <2>1 DEF avars
    <2>2. CASE Sighup \/ ReloadLists
      BY <2>2 DEF Sighup, ReloadLists, ReloadAuth, ReloadBlocklist, ReloadDenylist, Reload
    <2>3. CASE ClockTick
      BY <2>3 DEF ClockTick, Next
    <2>4. ASSUME NEW c \in Conns, RateAdmits(c) \/ RateRefuses(c) PROVE Next
      <3>1. IpOf[c] \in Ips
        BY AdmissionAssumption
      <3> QED
        BY <2>4, <3>1 DEF RateAdmits, RateRefuses, Next, CheckAndRecord
    <2>5. ASSUME NEW c \in Conns, Accept(c) \/ CheckDenylist(c) PROVE UNCHANGED vars
      BY <2>5 DEF Accept, CheckDenylist, Quietly
    <2>6. ASSUME NEW c \in Clients, ClientStep(c) PROVE UNCHANGED vars
      BY <2>6 DEF ClientStep, HelloFails, Hello, CheckAuth, CheckName, Leave, Quietly
    <2>7. ASSUME NEW p \in Peers, PeerStep(p) PROVE UNCHANGED vars
      BY <2>7 DEF PeerStep, Finish, CheckGeo, Connects, Count, ConnectFails, JoinEnds,
                  CopyReadsEof, SideCloses, CopyWriteFails, PeerUnchanged, Quietly
    <2> QED
      BY <2>1, <2>2, <2>3, <2>4, <2>5, <2>6, <2>7 DEF ANext
  <1> QED
    BY <1>1, <1>2, PTL DEF ASpec, Spec

(***************************************************************************)
(* So both doors together, sharing the one limiter, let at most Max        *)
(* connections of an address through in a window.                          *)
(***************************************************************************)
THEOREM DoorsNoBurst == ASpec => []NoBurst
  BY DoorsImplementLimiter, LimiterNoBurst, PTL

(***************************************************************************)
(* And a connection that either door answers with 429 or drops for its     *)
(* rate comes from an address that has used up its window.                 *)
(***************************************************************************)
THEOREM DoorsRefuseOnlyWhenFull == ASpec => []RefusedOnlyWhenFull
  BY DoorsImplementLimiter, LimiterRefusesOnlyWhenFull, PTL

(***************************************************************************)
(* Together: both doors share one limit and keep it exactly.               *)
(***************************************************************************)
THEOREM DoorsKeepLimitExactly == ASpec => []LimiterExact
  <1>1. NoBurst /\ RefusedOnlyWhenFull => LimiterExact
    BY DEF LimiterExact
  <1> QED
    BY <1>1, DoorsNoBurst, DoorsRefuseOnlyWhenFull, PTL
=============================================================================
