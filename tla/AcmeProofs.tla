----------------------------- MODULE AcmeProofs -----------------------------
(***************************************************************************)
(* The certificate and its key stay together on disk, for every list of    *)
(* domains, every bound on the polls and every number of failed calls and  *)
(* crashes.                                                                *)
(***************************************************************************)
EXTENDS Acme, FiniteSetTheorems, TLAPS

(***************************************************************************)
(* KeyPair::generate always finds a name: four of at least five are in     *)
(* use.                                                                    *)
(***************************************************************************)
LEMMA UnusedKey ==
  /\ Unused \in KeyPairs
  /\ Unused \notin {certFile, keyFile, reload, acceptor[1]}
  <1> DEFINE used == {certFile, keyFile, reload, acceptor[1]}
  <1>1. IsFiniteSet(used) /\ Cardinality(used) <= 4 /\ Cardinality(used) \in Nat
    <2>1. /\ IsFiniteSet({certFile}) /\ Cardinality({certFile}) = 1
      BY FS_Singleton
    <2>2. /\ IsFiniteSet({certFile, keyFile})
          /\ Cardinality({certFile, keyFile}) <= 2
          /\ Cardinality({certFile, keyFile}) \in Nat
      <3>1. {certFile, keyFile} = {certFile} \cup {keyFile}
        OBVIOUS
      <3>2. /\ IsFiniteSet({certFile} \cup {keyFile})
            /\ Cardinality({certFile} \cup {keyFile}) \in {1, 2}
        BY <2>1, FS_AddElement
      <3> QED
        BY <3>1, <3>2
    <2>3. /\ IsFiniteSet({certFile, keyFile, reload})
          /\ Cardinality({certFile, keyFile, reload}) <= 3
          /\ Cardinality({certFile, keyFile, reload}) \in Nat
      <3>1. {certFile, keyFile, reload} = {certFile, keyFile} \cup {reload}
        OBVIOUS
      <3>2. /\ IsFiniteSet({certFile, keyFile} \cup {reload})
            /\ Cardinality({certFile, keyFile} \cup {reload})
                 \in {Cardinality({certFile, keyFile}),
                      Cardinality({certFile, keyFile}) + 1}
        BY <2>2, FS_AddElement
      <3> QED
        BY <2>2, <3>1, <3>2
    <2>4. used = {certFile, keyFile, reload} \cup {acceptor[1]}
      OBVIOUS
    <2>5. /\ IsFiniteSet({certFile, keyFile, reload} \cup {acceptor[1]})
          /\ Cardinality({certFile, keyFile, reload} \cup {acceptor[1]})
               \in {Cardinality({certFile, keyFile, reload}),
                    Cardinality({certFile, keyFile, reload}) + 1}
      BY <2>3, FS_AddElement
    <2>6. ASSUME NEW n \in Nat, n <= 3, NEW m \in {n, n + 1} PROVE m \in Nat /\ m <= 4
      BY <2>6
    <2>7. /\ Cardinality({certFile, keyFile, reload} \cup {acceptor[1]}) \in Nat
          /\ Cardinality({certFile, keyFile, reload} \cup {acceptor[1]}) <= 4
      BY <2>3, <2>5, <2>6
    <2> QED
      BY <2>4, <2>5, <2>7
  <1>2. \E k \in KeyPairs : k \notin used
    <2> SUFFICES ASSUME KeyPairs \subseteq used PROVE FALSE
      OBVIOUS
    <2>1. Cardinality(KeyPairs) <= Cardinality(used)
      BY <1>1, FS_Subset
    <2>2. Cardinality(KeyPairs) \in Nat /\ Cardinality(KeyPairs) >= 5
      BY AcmeAssumption, FS_CardinalityType
    <2> QED
      BY <1>1, <2>1, <2>2
  <1> QED
    BY <1>2 DEF Unused

(***************************************************************************)
(* What the assumptions say of the numbers.                                *)
(***************************************************************************)
LEMMA Bounds ==
  /\ Len(Domains) \in Nat /\ DOMAIN Domains = 1..Len(Domains)
  /\ MaxAttempts \in Nat \ {0} /\ Life \in Nat
  BY AcmeAssumption

(***************************************************************************)
(* An attempt starts with, and is left at, an empty order.                 *)
(***************************************************************************)
LEMMA NoOrderTyped == NoOrder \in Orders
  BY Bounds DEF NoOrder, Orders

(***************************************************************************)
(* A first start satisfies the invariant.                                  *)
(***************************************************************************)
LEMMA AcmeInit == Init => AcmeInv
  <1> SUFFICES ASSUME Init PROVE AcmeInv
    OBVIOUS
  <1>1. acceptor = <<None, None>>
    BY DEF Init, NoAcceptor
  <1>2. TypeOK
    <2>1. args \in [dns : BOOLEAN, self : BOOLEAN] /\ bound \in BOOLEAN /\ cut \in BOOLEAN
      BY Zenon DEF Init
    <2> QED
      BY <1>1, <2>1, Bounds, NoOrderTyped DEF Init, TypeOK
  <1>3. OrderSound /\ PairOnDisk
    BY <1>1 DEF Init, OrderSound, PairOnDisk
  <1> QED
    BY <1>2, <1>3 DEF AcmeInv

(***************************************************************************)
(* Starting, loading and reloading the acceptor, and the checks that start *)
(* an attempt.                                                             *)
(***************************************************************************)
LEMMA ServingInv ==
  ASSUME AcmeInv,
         Start \/ LoadTls \/ LoadTlsFails \/ Check \/ RenewalTick
           \/ ReloadReads \/ ReloadBuilds
  PROVE  AcmeInv'
  <1> USE DEF AcmeInv, TypeOK, OrderSound, PairOnDisk,
              Attempting, Writing, disk, tls
  <1>1. CASE Start
    BY <1>1 DEF Start
  <1>2. CASE LoadTls
    BY <1>2 DEF LoadTls, Usable
  <1>3. CASE LoadTlsFails
    BY <1>3 DEF LoadTlsFails
  <1>4. CASE Check
    BY <1>4, NoOrderTyped DEF Check
  <1>5. CASE RenewalTick
    BY <1>5 DEF RenewalTick
  <1>6. CASE ReloadReads
    BY <1>6 DEF ReloadReads
  <1>7. CASE ReloadBuilds
    BY <1>7 DEF ReloadBuilds, Usable
  <1> QED
    BY <1>1, <1>2, <1>3, <1>4, <1>5, <1>6, <1>7

(***************************************************************************)
(* Every step of obtain_certificate, the two writes at its end included.   *)
(***************************************************************************)
LEMMA AttemptInv ==
  ASSUME AcmeInv, AttemptStep
  PROVE  AcmeInv'
  <1> USE DEF AcmeInv, TypeOK, OrderSound, PairOnDisk,
              Attempting, Writing, disk, tls
  <1>1. CASE LoadAccount \/ CreateAccount \/ SaveAccount \/ PlaceOrder
    BY <1>1 DEF LoadAccount, CreateAccount, SaveAccount, PlaceOrder
  <1>2. CASE LoadAccountFails
    BY <1>2, NoOrderTyped DEF LoadAccountFails, GiveUp
  <1>3. CASE AuthzValid
    <2>1. order' \in Orders
      BY <1>3, Bounds DEF AuthzValid, Orders
    <2> QED
      BY <1>3, <2>1 DEF AuthzValid
  <1>4. CASE PostChallenge
    <2>1. Domains[order.i] \in DomainSet
      BY <1>4, Bounds DEF PostChallenge, DomainSet, Orders
    <2>2. order' \in Orders /\ order'.i = order.i
      BY <1>4, <2>1 DEF PostChallenge, Orders
    <2> QED
      BY <1>4, <2>2 DEF PostChallenge
  <1>5. CASE SetReady
    <2>1. Domains[order.i] \in DomainSet /\ order.i + 1 \in 1..Len(Domains) + 1
      BY <1>5, Bounds DEF SetReady, DomainSet, Orders
    <2>2. order' \in Orders
      BY <1>5, <2>1 DEF SetReady, Orders
    <2> QED
      BY <1>5, <2>2 DEF SetReady
  <1>6. CASE AuthzDone \/ PollReady
    BY <1>6 DEF AuthzDone, PollReady
  <1>7. CASE PollPending
    <2>1. order.polls + 1 \in 0..MaxAttempts
      BY <1>7, Bounds DEF PollPending, Orders
    <2>2. order' \in Orders
      BY <1>7, <2>1 DEF PollPending, Orders
    <2> QED
      BY <1>7, <2>2 DEF PollPending
  <1>8. CASE PollTimeout \/ PollInvalid
    BY <1>8, NoOrderTyped DEF PollTimeout, PollInvalid, GiveUp
  <1>9. CASE Finalize
    <2>1. order' \in Orders /\ order'.key \in KeyPairs
      BY <1>9, UnusedKey DEF Finalize, Orders
    <2> QED
      BY <1>9, <2>1 DEF Finalize
  <1>10. CASE DeleteRecord \/ ClearTokens
    <2>1. order' \in Orders /\ order'.key = order.key
      BY <1>10 DEF DeleteRecord, ClearTokens, Orders
    <2> QED
      BY <1>10, <2>1 DEF DeleteRecord, ClearTokens
  <1>11. CASE WriteCert
    BY <1>11, Bounds DEF WriteCert
  <1>12. CASE WriteKey
    <2>1. cut' \in BOOLEAN
      BY <1>12, Zenon DEF WriteKey
    <2> QED
      BY <1>12, <2>1, NoOrderTyped DEF WriteKey
  <1> QED
    BY <1>1, <1>2, <1>3, <1>4, <1>5, <1>6, <1>7, <1>8, <1>9, <1>10, <1>11,
       <1>12 DEF AttemptStep

(***************************************************************************)
(* The CA's answers about the certificate, a call that fails, a crash at   *)
(* any point, and the days.                                                *)
(***************************************************************************)
LEMMA FaultInv ==
  ASSUME AcmeInv, Download \/ CallFails \/ Crash \/ DayPasses
  PROVE  AcmeInv'
  <1> USE DEF AcmeInv, TypeOK, OrderSound, PairOnDisk,
              Attempting, Writing, disk, tls
  <1>1. CASE CallFails
    <2>1. cut' \in BOOLEAN /\ (~cut' => ~cut /\ pc \notin Writing)
      BY <1>1, Zenon DEF CallFails
    <2> QED
      BY <1>1, <2>1, Bounds, NoOrderTyped DEF CallFails, CutShort, GiveUp
  <1>2. CASE Crash
    <2>1. /\ cut' \in BOOLEAN /\ (~cut' => ~cut /\ pc \notin Writing)
          /\ bound' \in BOOLEAN
      BY <1>2, Zenon DEF Crash
    <2> QED
      BY <1>2, <2>1, Bounds, NoOrderTyped DEF Crash, CutShort, NoAcceptor
  <1>3. CASE DayPasses
    BY <1>3, Bounds DEF DayPasses
  <1>4. CASE Download
    BY <1>4 DEF Download
  <1> QED
    BY <1>1, <1>2, <1>3, <1>4

(***************************************************************************)
(* The inductive invariant holds in every behaviour, however many calls    *)
(* fail and whenever the process dies and is started again.                *)
(***************************************************************************)
THEOREM AcmeInvariant == Spec => []AcmeInv
  <1>1. AcmeInv /\ [Next]_vars => AcmeInv'
    <2> SUFFICES ASSUME AcmeInv, [Next]_vars PROVE AcmeInv'
      OBVIOUS
    <2>1. CASE UNCHANGED vars
      BY <2>1 DEF vars, disk, AcmeInv, TypeOK, OrderSound, PairOnDisk
    <2> QED
      BY <2>1, ServingInv, AttemptInv, FaultInv DEF Next, DownloadPending
  <1> QED
    BY <1>1, AcmeInit, PTL DEF Spec

(***************************************************************************)
(* The two files on disk belong together unless a write of the pair is     *)
(* under way or was cut short.                                             *)
(***************************************************************************)
THEOREM PairsStayTogether == Spec => []PairOnDisk
  <1>1. AcmeInv => PairOnDisk
    BY DEF AcmeInv
  <1> QED
    BY <1>1, AcmeInvariant, PTL
=============================================================================
