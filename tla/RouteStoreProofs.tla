-------------------------- MODULE RouteStoreProofs --------------------------
(***************************************************************************)
(* The relay's identity survives crashes, disk faults and concurrent       *)
(* saves, for any number of requests, routes, inodes and restarts.         *)
(***************************************************************************)
EXTENDS RouteStore, TLAPS

USE StoreAssumption, TextAssumption

-----------------------------------------------------------------------------
(***************************************************************************)
(* Types.                                                                  *)
(***************************************************************************)

\* The empty store a first boot starts from is a store.
LEMMA DefaultIsStore == DefaultStore \in Stores
BY DEF DefaultStore, Stores

\* What an admin handler makes of the store is a store with the same identity.
LEMMA ChangesKeepIdentity ==
    ASSUME NEW store \in Stores, NEW r \in RouteIds, NEW d \in Domains \cup {None},
           NEW token \in Tokens \cup {"blank", None}
    PROVE  /\ [store EXCEPT !.routes[r] = d] \in Stores
           /\ [store EXCEPT !.routes[r] = d].id = store.id
           /\ [store EXCEPT !.cf = token] \in Stores
           /\ [store EXCEPT !.cf = token].id = store.id
BY DEF Stores

\* A new identity is the one the store then holds.
LEMMA IdentityIsSet ==
    ASSUME NEW store \in Stores, NEW x \in Idents
    PROVE  /\ [store EXCEPT !.id = x] \in Stores
           /\ [store EXCEPT !.id = x].id = x
BY DEF Stores

\* A text is either one that does not parse or a store, never both.
LEMMA StoresParse == \A s \in Stores : s \notin Unparsable
OBVIOUS

-----------------------------------------------------------------------------
(***************************************************************************)
(* A change to the store made by an admin request, as one fact.            *)
(***************************************************************************)

\* Each of the four handlers changes the store into one with the same identity.
LEMMA HandlersChange ==
    ASSUME mem \in Stores, NEW q \in Requests,
           \/ \E r \in RouteIds, d \in Domains :
                create_route(q, r, d) \/ update_route(q, r, d)
           \/ \E r \in RouteIds : delete_route(q, r)
           \/ save_settings(q)
    PROVE  \E store \in Stores : store.id = mem.id /\ Change(q, store)
<1>1. ASSUME NEW r \in RouteIds, NEW d \in Domains,
             create_route(q, r, d) \/ update_route(q, r, d)
      PROVE  \E store \in Stores : store.id = mem.id /\ Change(q, store)
  <2>1. Change(q, [mem EXCEPT !.routes[r] = d])
    BY <1>1 DEF create_route, update_route
  <2> QED
    BY <2>1, ChangesKeepIdentity
<1>2. ASSUME NEW r \in RouteIds, delete_route(q, r)
      PROVE  \E store \in Stores : store.id = mem.id /\ Change(q, store)
  <2>1. Change(q, [mem EXCEPT !.routes[r] = None])
    BY <1>2 DEF delete_route
  <2> QED
    BY <2>1, ChangesKeepIdentity
<1>3. ASSUME save_settings(q)
      PROVE  \E store \in Stores : store.id = mem.id /\ Change(q, store)
  <2>1. PICK token \in Tokens \cup {IF mem.cf = None THEN "blank" ELSE mem.cf} :
            Change(q, [mem EXCEPT !.cf = token])
    BY <1>3 DEF save_settings
  <2>2. token \in Tokens \cup {"blank", None}
    BY DEF Stores
  <2>3. [mem EXCEPT !.cf = token] \in Stores /\ [mem EXCEPT !.cf = token].id = mem.id
    BY <2>2 DEF Stores
  <2> QED BY <2>1, <2>3
<1> QED BY <1>1, <1>2, <1>3

-----------------------------------------------------------------------------
(***************************************************************************)
(* The inductive invariant.                                                *)
(***************************************************************************)

\* No file, no process, no save.
LEMMA InitIdentity == Init => IdentityInv
BY DefaultIsStore
   DEF Init, IdentityInv, TypeOK, SavesFitProcess, SavesCarryIdentity,
       AnnouncedIsKept, IdentityStable, Savers, Unparsable

\* No action of load, load_or_create_identity, save or the admin handlers, no
\* crash and no disk fault breaks it.
LEMMA NextIdentity == IdentityInv /\ [Next]_vars => IdentityInv'
<1> SUFFICES ASSUME IdentityInv, [Next]_vars PROVE IdentityInv'
  OBVIOUS
<1> USE DEF IdentityInv
<1>1. CASE UNCHANGED vars
  BY <1>1 DEF vars, TypeOK, SavesFitProcess, SavesCarryIdentity,
              AnnouncedIsKept, IdentityStable
<1>2. CASE Start
  <2>1. /\ mem' \in Stores
        /\ live # None => mem' = file[live]
        /\ live = None => mem'.id = None
    BY <1>2, DefaultIsStore DEF Start, TypeOK, DefaultStore
  <2>2. \A t \in Savers : step[t] = "idle"
    BY <1>2 DEF Start, SavesFitProcess
  <2> QED
    BY <1>2, <2>1, <2>2
       DEF Start, TypeOK, SavesFitProcess, SavesCarryIdentity, AnnouncedIsKept,
           IdentityStable, Savers
<1>3. CASE StartFails
  BY <1>3, <1>1 DEF StartFails
<1>4. CASE LoadIdentity
  <2>1. advertised = {} \/ mem.id \in advertised
    BY <1>4 DEF LoadIdentity, AnnouncedIsKept
  <2> QED
    BY <1>4, <2>1
       DEF LoadIdentity, Advertise, TypeOK, SavesFitProcess, SavesCarryIdentity,
           AnnouncedIsKept, IdentityStable, Savers, Stores
<1>5. CASE CreateIdentity
  <2>1. PICK x \in Idents \ generated :
            mem' = [mem EXCEPT !.id = x] /\ generated' = generated \cup {x}
    BY <1>5 DEF CreateIdentity
  <2>2. mem' \in Stores /\ mem'.id = x
    BY <2>1, IdentityIsSet DEF TypeOK
  <2>3. advertised = {}
    BY <1>5 DEF CreateIdentity, AnnouncedIsKept, TypeOK
  <2>4. \A t \in Savers : step[t] = "idle"
    BY <1>5 DEF CreateIdentity, SavesFitProcess, Savers
  <2> QED
    BY <1>5, <2>1, <2>2, <2>3, <2>4
       DEF CreateIdentity, TypeOK, SavesFitProcess, SavesCarryIdentity,
           AnnouncedIsKept, IdentityStable, Savers
<1>6. CASE Crash
  BY <1>6, DefaultIsStore
     DEF Crash, TypeOK, SavesFitProcess, SavesCarryIdentity, AnnouncedIsKept,
         IdentityStable, Savers
<1>7. ASSUME NEW q \in Requests,
             \/ \E r \in RouteIds, d \in Domains :
                  create_route(q, r, d) \/ update_route(q, r, d)
             \/ \E r \in RouteIds : delete_route(q, r)
             \/ save_settings(q)
      PROVE  IdentityInv'
  <2>1. PICK store \in Stores : store.id = mem.id /\ Change(q, store)
    BY <1>7, HandlersChange DEF TypeOK
  <2> QED
    BY <2>1
       DEF Change, TypeOK, SavesFitProcess, SavesCarryIdentity, AnnouncedIsKept,
           IdentityStable, Savers
<1>8. ASSUME NEW t \in Savers, save(t) PROVE IdentityInv'
  <2>1. CASE Snapshot(t)
    BY <2>1
       DEF Snapshot, procVars, TypeOK, SavesFitProcess, SavesCarryIdentity,
           AnnouncedIsKept, IdentityStable
  <2>2. CASE OpenTmp(t)
    <3>1. PICK i \in Inodes :
            /\ IF tmp = None THEN Unused(i) ELSE i = tmp
            /\ tmp' = i
            /\ fd' = [fd EXCEPT ![t] = i]
            /\ file' = [file EXCEPT ![i] = Empty]
      BY <2>2 DEF OpenTmp
    <3>2. Empty \in Unparsable
      BY DEF Unparsable
    <3> QED
      BY <2>2, <3>1, <3>2
         DEF OpenTmp, procVars, TypeOK, SavesFitProcess, SavesCarryIdentity,
             AnnouncedIsKept, IdentityStable
  <2>3. CASE WriteTmp(t)
    <3>1. PICK text \in {snap[t], Torn} : file' = [file EXCEPT ![fd[t]] = text]
      BY <2>3 DEF WriteTmp
    <3>2. Torn \in Unparsable
      BY DEF Unparsable
    <3>3. fd[t] \in Inodes /\ snap[t].id = mem.id
      BY <2>3 DEF WriteTmp, TypeOK, SavesFitProcess, SavesCarryIdentity
    <3>4. advertised # {} => mem.id \in advertised
      BY <2>3 DEF WriteTmp, SavesFitProcess, AnnouncedIsKept
    <3> QED
      BY <2>3, <3>1, <3>2, <3>3, <3>4
         DEF WriteTmp, procVars, TypeOK, SavesFitProcess, SavesCarryIdentity,
             AnnouncedIsKept, IdentityStable
  <2>4. CASE RenameTmp(t)
    <3>1. tmp \in Inodes /\ (file[tmp] \notin Unparsable => file[tmp].id = mem.id)
      BY <2>4 DEF RenameTmp, TypeOK, SavesCarryIdentity
    <3>2. advertised' \subseteq advertised \cup {mem.id} /\ mem.id \in advertised'
      BY <2>4 DEF RenameTmp, Saved, Advertise, SavesFitProcess, AnnouncedIsKept
    <3>3. advertised # {} => mem.id \in advertised
      BY <2>4 DEF RenameTmp, SavesFitProcess, AnnouncedIsKept
    <3>4. mem.id \in Idents
      BY <2>4 DEF RenameTmp, TypeOK, SavesCarryIdentity, Stores
    <3>5. TypeOK'
      BY <2>4, <3>1, <3>2, <3>4, DefaultIsStore
         DEF RenameTmp, Saved, Advertise, TypeOK
    <3>6. SavesFitProcess'
      BY <2>4 DEF RenameTmp, Saved, Advertise, TypeOK, SavesFitProcess, Savers
    <3>7. SavesCarryIdentity'
      BY <2>4 DEF RenameTmp, Saved, TypeOK, SavesCarryIdentity
    <3>8. proc' = "on"
      BY <2>4 DEF RenameTmp, Saved, Advertise, SavesFitProcess
    <3>9. AnnouncedIsKept' /\ IdentityStable'
      BY <2>4, <3>1, <3>2, <3>3, <3>8
         DEF RenameTmp, Saved, AnnouncedIsKept, IdentityStable
    <3> QED BY <3>5, <3>6, <3>7, <3>9
  <2>5. ASSUME Unsaved(t), step[t] # "idle", UNCHANGED <<tmp, live>>,
               \/ UNCHANGED file
               \/ fd[t] \in Inodes /\ file' = [file EXCEPT ![fd[t]] = Torn]
        PROVE  IdentityInv'
    <3>1. Torn \in Unparsable
      BY DEF Unparsable
    <3> QED
      BY <2>5, <3>1, DefaultIsStore
         DEF Unsaved, TypeOK, SavesFitProcess, SavesCarryIdentity,
             AnnouncedIsKept, IdentityStable, Savers
  <2>6. CASE RenameFindsNothing(t)
    BY <2>5, <2>6 DEF RenameFindsNothing
  <2>7. CASE DiskFault(t)
    <3>1. step[t] = "write" => fd[t] \in Inodes
      BY DEF TypeOK, SavesFitProcess
    <3> QED BY <2>5, <2>7, <3>1 DEF DiskFault
  <2> QED BY <1>8, <2>1, <2>2, <2>3, <2>4, <2>6, <2>7 DEF save
<1> QED BY <1>1, <1>2, <1>3, <1>4, <1>5, <1>6, <1>7, <1>8 DEF Next

-----------------------------------------------------------------------------
\* The invariant holds in every state of the store.
THEOREM IdentityInvariant == Spec => []IdentityInv
BY InitIdentity, NextIdentity, PTL DEF Spec

\* No restart of the relay announces other keys than the first ones, whatever
\* dies, fails or runs concurrently in between.
THEOREM IdentityIsStable == Spec => []IdentityStable
<1>1. IdentityInv => IdentityStable
  BY DEF IdentityInv
<1> QED BY <1>1, IdentityInvariant, PTL

-----------------------------------------------------------------------------
(***************************************************************************)
(* Until two saves overlap.                                                *)
(***************************************************************************)

\* No file, nothing saved.
LEMMA InitSerial == Init => SerialInv
BY DEF Init, SerialInv, SaveOwnsTmp, SerialLiveComplete, LiveComplete,
       DurableWhenIdle, Savers

\* Before an overlap no step lets the store, the temporary file and the memory
\* fall apart; after one nothing is claimed.
LEMMA NextSerial == IdentityInv /\ SerialInv /\ [Next]_vars => SerialInv'
<1> SUFFICES ASSUME IdentityInv, [Next]_vars, ~overlapped', ~overlapped,
                    SaveOwnsTmp, LiveComplete, DurableWhenIdle
             PROVE  SaveOwnsTmp' /\ LiveComplete' /\ DurableWhenIdle'
  <2>1. [Next]_vars => (overlapped => overlapped')
    BY DEF Next, vars, Start, StartFails, LoadIdentity, CreateIdentity, Crash,
           create_route, update_route, delete_route, save_settings, Change,
           save, Snapshot, OpenTmp, WriteTmp, RenameTmp, Saved,
           RenameFindsNothing, DiskFault, Unsaved, procVars
  <2> QED
    BY <2>1 DEF SerialInv, SerialLiveComplete, DurableWhenIdle
<1> USE DEF IdentityInv
<1>1. CASE UNCHANGED vars
  BY <1>1 DEF vars, SaveOwnsTmp, LiveComplete, DurableWhenIdle, Idle
<1>2. CASE Start
  <2>1. \A t \in Savers : step[t] = "idle"
    BY <1>2 DEF Start, SavesFitProcess
  <2> QED
    BY <1>2, <2>1 DEF Start, SaveOwnsTmp, LiveComplete, DurableWhenIdle
<1>3. CASE StartFails
  BY <1>3, <1>1 DEF StartFails
<1>4. CASE LoadIdentity
  BY <1>4 DEF LoadIdentity, AnnouncedIsKept, SaveOwnsTmp, LiveComplete,
              DurableWhenIdle
<1>5. CASE CreateIdentity
  <2>1. \A t \in Savers : step[t] = "idle"
    BY <1>5 DEF CreateIdentity, SavesFitProcess, Savers
  <2> QED
    BY <1>5, <2>1 DEF CreateIdentity, TypeOK, SaveOwnsTmp, LiveComplete,
                      DurableWhenIdle, Savers
<1>6. CASE Crash
  BY <1>6 DEF Crash, SaveOwnsTmp, LiveComplete, DurableWhenIdle
<1>7. ASSUME NEW q \in Requests,
             \/ \E r \in RouteIds, d \in Domains :
                  create_route(q, r, d) \/ update_route(q, r, d)
             \/ \E r \in RouteIds : delete_route(q, r)
             \/ save_settings(q)
      PROVE  SaveOwnsTmp' /\ LiveComplete' /\ DurableWhenIdle'
  <2>1. PICK store \in Stores : Change(q, store)
    BY <1>7, HandlersChange DEF TypeOK
  <2>2. \A t \in Savers : step[t] = "idle"
    BY <2>1 DEF Change, Idle
  <2>3. q \in Savers /\ step'[q] # "idle"
    BY <2>1 DEF Change, TypeOK, Savers
  <2>4. SaveOwnsTmp'
    BY <2>1, <2>2 DEF Change, TypeOK, SaveOwnsTmp
  <2>5. LiveComplete' /\ DurableWhenIdle'
    BY <2>1, <2>3 DEF Change, LiveComplete, DurableWhenIdle, Idle
  <2> QED BY <2>4, <2>5
<1>8. ASSUME NEW t \in Savers, save(t)
      PROVE  SaveOwnsTmp' /\ LiveComplete' /\ DurableWhenIdle'
  <2>1. step[t] # "idle"
    BY <1>8 DEF save, Snapshot, OpenTmp, WriteTmp, RenameTmp,
                RenameFindsNothing, DiskFault
  <2>2. \A s \in Savers : s # t => step[s] = "idle"
    BY <2>1 DEF SaveOwnsTmp
  <2>3. CASE Snapshot(t)
    BY <2>2, <2>3 DEF Snapshot, procVars, TypeOK, SaveOwnsTmp, LiveComplete,
                      DurableWhenIdle, Idle
  <2>4. CASE OpenTmp(t)
    <3>1. PICK i \in Inodes :
            /\ IF tmp = None THEN Unused(i) ELSE i = tmp
            /\ tmp' = i
            /\ fd' = [fd EXCEPT ![t] = i]
            /\ file' = [file EXCEPT ![i] = Empty]
      BY <2>4 DEF OpenTmp
    <3>2. i # live
      BY <3>1 DEF Unused, SaveOwnsTmp
    <3>3. SaveOwnsTmp'
      BY <2>2, <2>4, <3>1, <3>2 DEF OpenTmp, procVars, TypeOK, SaveOwnsTmp
    <3>4. LiveComplete' /\ DurableWhenIdle'
      BY <2>4, <3>1, <3>2 DEF OpenTmp, procVars, TypeOK, LiveComplete,
                              DurableWhenIdle, Idle
    <3> QED BY <3>3, <3>4
  <2>5. CASE WriteTmp(t)
    <3>1. fd[t] = tmp /\ tmp \in Inodes /\ tmp # live /\ snap[t] = mem
      BY <2>5 DEF WriteTmp, SaveOwnsTmp, TypeOK, SavesFitProcess
    <3>2. file' = [file EXCEPT ![tmp] = mem]
      BY <2>5, <3>1 DEF WriteTmp, SaveOwnsTmp
    <3>3. SaveOwnsTmp'
      BY <2>2, <2>5, <3>1, <3>2 DEF WriteTmp, procVars, TypeOK, SaveOwnsTmp
    <3>4. LiveComplete' /\ DurableWhenIdle'
      BY <2>5, <3>1, <3>2 DEF WriteTmp, procVars, TypeOK, LiveComplete,
                              DurableWhenIdle, Idle
    <3> QED BY <3>3, <3>4
  <2>6. CASE RenameTmp(t)
    <3>1. file[tmp] = mem /\ mem \notin Unparsable
      BY <2>6, StoresParse DEF RenameTmp, SaveOwnsTmp, TypeOK
    <3>2. SaveOwnsTmp'
      BY <2>2, <2>6 DEF RenameTmp, Saved, TypeOK, SaveOwnsTmp
    <3>3. LiveComplete' /\ DurableWhenIdle'
      BY <2>6, <3>1 DEF RenameTmp, Saved, LiveComplete, DurableWhenIdle
    <3> QED BY <3>2, <3>3
  <2>7. CASE RenameFindsNothing(t)
    BY <2>7 DEF RenameFindsNothing, SaveOwnsTmp
  <2>8. CASE DiskFault(t)
    <3>1. step[t] = "write" => fd[t] = tmp /\ tmp # live
      BY DEF SaveOwnsTmp, SavesFitProcess
    <3>2. SaveOwnsTmp'
      BY <2>2, <2>8 DEF DiskFault, Unsaved, TypeOK, SaveOwnsTmp
    <3>3. LiveComplete' /\ DurableWhenIdle'
      BY <2>8, <3>1 DEF DiskFault, Unsaved, TypeOK, LiveComplete, DurableWhenIdle
    <3> QED BY <3>2, <3>3
  <2> QED BY <1>8, <2>3, <2>4, <2>5, <2>6, <2>7, <2>8 DEF save
<1> QED BY <1>1, <1>2, <1>3, <1>4, <1>5, <1>6, <1>7, <1>8 DEF Next

\* Until two saves overlap, a crash at any point of a save leaves a store that
\* the next start can load: the temporary file and the rename of `save` do what
\* its comment says.
THEOREM SerialSavesAreAtomic == Spec => []SerialLiveComplete
<1>1. SerialInv => SerialLiveComplete
  BY DEF SerialInv
<1> QED BY <1>1, InitSerial, NextSerial, IdentityInvariant, PTL DEF Spec

\* Under the same condition an idle relay whose last save succeeded has on disk
\* what it has in memory.
THEOREM SerialSavesAreDurable == Spec => []DurableWhenIdle
<1>1. SerialInv => DurableWhenIdle
  BY DEF SerialInv
<1> QED BY <1>1, InitSerial, NextSerial, IdentityInvariant, PTL DEF Spec
=============================================================================
