----------------------------- MODULE RouteStore -----------------------------
(***************************************************************************)
(* The relay's persistent store (store.rs): proxy routes, Cloudflare       *)
(* settings and the relay's identity, kept in memory behind an RwLock and  *)
(* saved to one JSON file by the admin handlers (admin.rs) and, once, by   *)
(* load_or_create_identity at boot (main.rs).                              *)
(*                                                                         *)
(* A save takes a snapshot under the read lock, releases it, writes the    *)
(* snapshot to a temporary file whose name every save shares, and renames  *)
(* that file over the store.  The file system is modelled by inodes:       *)
(* opening for writing truncates the inode the temporary name leads to, a  *)
(* writer keeps its inode even after a rename, and a rename moves whatever *)
(* the temporary name leads to.  The process may die between any two of    *)
(* these steps and be restarted.                                           *)
(***************************************************************************)
EXTENDS Naturals, FiniteSets

CONSTANTS
    RouteIds,   \* ids of proxy routes (uuids)
    Domains,    \* the domains they are for
    Tokens,     \* Cloudflare API tokens an operator may set
    Idents,     \* the identities the relay may generate: bounds first boots
    Inodes,     \* inodes of the store's directory
    Requests,   \* concurrent admin requests that save
    Boot,       \* the save made by load_or_create_identity
    None,       \* no domain, no identity, no file
    Empty,      \* the contents of a file just created or truncated
    Torn,       \* contents that are part of a save, or parts of several
    DiskFaults  \* file operations may fail

ASSUME StoreAssumption ==
    /\ None \notin Domains \cup Tokens \cup Idents \cup Inodes
    /\ Boot \notin Requests
    /\ DiskFaults \in BOOLEAN

\* Text that serde_json does not accept.
Unparsable == {Empty, Torn}

Savers == Requests \cup {Boot}

\* Store: `cf` is None, Some with a blank token, or Some with a token.
Stores == [routes : [RouteIds -> Domains \cup {None}],
           cf     : Tokens \cup {"blank", None},
           id     : Idents \cup {None}]

ASSUME TextAssumption == Unparsable \cap Stores = {}

DefaultStore == [routes |-> [r \in RouteIds |-> None], cf |-> None, id |-> None]

VARIABLES
    proc,       \* the relay process: "off", "boot" (before main serves), "on"
    mem,        \* SharedStore
    step,       \* how far each save is
    snap,       \* the text each save has serialised
    fd,         \* the inode each save has open
    file,       \* what an inode holds: a store, or text that does not parse
    tmp, live,  \* the inodes of <store>.json.tmp and of the store
    advertised, \* history: the identities whose keys were printed at boot
    generated,  \* history: the identities generated so far
    failed,     \* history: the last save of this process that ended failed
    overlapped  \* history: a save has begun while another was in progress

procVars == <<proc, mem, advertised, generated, overlapped>>
vars == <<proc, mem, step, snap, fd, file, tmp, live, advertised, generated,
          failed, overlapped>>

TypeOK ==
    /\ proc \in {"off", "boot", "on"}
    /\ mem \in Stores
    /\ step \in [Savers -> {"idle", "save", "open", "write", "rename"}]
    /\ snap \in [Savers -> Stores]
    /\ fd \in [Savers -> Inodes \cup {None}]
    /\ file \in [Inodes -> Stores \cup Unparsable]
    /\ tmp \in Inodes \cup {None}
    /\ live \in Inodes \cup {None}
    /\ advertised \subseteq Idents
    /\ generated \subseteq Idents
    /\ failed \in BOOLEAN
    /\ overlapped \in BOOLEAN

\* The first installation: no file yet.
Init ==
    /\ proc = "off"
    /\ mem = DefaultStore
    /\ step = [t \in Savers |-> "idle"]
    /\ snap = [t \in Savers |-> DefaultStore]
    /\ fd = [t \in Savers |-> None]
    /\ file = [i \in Inodes |-> Empty]
    /\ tmp = None /\ live = None
    /\ advertised = {} /\ generated = {}
    /\ failed = FALSE
    /\ overlapped = FALSE

Idle == \A t \in Savers : step[t] = "idle"

\* An inode that no name and no writer refers to.
Unused(i) == i \notin {tmp, live} /\ \A t \in Savers : fd[t] # i

-----------------------------------------------------------------------------
(***************************************************************************)
(* The process: load, load_or_create_identity, crash.                      *)
(***************************************************************************)

\* A missing file is an empty store; one that does not parse fails startup.
Start ==
    /\ proc = "off"
    /\ \/ live = None /\ mem' = DefaultStore
       \/ live # None /\ file[live] \notin Unparsable /\ mem' = file[live]
    /\ proc' = "boot"
    /\ failed' = FALSE
    /\ UNCHANGED <<step, snap, fd, file, tmp, live, advertised, generated,
                   overlapped>>

StartFails ==
    /\ proc = "off"
    /\ live # None /\ file[live] \in Unparsable
    /\ UNCHANGED vars

\* The process goes on to print its keys and serve.
Advertise ==
    /\ proc' = "on"
    /\ advertised' = advertised \cup {mem.id}

LoadIdentity ==
    /\ proc = "boot" /\ step[Boot] = "idle" /\ mem.id # None
    /\ Advertise
    /\ UNCHANGED <<mem, step, snap, fd, file, tmp, live, generated, failed,
                   overlapped>>

CreateIdentity ==
    /\ proc = "boot" /\ step[Boot] = "idle" /\ mem.id = None
    /\ \E x \in Idents \ generated :
        /\ mem' = [mem EXCEPT !.id = x]
        /\ generated' = generated \cup {x}
    /\ step' = [step EXCEPT ![Boot] = "save"]
    /\ UNCHANGED <<proc, snap, fd, file, tmp, live, advertised, failed,
                   overlapped>>

\* The process dies: killed, or exiting 5 s after SIGTERM.
Crash ==
    /\ proc # "off"
    /\ proc' = "off"
    /\ mem' = DefaultStore
    /\ step' = [t \in Savers |-> "idle"]
    /\ snap' = [t \in Savers |-> DefaultStore]
    /\ fd' = [t \in Savers |-> None]
    /\ UNCHANGED <<file, tmp, live, advertised, generated, failed, overlapped>>

-----------------------------------------------------------------------------
(***************************************************************************)
(* The admin handlers: change the store under the write lock, then save.   *)
(***************************************************************************)

Change(q, store) ==
    /\ proc = "on" /\ step[q] = "idle"
    /\ mem' = store
    /\ step' = [step EXCEPT ![q] = "save"]
    /\ overlapped' = (overlapped \/ ~Idle)
    /\ UNCHANGED <<proc, snap, fd, file, tmp, live, advertised, generated, failed>>

\* A domain that is already routed is answered 409 and changes nothing.
create_route(q, r, d) ==
    /\ mem.routes[r] = None
    /\ \A other \in RouteIds : mem.routes[other] # d
    /\ Change(q, [mem EXCEPT !.routes[r] = d])

\* No look at the other routes: two routes may end up with one domain.
update_route(q, r, d) ==
    /\ mem.routes[r] # None
    /\ Change(q, [mem EXCEPT !.routes[r] = d])

delete_route(q, r) ==
    /\ mem.routes[r] # None
    /\ Change(q, [mem EXCEPT !.routes[r] = None])

\* A token that is absent, empty or masked keeps the existing one.
save_settings(q) ==
    \E token \in Tokens \cup {IF mem.cf = None THEN "blank" ELSE mem.cf} :
        Change(q, [mem EXCEPT !.cf = token])

-----------------------------------------------------------------------------
(***************************************************************************)
(* save.                                                                   *)
(***************************************************************************)

Snapshot(t) ==
    /\ step[t] = "save"
    /\ snap' = [snap EXCEPT ![t] = mem]
    /\ step' = [step EXCEPT ![t] = "open"]
    /\ UNCHANGED <<procVars, fd, file, tmp, live, failed>>

\* Mutant of OpenTmp: the store is written in place.
OpenInPlace(t) ==
    /\ step[t] = "open"
    /\ \E i \in Inodes :
        /\ IF live = None THEN Unused(i) ELSE i = live
        /\ live' = i
        /\ fd' = [fd EXCEPT ![t] = i]
        /\ file' = [file EXCEPT ![i] = Empty]
    /\ step' = [step EXCEPT ![t] = "write"]
    /\ UNCHANGED <<procVars, snap, tmp, failed>>

\* Open <store>.json.tmp: the file that is there is truncated, or a new one
\* is created.
OpenTmp(t) ==
    /\ step[t] = "open"
    /\ \E i \in Inodes :
        /\ IF tmp = None THEN Unused(i) ELSE i = tmp
        /\ tmp' = i
        /\ fd' = [fd EXCEPT ![t] = i]
        /\ file' = [file EXCEPT ![i] = Empty]
    /\ step' = [step EXCEPT ![t] = "write"]
    /\ UNCHANGED <<procVars, snap, live, failed>>

\* Write from offset 0.  What another writer left in the inode meanwhile is
\* overwritten, up to a tail when it was longer.
WriteTmp(t) ==
    /\ step[t] = "write"
    /\ \E text \in {snap[t]} \cup
            (IF file[fd[t]] \in {Empty, snap[t]} THEN {} ELSE {Torn}) :
        file' = [file EXCEPT ![fd[t]] = text]
    /\ fd' = [fd EXCEPT ![t] = None]
    /\ step' = [step EXCEPT ![t] = "rename"]
    /\ UNCHANGED <<procVars, snap, tmp, live, failed>>

\* A save that succeeds ends the boot, or lets a request answer.
Saved(t) ==
    /\ step' = [step EXCEPT ![t] = "idle"]
    /\ failed' = FALSE
    /\ snap' = [snap EXCEPT ![t] = DefaultStore]
    /\ IF t = Boot THEN Advertise ELSE UNCHANGED <<proc, advertised>>
    /\ UNCHANGED <<mem, generated, overlapped>>

\* Mutant of RenameTmp: the rename is forgotten.
RenameForgotten(t) ==
    /\ step[t] = "rename" /\ tmp # None
    /\ Saved(t)
    /\ UNCHANGED <<fd, file, tmp, live>>

RenameTmp(t) ==
    /\ step[t] = "rename" /\ tmp # None
    /\ live' = tmp
    /\ tmp' = None
    /\ Saved(t)
    /\ UNCHANGED <<fd, file>>

\* Mutant of Unsaved: load_or_create_identity ignores the error as well.
UnsavedIgnored(t) ==
    /\ failed' = TRUE
    /\ IF t = Boot THEN Advertise ELSE UNCHANGED <<proc, advertised>>
    /\ step' = [step EXCEPT ![t] = "idle"]
    /\ snap' = [snap EXCEPT ![t] = DefaultStore]
    /\ fd' = [fd EXCEPT ![t] = None]
    /\ UNCHANGED <<mem, generated, overlapped>>

\* A save that fails ends main (`?` in load_or_create_identity); an admin
\* handler ignores it (`.ok()`).
Unsaved(t) ==
    /\ failed' = TRUE
    /\ IF t = Boot THEN proc' = "off" /\ mem' = DefaultStore
                   ELSE UNCHANGED <<proc, mem>>
    /\ step' = [step EXCEPT ![t] = "idle"]
    /\ snap' = [snap EXCEPT ![t] = DefaultStore]
    /\ fd' = [fd EXCEPT ![t] = None]
    /\ UNCHANGED <<advertised, generated, overlapped>>

\* The temporary name is gone: another save renamed it first.
RenameFindsNothing(t) ==
    /\ step[t] = "rename" /\ tmp = None
    /\ Unsaved(t)
    /\ UNCHANGED <<file, tmp, live>>

\* A directory, an open or a rename that fails; a write that stops half way.
DiskFault(t) ==
    /\ DiskFaults
    /\ step[t] \in {"open", "write", "rename"}
    /\ IF step[t] = "write"
       THEN file' = [file EXCEPT ![fd[t]] = Torn]
       ELSE UNCHANGED file
    /\ Unsaved(t)
    /\ UNCHANGED <<tmp, live>>

save(t) ==
    \/ Snapshot(t) \/ OpenTmp(t) \/ WriteTmp(t) \/ RenameTmp(t)
    \/ RenameFindsNothing(t) \/ DiskFault(t)

Next ==
    \/ Start \/ StartFails \/ LoadIdentity \/ CreateIdentity \/ Crash
    \/ \E q \in Requests :
        \/ \E r \in RouteIds, d \in Domains :
            create_route(q, r, d) \/ update_route(q, r, d)
        \/ \E r \in RouteIds : delete_route(q, r)
        \/ save_settings(q)
    \/ \E t \in Savers : save(t)

Spec == Init /\ [][Next]_vars

-----------------------------------------------------------------------------
\* store.rs: "Write to a temp file then rename - atomic on POSIX, prevents
\* corruption on crash."  At every instant, so whenever the process dies, the
\* store is absent or a file the next start can load.
LiveComplete == live # None => file[live] \notin Unparsable

\* What the temporary file and the rename of `save` do achieve: until two saves
\* overlap, no crash and no disk fault at any step leaves a store that the next
\* start cannot load.
SerialLiveComplete == ~overlapped => LiveComplete

\* Until two saves overlap, when no save is in progress and the last one did not
\* fail, what a restart would load is what the relay has in memory.
DurableWhenIdle ==
    ~overlapped /\ proc = "on" /\ Idle /\ ~failed =>
        live # None /\ file[live] = mem

\* README, "Identity persistence": "The relay saves its keypair to
\* `seamless-relay.json` on first boot and reloads it on restart."  Whatever
\* crashes, disk faults and concurrent saves happen, no restart ever announces
\* keys other than the ones announced first.
IdentityStable == \A x, y \in advertised : x = y

(***************************************************************************)
(* Why SerialLiveComplete and DurableWhenIdle hold.                        *)
(***************************************************************************)

\* The temporary file belongs to the one save in progress, which has in hand,
\* and then in the file, exactly what is in memory.
SaveOwnsTmp ==
    /\ tmp # None => tmp # live
    /\ \A s, t \in Savers : step[s] # "idle" /\ step[t] # "idle" => s = t
    /\ \A t \in Savers :
        /\ step[t] \in {"open", "write", "rename"} => snap[t] = mem
        /\ step[t] = "write" => fd[t] = tmp /\ file[tmp] = Empty
        /\ step[t] = "rename" => tmp # None /\ file[tmp] = mem

SerialInv ==
    /\ ~overlapped => SaveOwnsTmp
    /\ SerialLiveComplete
    /\ DurableWhenIdle

(***************************************************************************)
(* Why IdentityStable holds.                                               *)
(***************************************************************************)

\* main serves, and requests save, only once the boot save is over.
SavesFitProcess ==
    \A t \in Savers :
        /\ step[t] # "idle" => proc = (IF t = Boot THEN "boot" ELSE "on")
        /\ fd[t] # None <=> step[t] = "write"

\* Every text a save has in hand carries the identity in memory, and so does
\* what the temporary name leads to while a save may rename it.
SavesCarryIdentity ==
    \A t \in Savers :
        /\ step[t] # "idle" => mem.id # None
        /\ step[t] \in {"open", "write", "rename"} => snap[t].id = mem.id
        /\ step[t] \in {"write", "rename"} /\ tmp # None /\ file[tmp] \notin Unparsable
           => file[tmp].id = mem.id

\* An identity found at boot is the one on disk.  Once keys were announced, the
\* store is on disk, and the disk and the memory of a running relay hold no
\* other identity.
AnnouncedIsKept ==
    /\ proc = "boot" /\ step[Boot] = "idle" /\ mem.id # None =>
        live # None /\ file[live] = mem
    /\ proc = "on" => mem.id \in advertised
    /\ advertised # {} =>
        /\ live # None
        /\ file[live] \notin Unparsable => file[live].id \in advertised
        /\ proc = "boot" => mem.id \in advertised /\ step[Boot] = "idle"

IdentityInv ==
    /\ TypeOK
    /\ SavesFitProcess
    /\ SavesCarryIdentity
    /\ AnnouncedIsKept
    /\ IdentityStable
=============================================================================
