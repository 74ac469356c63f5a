------------------------------ MODULE Backends ------------------------------
(***************************************************************************)
(* The extra backends of one tunnel and the tasks that watch their health  *)
(* (admin.rs, the "Load Balancing" section; BackendEntry in tunnel.rs).    *)
(*                                                                         *)
(* A tunnel's entry holds a list of backends.  Every add pushes one and    *)
(* spawns one task, and every task probes ALL the backends of the list, at *)
(* every tick of its own 30 s interval, counting failures by itself: two   *)
(* backends are watched by two tasks that write the same `healthy` flags   *)
(* without agreeing on anything.  A forced check of the admin API is one   *)
(* more writer.  The tasks hold the list, not the tunnel: they outlive it, *)
(* and only an empty list stops them.                                      *)
(*                                                                         *)
(* A task is named after the backend whose add spawned it.  The request    *)
(* and error counters of a backend and the weighted choice among backends  *)
(* (select_backend) are not here: nothing calls them.                      *)
(***************************************************************************)
EXTENDS Integers, Sequences, SequencesExt

CONSTANTS
    Backends,   \* the identifiers of BackendEntry::new: each is added once
    FailLimit   \* consecutive failed probes that make a backend unhealthy

ASSUME FailLimitAssumption == FailLimit \in Nat \ {0}

VARIABLES
    live,     \* the tunnel's entry is in the map
    list,     \* the entry's backends, in the order they were pushed
    healthy,  \* the flag of each backend
    calls,    \* admin calls that found the entry and have not finished:
              \* [op, b], for a forced check also what the probe answered
    known,    \* the backends that some call has pushed or is about to push
    task,     \* each task: at, the clone of the list it still has to probe,
              \* the answer of the probe under way, and its own fail_counts
    up,       \* external: the backends that accept a connection
    forcedDown  \* history: the last write to the flag is a forced check's
                \* failure

vars == <<live, list, healthy, calls, known, task, up, forcedDown>>

-----------------------------------------------------------------------------
(* Types and initial state *)

Calls == [op : {"add", "remove", "find"}, b : Backends]
         \cup [op : {"store"}, b : Backends, ok : BOOLEAN]

TaskStates == {"none", "tick", "probe", "answered", "over"}
Running == {"tick", "probe", "answered"}

Tasks == [at : TaskStates, todo : Seq(Backends), ok : BOOLEAN,
          fails : [Backends -> 0..FailLimit]]

TypeOK ==
    /\ live \in BOOLEAN
    /\ list \in Seq(Backends)
    /\ healthy \in [Backends -> BOOLEAN]
    /\ calls \subseteq Calls
    /\ known \subseteq Backends
    /\ task \in [Backends -> Tasks]
    /\ up \subseteq Backends
    /\ forcedDown \subseteq Backends

Listed == ToSet(list)

NoFails == [b \in Backends |-> 0]

(* interval(30 s) with its first, immediate tick discarded; fail_counts is *)
(* empty.                                                                  *)
SpawnHealthCheck(t) ==
    [t EXCEPT !.at = "tick", !.fails = NoFails]

Init ==
    /\ live = TRUE
    /\ list = << >>
    /\ healthy = [b \in Backends |-> TRUE]
    /\ calls = {}
    /\ known = {}
    /\ task = [b \in Backends |->
                 [at |-> "none", todo |-> << >>, ok |-> FALSE,
                  fails |-> NoFails]]
    /\ up \in SUBSET Backends
    /\ forcedDown = {}

-----------------------------------------------------------------------------
(* The admin calls.  Each first looks the tunnel up, under the map's lock, *)
(* and then works on the entry it cloned out of it, whether or not the     *)
(* tunnel has ended by then.                                               *)

Lookup(op, b) ==
    /\ live
    /\ calls' = calls \cup {[op |-> op, b |-> b]}

AddLookup(b) ==
    /\ b \notin known
    /\ known' = known \cup {b}
    /\ Lookup("add", b)
    /\ UNCHANGED <<live, list, healthy, task, up, forcedDown>>

\* Mutant: only the first backend ever added spawns a task.
AddBackendSpawnsOnce(b) ==
    /\ [op |-> "add", b |-> b] \in calls
    /\ calls' = calls \ {[op |-> "add", b |-> b]}
    /\ list' = Append(list, b)
    /\ task' = IF \A t \in Backends : task[t].at = "none"
               THEN [task EXCEPT ![b] = SpawnHealthCheck(@)] ELSE task
    /\ UNCHANGED <<live, healthy, known, up, forcedDown>>

(* The push, and the task spawned right after it. *)
AddBackend(b) ==
    /\ [op |-> "add", b |-> b] \in calls
    /\ calls' = calls \ {[op |-> "add", b |-> b]}
    /\ list' = Append(list, b)
    /\ task' = [task EXCEPT ![b] = SpawnHealthCheck(@)]
    /\ UNCHANGED <<live, healthy, known, up, forcedDown>>

RemoveLookup(b) ==
    /\ b \in known
    /\ Lookup("remove", b)
    /\ UNCHANGED <<live, list, healthy, known, task, up, forcedDown>>

(* retain: no identifier is twice in the list (Distinct), so one element   *)
(* goes.  A backend that is not in the list is answered 404, and the list  *)
(* stays as it is.                                                         *)
RemoveBackend(b) ==
    /\ [op |-> "remove", b |-> b] \in calls
    /\ calls' = calls \ {[op |-> "remove", b |-> b]}
    /\ \/ \E i \in DOMAIN list : list[i] = b /\ list' = RemoveAt(list, i)
       \/ b \notin Listed /\ UNCHANGED list
    /\ UNCHANGED <<live, healthy, known, task, up, forcedDown>>

ForceLookup(b) ==
    /\ b \in Listed
    /\ Lookup("find", b)
    /\ UNCHANGED <<live, list, healthy, known, task, up, forcedDown>>

(* tcp_health_check answers within 3 s; the flag is stored afterwards, by  *)
(* when the backend may have changed and may even be out of the list.      *)
ForceProbe(b) ==
    /\ [op |-> "find", b |-> b] \in calls
    /\ calls' = (calls \ {[op |-> "find", b |-> b]})
                  \cup {[op |-> "store", b |-> b, ok |-> b \in up]}
    /\ UNCHANGED <<live, list, healthy, known, task, up, forcedDown>>

ForceStore(b, ok) ==
    /\ [op |-> "store", b |-> b, ok |-> ok] \in calls
    /\ calls' = calls \ {[op |-> "store", b |-> b, ok |-> ok]}
    /\ healthy' = [healthy EXCEPT ![b] = ok]
    /\ forcedDown' = IF ok THEN forcedDown \ {b} ELSE forcedDown \cup {b}
    /\ UNCHANGED <<live, list, known, task, up>>

-----------------------------------------------------------------------------
(* The health task *)

(* The tick: the task clones the list, and stops if it is empty. *)
TickEmpty(t) ==
    /\ task[t].at = "tick"
    /\ list = << >>
    /\ task' = [task EXCEPT ![t].at = "over", ![t].fails = NoFails]
    /\ UNCHANGED <<live, list, healthy, calls, known, up, forcedDown>>

Tick(t) ==
    /\ task[t].at = "tick"
    /\ list # << >>
    /\ task' = [task EXCEPT ![t].at = "probe", ![t].todo = list]
    /\ UNCHANGED <<live, list, healthy, calls, known, up, forcedDown>>

(* The connection to the first backend left succeeds, or fails or takes    *)
(* longer than 3 s.                                                        *)
Probe(t) ==
    /\ task[t].at = "probe"
    /\ task' = [task EXCEPT ![t].at = "answered",
                            ![t].ok = Head(task[t].todo) \in up]
    /\ UNCHANGED <<live, list, healthy, calls, known, up, forcedDown>>

\* Mutant: fail_counts is created anew at every tick.
NextProbeRecounts(r, fails) ==
    [r EXCEPT !.at = IF Len(r.todo) = 1 THEN "tick" ELSE "probe",
              !.todo = Tail(@),
              !.ok = FALSE,
              !.fails = IF Len(r.todo) = 1 THEN NoFails ELSE fails]

(* The task after it has dealt with the answer: on to the next backend of  *)
(* its clone, or to the next tick.                                         *)
NextProbe(r, fails) ==
    [r EXCEPT !.at = IF Len(r.todo) = 1 THEN "tick" ELSE "probe",
              !.todo = Tail(@),
              !.ok = FALSE,
              !.fails = fails]

(* A success makes the backend healthy whatever the others count. *)
ProbeSucceeded(t) ==
    LET b == Head(task[t].todo) IN
    /\ task[t].at = "answered"
    /\ task[t].ok
    /\ healthy' = [healthy EXCEPT ![b] = TRUE]
    /\ forcedDown' = forcedDown \ {b}
    /\ task' = [task EXCEPT ![t] = NextProbe(@, [@.fails EXCEPT ![b] = 0])]
    /\ UNCHANGED <<live, list, calls, known, up>>

\* Mutant: the flag falls one failure too early.
ProbeFailedEarly(t) ==
    LET b == Head(task[t].todo)
        old == task[t].fails[b]
        count == IF old < FailLimit THEN old + 1 ELSE old IN
    /\ task[t].at = "answered"
    /\ ~task[t].ok
    /\ healthy' = [healthy EXCEPT ![b] = @ /\ count + 1 < FailLimit]
    /\ forcedDown' = IF count < FailLimit THEN forcedDown ELSE forcedDown \ {b}
    /\ task' = [task EXCEPT ![t] = NextProbe(@, [@.fails EXCEPT ![b] = count])]
    /\ UNCHANGED <<live, list, calls, known, up>>

(* A failure is counted (the count is only compared with FailLimit, so it  *)
(* is kept up to there), and the flag falls at FailLimit in a row.         *)
ProbeFailed(t) ==
    LET b == Head(task[t].todo)
        old == task[t].fails[b]
        count == IF old < FailLimit THEN old + 1 ELSE old IN
    /\ task[t].at = "answered"
    /\ ~task[t].ok
    /\ healthy' = [healthy EXCEPT ![b] = @ /\ count < FailLimit]
    /\ forcedDown' = IF count < FailLimit THEN forcedDown ELSE forcedDown \ {b}
    /\ task' = [task EXCEPT ![t] = NextProbe(@, [@.fails EXCEPT ![b] = count])]
    /\ UNCHANGED <<live, list, calls, known, up>>

-----------------------------------------------------------------------------
(* The surroundings *)

(* The tunnel ends: its entry leaves the map.  The tasks and the calls     *)
(* that cloned the entry still have its list.                              *)
TunnelEnds ==
    /\ live
    /\ live' = FALSE
    /\ UNCHANGED <<list, healthy, calls, known, task, up, forcedDown>>

(* A backend starts or stops accepting connections. *)
Toggle(b) ==
    /\ up' = IF b \in up THEN up \ {b} ELSE up \cup {b}
    /\ UNCHANGED <<live, list, healthy, calls, known, task, forcedDown>>

CallStep(b) ==
    \/ AddBackend(b) \/ RemoveBackend(b)
    \/ ForceProbe(b) \/ \E ok \in BOOLEAN : ForceStore(b, ok)

TaskStep(t) ==
    \/ TickEmpty(t) \/ Tick(t)
    \/ Probe(t) \/ ProbeSucceeded(t) \/ ProbeFailed(t)

Next ==
    \/ \E b \in Backends :
         \/ AddLookup(b) \/ RemoveLookup(b) \/ ForceLookup(b)
         \/ CallStep(b) \/ TaskStep(b) \/ Toggle(b)
    \/ TunnelEnds

(* The runtime schedules every task, the interval ticks, a probe takes at  *)
(* most 3 s.                                                               *)
Fairness == \A b \in Backends : WF_vars(CallStep(b)) /\ WF_vars(TaskStep(b))

Spec == Init /\ [][Next]_vars /\ Fairness

-----------------------------------------------------------------------------
(* Properties *)

(* A backend of the list that is marked unhealthy was marked by a task     *)
(* whose own last FailLimit probes of it all failed, and which has not     *)
(* seen it up since, or by a forced check that failed: no glitch of fewer  *)
(* probes takes a backend out, although several tasks write the flag.      *)
UnhealthyBacked ==
    \A b \in Listed :
        ~healthy[b] =>
            \/ b \in forcedDown
            \/ \E t \in Backends : task[t].fails[b] = FailLimit

(* A list that is not empty is watched: although a task stops for good     *)
(* when it meets an empty list, and other adds and removals fall between   *)
(* its ticks, there is always one that will clone the list again.          *)
ListWatched == list # << >> => \E t \in Backends : task[t].at \in Running

(* More precisely, the task that the push of a backend spawned runs while  *)
(* the backend is in the list.                                             *)
OwnTaskRuns == \A b \in Listed : task[b].at \in Running

(* No backend is twice in the list. *)
Distinct == \A i, j \in DOMAIN list : list[i] = list[j] => i = j

(* A task has a clone to probe while it probes. *)
Cloned == \A t \in Backends : task[t].at \in {"probe", "answered"} => task[t].todo # << >>

(* Nothing but its add knows a backend that has not been pushed: it is     *)
(* healthy, nobody probes it and its task has not been spawned.            *)
Unpushed(b) ==
    /\ healthy[b] /\ b \notin Listed
    /\ task[b].at = "none" /\ task[b].fails = NoFails
    /\ \A t \in Backends : b \notin ToSet(task[t].todo)
    /\ \A r \in calls : r.b = b => r.op \in {"add", "remove"}

AddsAreNew ==
    \A b \in Backends :
        /\ [op |-> "add", b |-> b] \in calls => b \in known /\ Unpushed(b)
        /\ b \notin known => Unpushed(b)

(* The inductive invariant. *)
BackendsInv == TypeOK /\ Distinct /\ Cloned /\ AddsAreNew /\ UnhealthyBacked

(* The flag follows the backend: one that stays in the list and stays up   *)
(* ends up healthy for good, one that stays down ends up unhealthy for     *)
(* good, whatever stale answers were under way and whichever tasks have    *)
(* stopped.                                                                *)
HealthFollows ==
    \A b \in Backends :
        /\ <>[](b \in Listed /\ b \in up) => <>[]healthy[b]
        /\ <>[](b \in Listed /\ b \notin up) => <>[]~healthy[b]

=============================================================================
