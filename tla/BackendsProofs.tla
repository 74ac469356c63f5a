--------------------------- MODULE BackendsProofs ---------------------------
(***************************************************************************)
(* A backend is unhealthy only for a reason, for any number of backends,   *)
(* tasks and admin calls and every limit of failures.                      *)
(***************************************************************************)
EXTENDS Backends, TLAPS

USE FailLimitAssumption

(***************************************************************************)
(* The elements of a sequence after a push, a removal and a step of the    *)
(* loop over a clone.                                                      *)
(***************************************************************************)
LEMMA PushedSet ==
  ASSUME NEW S, NEW s \in Seq(S), NEW e \in S
  PROVE  /\ Append(s, e) \in Seq(S) /\ DOMAIN Append(s, e) = 1..Len(s) + 1
         /\ ToSet(Append(s, e)) = ToSet(s) \cup {e}
  <1>1. /\ Append(s, e) \in Seq(S) /\ DOMAIN Append(s, e) = 1..Len(s) + 1
        /\ \A i \in 1..Len(s) : Append(s, e)[i] = s[i]
        /\ Append(s, e)[Len(s) + 1] = e
        /\ DOMAIN s = 1..Len(s) /\ Len(s) \in Nat
    OBVIOUS
  <1>2. 1..Len(s) + 1 = (1..Len(s)) \cup {Len(s) + 1}
    BY <1>1
  <1> QED
    BY <1>1, <1>2 DEF ToSet

LEMMA TailSet ==
  ASSUME NEW S, NEW s \in Seq(S), s # << >>
  PROVE  /\ Tail(s) \in Seq(S) /\ Head(s) \in ToSet(s) /\ ToSet(Tail(s)) \subseteq ToSet(s)
         /\ Len(s) # 1 => Tail(s) # << >>
  <1>1. /\ Tail(s) \in Seq(S) /\ Len(s) \in Nat \ {0} /\ DOMAIN s = 1..Len(s)
        /\ DOMAIN Tail(s) = 1..Len(s) - 1 /\ Head(s) = s[1]
        /\ \A i \in 1..Len(s) - 1 : Tail(s)[i] = s[i + 1]
    OBVIOUS
  <1>2. Len(s) # 1 => Tail(s) # << >>
    <2>1. Len(s) # 1 => 1 \in DOMAIN Tail(s)
      BY <1>1
    <2>2. 1 \notin DOMAIN << >>
      OBVIOUS
    <2> QED
      BY <2>1, <2>2
  <1> QED
    BY <1>1, <1>2 DEF ToSet

LEMMA RemovedSeq ==
  ASSUME NEW S, NEW s \in Seq(S), NEW i \in DOMAIN s
  PROVE  /\ RemoveAt(s, i) \in Seq(S) /\ Len(RemoveAt(s, i)) = Len(s) - 1
         /\ \A j \in 1..Len(s) - 1 :
              RemoveAt(s, i)[j] = s[IF j < i THEN j ELSE j + 1]
  <1>1. Len(s) \in Nat /\ i \in 1..Len(s)
    OBVIOUS
  <1>2. /\ SubSeq(s, 1, i - 1) \in Seq(S) /\ Len(SubSeq(s, 1, i - 1)) = i - 1
        /\ \A j \in 1..i - 1 : SubSeq(s, 1, i - 1)[j] = s[j]
    BY <1>1
  <1>3. /\ SubSeq(s, i + 1, Len(s)) \in Seq(S)
        /\ Len(SubSeq(s, i + 1, Len(s))) = Len(s) - i
        /\ \A j \in 1..Len(s) - i : SubSeq(s, i + 1, Len(s))[j] = s[i + j]
    BY <1>1
  <1> DEFINE a == SubSeq(s, 1, i - 1)
             c == SubSeq(s, i + 1, Len(s))
  <1>4. a \in Seq(S) /\ c \in Seq(S) /\ Len(a) = i - 1 /\ Len(c) = Len(s) - i
    BY <1>2, <1>3
  <1>5. /\ \A j \in 1..i - 1 : a[j] = s[j]
        /\ \A j \in 1..Len(s) - i : c[j] = s[i + j]
    BY <1>2, <1>3
  <1> HIDE DEF a, c
  <1>6. /\ a \o c \in Seq(S) /\ Len(a \o c) = Len(a) + Len(c)
        /\ \A j \in 1..Len(a) + Len(c) :
             (a \o c)[j] = IF j <= Len(a) THEN a[j] ELSE c[j - Len(a)]
    BY <1>4
  <1>7. Len(a) + Len(c) = Len(s) - 1
    BY <1>1, <1>4
  <1>8. ASSUME NEW j \in 1..Len(s) - 1
        PROVE  (a \o c)[j] = s[IF j < i THEN j ELSE j + 1]
    <2>1. CASE j < i
      <3>1. j \in 1..i - 1 /\ j <= Len(a)
        BY <1>1, <1>4, <2>1
      <3>2. (a \o c)[j] = a[j]
        BY <1>6, <1>7, <3>1
      <3> QED
        BY <1>5, <2>1, <3>1, <3>2
    <2>2. CASE ~(j < i)
      <3>1. j - Len(a) \in 1..Len(s) - i /\ i + (j - Len(a)) = j + 1 /\ ~(j <= Len(a))
        BY <1>1, <1>4, <2>2
      <3>2. (a \o c)[j] = c[j - Len(a)]
        BY <1>6, <1>7, <3>1
      <3>3. c[j - Len(a)] = s[i + (j - Len(a))]
        BY <1>5, <3>1
      <3> QED
        BY <2>2, <3>1, <3>2, <3>3
    <2> QED
      BY <2>1, <2>2
  <1>9. RemoveAt(s, i) = a \o c
    BY DEF RemoveAt, a, c
  <1> QED
    BY <1>6, <1>7, <1>8, <1>9

LEMMA RemovedSet ==
  ASSUME NEW S, NEW s \in Seq(S), NEW i \in DOMAIN s
  PROVE  ToSet(RemoveAt(s, i)) \subseteq ToSet(s)
  <1>1. Len(s) \in Nat /\ DOMAIN s = 1..Len(s) /\ DOMAIN RemoveAt(s, i) = 1..Len(s) - 1
    BY RemovedSeq
  <1>2. \A j \in 1..Len(s) - 1 : (IF j < i THEN j ELSE j + 1) \in DOMAIN s
    BY <1>1
  <1>3. \A j \in DOMAIN RemoveAt(s, i) : \E k \in DOMAIN s : RemoveAt(s, i)[j] = s[k]
    <2> SUFFICES ASSUME NEW j \in 1..Len(s) - 1
                 PROVE  \E k \in DOMAIN s : RemoveAt(s, i)[j] = s[k]
      BY <1>1
    <2>1. RemoveAt(s, i)[j] = s[IF j < i THEN j ELSE j + 1]
      BY RemovedSeq
    <2> QED
      BY <1>2, <2>1
  <1> QED
    BY <1>3 DEF ToSet

(***************************************************************************)
(* A tunnel starts without backends.                                       *)
(***************************************************************************)
LEMMA BackendsInit == Init => BackendsInv
  <1> SUFFICES ASSUME Init PROVE BackendsInv
    OBVIOUS
  <1>1. Listed = {} /\ ToSet(<< >>) = {}
    BY DEF Init, Listed, ToSet
  <1>2. healthy \in [Backends -> BOOLEAN] /\ live \in BOOLEAN
    BY Zenon DEF Init
  <1>3. task \in [Backends -> Tasks]
    BY DEF Init, Tasks, TaskStates, NoFails
  <1>4. TypeOK
    <2>1. /\ list = << >> /\ calls = {} /\ known = {} /\ forcedDown = {}
          /\ up \subseteq Backends
      BY DEF Init
    <2> QED
      BY <1>2, <1>3, <2>1 DEF TypeOK
  <1>5. Distinct /\ Cloned
    BY DEF Init, Distinct, Cloned
  <1>6. AddsAreNew
    BY <1>1 DEF Init, AddsAreNew, Unpushed
  <1>7. UnhealthyBacked
    BY <1>1 DEF UnhealthyBacked
  <1> QED
    BY <1>4, <1>5, <1>6, <1>7 DEF BackendsInv

(***************************************************************************)
(* Looking the tunnel up only adds a call.                                 *)
(***************************************************************************)
LEMMA LookupInv ==
  ASSUME BackendsInv, NEW b \in Backends,
         AddLookup(b) \/ RemoveLookup(b) \/ ForceLookup(b)
  PROVE  BackendsInv'
  <1> USE DEF BackendsInv, TypeOK, Lookup
  <1>1. UNCHANGED <<list, healthy, task, up, forcedDown>> /\ live' \in BOOLEAN
    BY DEF AddLookup, RemoveLookup, ForceLookup
  <1>2. TypeOK'
    BY <1>1 DEF AddLookup, RemoveLookup, ForceLookup, Calls
  <1>3. Distinct' /\ Cloned' /\ UnhealthyBacked'
    BY <1>1 DEF Distinct, Cloned, UnhealthyBacked, Listed
  <1>4. ASSUME NEW x \in Backends, Unpushed(x),
               NEW op \in {"add", "remove", "find"}, op = "find" => b # x,
               calls' = calls \cup {[op |-> op, b |-> b]}
        PROVE  Unpushed(x)'
    <2>1. \A r \in calls' : r.b = x => r.op \in {"add", "remove"}
      BY <1>4 DEF Unpushed
    <2> QED
      BY <1>1, <1>4, <2>1 DEF Unpushed, Listed
  <1>5. AddsAreNew'
    <2>1. CASE AddLookup(b)
      <3>1. calls' = calls \cup {[op |-> "add", b |-> b]} /\ known' = known \cup {b}
        BY <2>1 DEF AddLookup
      <3>2. \A x \in Backends :
              [op |-> "add", b |-> x] \in calls' => x = b \/ [op |-> "add", b |-> x] \in calls
        BY <3>1
      <3>3. \A x \in Backends : Unpushed(x) => Unpushed(x)'
        BY <1>4, <3>1
      <3>4. Unpushed(b)
        BY <2>1 DEF AddLookup, AddsAreNew
      <3> QED
        BY <3>1, <3>2, <3>3, <3>4 DEF AddsAreNew
    <2>2. CASE RemoveLookup(b)
      <3>1. calls' = calls \cup {[op |-> "remove", b |-> b]} /\ known' = known
        BY <2>2 DEF RemoveLookup
      <3>2. \A x \in Backends :
              [op |-> "add", b |-> x] \in calls' => [op |-> "add", b |-> x] \in calls
        BY <3>1
      <3>3. \A x \in Backends : Unpushed(x) => Unpushed(x)'
        BY <1>4, <3>1
      <3> QED
        BY <3>1, <3>2, <3>3 DEF AddsAreNew
    <2>3. CASE ForceLookup(b)
      <3>1. calls' = calls \cup {[op |-> "find", b |-> b]} /\ known' = known
        BY <2>3 DEF ForceLookup
      <3>2. \A x \in Backends :
              [op |-> "add", b |-> x] \in calls' => [op |-> "add", b |-> x] \in calls
        BY <3>1
      <3>3. \A x \in Backends : Unpushed(x) => x # b
        BY <2>3 DEF ForceLookup, Unpushed
      <3>4. \A x \in Backends : Unpushed(x) => Unpushed(x)'
        BY <1>4, <3>1, <3>3
      <3> QED
        BY <3>1, <3>2, <3>4 DEF AddsAreNew
    <2> QED
      BY <2>1, <2>2, <2>3
  <1> QED
    BY <1>2, <1>3, <1>5

(***************************************************************************)
(* The push of a backend, with the task it spawns.                         *)
(***************************************************************************)
LEMMA AddInv ==
  ASSUME BackendsInv, NEW b \in Backends, AddBackend(b)
  PROVE  BackendsInv'
  <1> USE DEF BackendsInv, TypeOK
  <1>1. Unpushed(b) /\ b \in known
    BY DEF AddBackend, AddsAreNew
  <1>2. /\ UNCHANGED <<live, healthy, known, up, forcedDown>>
        /\ list' = Append(list, b) /\ calls' \subseteq calls
        /\ [op |-> "add", b |-> b] \notin calls'
    BY DEF AddBackend
  <1>3. /\ list' \in Seq(Backends) /\ DOMAIN list' = 1..Len(list) + 1
        /\ Listed' = Listed \cup {b}
    BY <1>2, PushedSet DEF Listed
  <1>4. /\ task' \in [Backends -> Tasks]
        /\ \A t \in Backends : task'[t].fails = task[t].fails /\ task'[t].todo = task[t].todo
        /\ \A t \in Backends : task'[t].at = IF t = b THEN "tick" ELSE task[t].at
    <2> DEFINE r == [task[b] EXCEPT !.at = "tick", !.fails = NoFails]
    <2>1. task[b] \in Tasks /\ task[b].fails = NoFails /\ task' = [task EXCEPT ![b] = r]
      BY <1>1 DEF AddBackend, SpawnHealthCheck, Unpushed
    <2>2. r \in Tasks /\ r.fails = task[b].fails /\ r.todo = task[b].todo /\ r.at = "tick"
      <3> HIDE DEF BackendsInv, TypeOK
      <3> QED
        BY <2>1 DEF Tasks, TaskStates
    <2> HIDE DEF r
    <2> QED
      BY <2>1, <2>2
  <1>5. TypeOK'
    BY <1>2, <1>3, <1>4
  <1>6. Distinct'
    <2>1. /\ Len(list) \in Nat /\ DOMAIN list = 1..Len(list)
          /\ \A i \in 1..Len(list) : list'[i] = list[i] /\ list[i] # b
          /\ list'[Len(list) + 1] = b
      BY <1>1, <1>2 DEF Unpushed, Listed, ToSet
    <2> QED
      BY <1>3, <2>1 DEF Distinct
  <1>7. Cloned'
    BY <1>4 DEF Cloned
  <1>8. AddsAreNew'
    <2> SUFFICES ASSUME NEW x \in Backends, x # b, Unpushed(x) PROVE Unpushed(x)'
      BY <1>1, <1>2 DEF AddsAreNew
    <2> QED
      BY <1>2, <1>3, <1>4 DEF Unpushed
  <1>9. UnhealthyBacked'
    BY <1>1, <1>2, <1>3, <1>4 DEF UnhealthyBacked, Unpushed
  <1> QED
    BY <1>5, <1>6, <1>7, <1>8, <1>9

(***************************************************************************)
(* A removal, whether or not the backend is in the list.                   *)
(***************************************************************************)
LEMMA RemoveInv ==
  ASSUME BackendsInv, NEW b \in Backends, RemoveBackend(b)
  PROVE  BackendsInv'
  <1> USE DEF BackendsInv, TypeOK
  <1>1. UNCHANGED <<live, healthy, known, task, up, forcedDown>> /\ calls' \subseteq calls
    BY DEF RemoveBackend
  <1>2. list' \in Seq(Backends) /\ Listed' \subseteq Listed /\ Distinct'
    <2>1. CASE UNCHANGED list
      BY <2>1 DEF Listed, Distinct
    <2>2. ASSUME NEW i \in DOMAIN list, list' = RemoveAt(list, i)
          PROVE  list' \in Seq(Backends) /\ Listed' \subseteq Listed /\ Distinct'
      <3>1. list' \in Seq(Backends) /\ Listed' \subseteq Listed
        BY <2>2, RemovedSeq, RemovedSet DEF Listed
      <3>2. /\ Len(list) \in Nat /\ DOMAIN list = 1..Len(list)
            /\ DOMAIN list' = 1..Len(list) - 1
            /\ \A j \in 1..Len(list) - 1 : list'[j] = list[IF j < i THEN j ELSE j + 1]
        BY <2>2, RemovedSeq
      <3>3. Distinct'
        <4> SUFFICES ASSUME NEW j \in 1..Len(list) - 1, NEW k \in 1..Len(list) - 1,
                            list'[j] = list'[k]
                     PROVE  j = k
          BY <3>2 DEF Distinct
        <4> DEFINE at(n) == IF n < i THEN n ELSE n + 1
        <4>1. at(j) \in DOMAIN list /\ at(k) \in DOMAIN list /\ list[at(j)] = list[at(k)]
          BY <3>2
        <4>2. at(j) = at(k)
          BY <4>1 DEF Distinct
        <4> QED
          BY <3>2, <4>2
      <3> QED
        BY <3>1, <3>3
    <2> QED
      BY <2>1, <2>2 DEF RemoveBackend
  <1>3. TypeOK' /\ Cloned'
    BY <1>1, <1>2 DEF Cloned
  <1>4. AddsAreNew'
    BY <1>1, <1>2 DEF AddsAreNew, Unpushed
  <1>5. UnhealthyBacked'
    BY <1>1, <1>2 DEF UnhealthyBacked
  <1> QED
    BY <1>2, <1>3, <1>4, <1>5

(***************************************************************************)
(* A forced check writes the flag of a backend that has been pushed.       *)
(***************************************************************************)
LEMMA ForceInv ==
  ASSUME BackendsInv, NEW b \in Backends,
         ForceProbe(b) \/ \E ok \in BOOLEAN : ForceStore(b, ok)
  PROVE  BackendsInv'
  <1> USE DEF BackendsInv, TypeOK
  <1>1. UNCHANGED <<live, list, known, task, up>> /\ Distinct' /\ Cloned'
    BY DEF ForceProbe, ForceStore, Distinct, Cloned
  <1>2. CASE ForceProbe(b)
    <2>1. (b \in up) \in BOOLEAN
      OBVIOUS
    <2>2. [op |-> "store", b |-> b, ok |-> b \in up] \in Calls
      BY <2>1 DEF Calls
    <2>3. TypeOK'
      BY <1>1, <1>2, <2>2 DEF ForceProbe
    <2>4. UNCHANGED <<healthy, forcedDown>>
      BY <1>2 DEF ForceProbe
    <2>5. AddsAreNew'
      <3> DEFINE answer == [op |-> "store", b |-> b, ok |-> b \in up]
      <3>1. /\ calls' \subseteq calls \cup {answer}
            /\ [op |-> "find", b |-> b] \in calls
            /\ answer.op = "store" /\ answer.b = b
        BY <1>2 DEF ForceProbe
      <3>2. \A x \in Backends : [op |-> "add", b |-> x].op = "add"
        OBVIOUS
      <3> HIDE DEF answer
      <3>3. \A x \in Backends :
              [op |-> "add", b |-> x] \in calls' => [op |-> "add", b |-> x] \in calls
        BY <3>1, <3>2
      <3>4. ~Unpushed(b)
        BY <3>1 DEF Unpushed
      <3>5. ASSUME NEW x \in Backends, Unpushed(x) PROVE Unpushed(x)'
        BY <1>1, <2>4, <3>1, <3>4, <3>5 DEF Unpushed, Listed
      <3> QED
        BY <1>1, <3>3, <3>5 DEF AddsAreNew
    <2>6. UnhealthyBacked'
      BY <1>1, <2>4 DEF UnhealthyBacked, Listed
    <2> QED
      BY <1>1, <2>3, <2>5, <2>6
  <1>3. ASSUME NEW ok \in BOOLEAN, ForceStore(b, ok) PROVE BackendsInv'
    <2>1. healthy' \in [Backends -> BOOLEAN]
      BY <1>3 DEF ForceStore
    <2>2. /\ calls' \subseteq calls /\ forcedDown' \subseteq Backends
          /\ \A x \in Backends \ {b} :
               healthy'[x] = healthy[x] /\ (x \in forcedDown' <=> x \in forcedDown)
      BY <1>3 DEF ForceStore
    <2>3. ~healthy'[b] => b \in forcedDown'
      BY <1>3 DEF ForceStore
    <2>4. ~Unpushed(b)
      BY <1>3 DEF ForceStore, Unpushed
    <2>5. AddsAreNew'
      <3>1. ASSUME NEW x \in Backends, Unpushed(x) PROVE Unpushed(x)'
        BY <1>1, <2>2, <2>4, <3>1 DEF Unpushed, Listed
      <3> QED
        BY <1>1, <2>2, <3>1 DEF AddsAreNew
    <2>6. UnhealthyBacked'
      <3> SUFFICES ASSUME NEW x \in Listed, ~healthy'[x]
                   PROVE  x \in forcedDown' \/ \E t \in Backends : task[t].fails[x] = FailLimit
        BY <1>1 DEF UnhealthyBacked, Listed
      <3>1. x \in Backends
        BY DEF Listed, ToSet
      <3> QED
        BY <2>2, <2>3, <3>1 DEF UnhealthyBacked
    <2> QED
      BY <1>1, <2>1, <2>2, <2>5, <2>6
  <1> QED
    BY <1>2, <1>3

(***************************************************************************)
(* The tick and the probe of a task.                                       *)
(***************************************************************************)
LEMMA TickInv ==
  ASSUME BackendsInv, NEW t \in Backends, TickEmpty(t) \/ Tick(t) \/ Probe(t)
  PROVE  BackendsInv'
  <1> USE DEF BackendsInv, TypeOK
  <1>1. UNCHANGED <<live, list, healthy, calls, known, up, forcedDown>> /\ Distinct'
    BY DEF TickEmpty, Tick, Probe, Distinct
  <1>2. CASE TickEmpty(t)
    <2>1. Listed = {} /\ Listed' = {}
      BY <1>1, <1>2 DEF TickEmpty, Listed, ToSet
    <2>2. NoFails \in [Backends -> 0..FailLimit]
      BY DEF NoFails
    <2>3. task' = [task EXCEPT ![t] = [@ EXCEPT !.at = "over", !.fails = NoFails]]
      BY <1>2 DEF TickEmpty
    <2>4. task' \in [Backends -> Tasks]
      <3> DEFINE r == [task[t] EXCEPT !.at = "over", !.fails = NoFails]
      <3>1. task[t] \in Tasks /\ task' = [task EXCEPT ![t] = r]
        BY <2>3
      <3>2. r \in Tasks
        <4> HIDE DEF BackendsInv, TypeOK
        <4> QED
          BY <2>2, <3>1 DEF Tasks, TaskStates
      <3> HIDE DEF r
      <3> QED
        BY <3>1, <3>2
    <2>5. \A x \in Backends \ {t} : task'[x] = task[x]
      BY <2>3
    <2>6. task'[t].at = "over" /\ task'[t].todo = task[t].todo /\ task[t].at = "tick"
      BY <1>2, <2>3 DEF Tasks, TickEmpty
    <2>7. Cloned'
      BY <2>5, <2>6 DEF Cloned
    <2>8. \A x \in Backends : Unpushed(x) => Unpushed(x)'
      BY <1>1, <2>1, <2>5, <2>6 DEF Unpushed
    <2>9. AddsAreNew'
      BY <1>1, <2>8 DEF AddsAreNew
    <2>10. UnhealthyBacked'
      BY <2>1 DEF UnhealthyBacked
    <2> QED
      BY <1>1, <2>4, <2>7, <2>9, <2>10
  <1>3. CASE Tick(t)
    <2>1. task' \in [Backends -> Tasks] /\ Cloned'
      <3> DEFINE r == [task[t] EXCEPT !.at = "probe", !.todo = list]
      <3>1. /\ task[t] \in Tasks /\ list \in Seq(Backends) /\ list # << >>
            /\ task' = [task EXCEPT ![t] = r]
        BY <1>3 DEF Tick
      <3>2. r \in Tasks /\ r.todo = list
        <4> HIDE DEF BackendsInv, TypeOK
        <4> QED
          BY <3>1 DEF Tasks, TaskStates
      <3> HIDE DEF r
      <3> QED
        BY <3>1, <3>2 DEF Cloned
    <2>2. \A x \in Backends : task'[x].fails = task[x].fails
      BY <1>3 DEF Tick, Tasks
    <2>3. AddsAreNew'
      <3> SUFFICES ASSUME NEW x \in Backends, Unpushed(x) PROVE Unpushed(x)'
        BY <1>1 DEF AddsAreNew
      <3>1. x # t /\ x \notin ToSet(list)
        BY <1>3 DEF Tick, Unpushed, Listed
      <3>2. \A y \in Backends : task'[y].todo = IF y = t THEN list ELSE task[y].todo
        BY <1>3 DEF Tick, Tasks
      <3>3. task'[x] = task[x]
        BY <1>3, <3>1 DEF Tick
      <3> QED
        BY <1>1, <3>1, <3>2, <3>3 DEF Unpushed, Listed
    <2>4. UnhealthyBacked'
      BY <1>1, <2>2 DEF UnhealthyBacked, Listed
    <2> QED
      BY <1>1, <2>1, <2>3, <2>4
  <1>4. CASE Probe(t)
    <2>1. (Head(task[t].todo) \in up) \in BOOLEAN
      OBVIOUS
    <2>2. task' \in [Backends -> Tasks] /\ Cloned'
      <3> DEFINE ok == Head(task[t].todo) \in up
                 r  == [task[t] EXCEPT !.at = "answered", !.ok = ok]
      <3>1. task[t] \in Tasks /\ task' = [task EXCEPT ![t] = r] /\ task[t].at = "probe"
        BY <1>4 DEF Probe
      <3>2. ok \in BOOLEAN
        BY <2>1
      <3>3. r \in Tasks /\ r.todo = task[t].todo
        <4> HIDE DEF BackendsInv, TypeOK, ok
        <4> QED
          BY <3>1, <3>2 DEF Tasks, TaskStates
      <3> HIDE DEF r
      <3> QED
        BY <3>1, <3>3 DEF Cloned
    <2>3. \A x \in Backends : task'[x].fails = task[x].fails /\ task'[x].todo = task[x].todo
      BY <1>4 DEF Probe, Tasks
    <2>4. \A x \in Backends : task[x].at = "none" => task'[x].at = "none"
      BY <1>4 DEF Probe
    <2>5. AddsAreNew'
      BY <1>1, <2>3, <2>4 DEF AddsAreNew, Unpushed, Listed
    <2>6. UnhealthyBacked'
      BY <1>1, <2>3 DEF UnhealthyBacked, Listed
    <2> QED
      BY <1>1, <2>2, <2>5, <2>6
  <1> QED
    BY <1>2, <1>3, <1>4

(***************************************************************************)
(* Going on in the clone: what a task keeps when it has dealt with an      *)
(* answer, and that nothing reaches a backend that has not been pushed.    *)
(***************************************************************************)
LEMMA NextProbeFacts ==
  ASSUME BackendsInv, NEW t \in Backends, task[t].at = "answered",
         NEW f \in [Backends -> 0..FailLimit],
         task' = [task EXCEPT ![t] = NextProbe(@, f)],
         UNCHANGED <<list, calls, known>>,
         \A x \in Backends \ {Head(task[t].todo)} : healthy'[x] = healthy[x]
  PROVE  /\ task' \in [Backends -> Tasks] /\ Distinct' /\ Cloned' /\ AddsAreNew'
         /\ task'[t].fails = f
         /\ \A x \in Backends \ {t} : task'[x] = task[x]
  <1> USE DEF BackendsInv, TypeOK
  <1> DEFINE todo == task[t].todo
  <1>1. todo \in Seq(Backends) /\ todo # << >>
    BY DEF Tasks, Cloned
  <1>2. /\ Tail(todo) \in Seq(Backends) /\ Head(todo) \in ToSet(todo)
        /\ ToSet(Tail(todo)) \subseteq ToSet(todo)
    BY <1>1, TailSet
  <1>3. \A x \in Backends \ {t} : task'[x] = task[x]
    OBVIOUS
  <1>4. task'[t] = NextProbe(task[t], f)
    OBVIOUS
  <1>5. /\ task'[t].at = (IF Len(todo) = 1 THEN "tick" ELSE "probe")
        /\ task'[t].todo = Tail(todo) /\ task'[t].fails = f
        /\ task'[t] \in Tasks
    <2> DEFINE at == IF Len(todo) = 1 THEN "tick" ELSE "probe"
    <2>1. at \in TaskStates
      BY DEF TaskStates
    <2>2. task'[t] = [task[t] EXCEPT !.at = at, !.todo = Tail(todo), !.ok = FALSE, !.fails = f]
      BY <1>4 DEF NextProbe
    <2> HIDE DEF at
    <2>3. /\ task'[t].at = at /\ task'[t].todo = Tail(todo) /\ task'[t].fails = f
          /\ task'[t] \in Tasks
      <3>1. task[t] \in Tasks
        OBVIOUS
      <3> DEFINE n == [task[t] EXCEPT !.at = at, !.todo = Tail(todo), !.ok = FALSE, !.fails = f]
      <3>2. n.at = at /\ n.todo = Tail(todo) /\ n.fails = f /\ n \in Tasks
        <4> HIDE DEF BackendsInv, TypeOK
        <4>1. Tail(todo) \in Seq(Backends)
          BY <1>2
        <4> QED
          BY <2>1, <3>1, <4>1 DEF Tasks
      <3> HIDE DEF n
      <3>3. task'[t] = n
        BY <2>2 DEF n
      <3> QED
        BY <3>2, <3>3
    <2> QED
      BY <2>3 DEF at
  <1>6. task' \in [Backends -> Tasks]
    BY <1>3, <1>5
  <1>7. Len(todo) # 1 => Tail(todo) # << >>
    BY <1>1, TailSet
  <1>8. Cloned'
    BY <1>3, <1>5, <1>7 DEF Cloned
  <1>9. ASSUME NEW x \in Backends, Unpushed(x) PROVE Unpushed(x)'
    <2>1. x # t /\ x # Head(todo)
      BY <1>2, <1>9 DEF Unpushed
    <2>2. \A y \in Backends : x \notin ToSet(task'[y].todo)
      BY <1>2, <1>3, <1>5, <1>9 DEF Unpushed
    <2> QED
      BY <1>3, <1>9, <2>1, <2>2 DEF Unpushed, Listed
  <1>10. AddsAreNew'
    BY <1>9 DEF AddsAreNew
  <1>11. Distinct'
    BY DEF Distinct
  <1> HIDE DEF todo
  <1> QED
    BY <1>3, <1>5, <1>6, <1>8, <1>10, <1>11

(***************************************************************************)
(* An answer: a success clears flag and count, a failure counts and, at    *)
(* the limit, takes the flag down; whoever had a reason to keep the flag   *)
(* down still has it.                                                      *)
(***************************************************************************)
LEMMA AnswerInv ==
  ASSUME BackendsInv, NEW t \in Backends, ProbeSucceeded(t) \/ ProbeFailed(t)
  PROVE  BackendsInv'
  <1> USE DEF BackendsInv, TypeOK
  <1> DEFINE b == Head(task[t].todo)
  <1>1. task[t].at = "answered" /\ task[t].fails \in [Backends -> 0..FailLimit]
    BY DEF ProbeSucceeded, ProbeFailed, Tasks
  <1>2. b \in Backends
    BY <1>1 DEF Cloned, Tasks
  <1>3. UNCHANGED <<live, list, calls, known, up>> /\ Listed' = Listed
    BY DEF ProbeSucceeded, ProbeFailed, Listed
  <1>4. Listed \subseteq Backends
    BY DEF Listed, ToSet
  <1> HIDE DEF b
  <1>5. CASE ProbeSucceeded(t)
    <2> DEFINE f == [task[t].fails EXCEPT ![b] = 0]
    <2>1. f \in [Backends -> 0..FailLimit]
      BY <1>1, <1>2
    <2>2. /\ task' = [task EXCEPT ![t] = NextProbe(@, f)]
          /\ healthy' = [healthy EXCEPT ![b] = TRUE]
          /\ forcedDown' = forcedDown \ {b}
      BY <1>5 DEF ProbeSucceeded, b
    <2> HIDE DEF f
    <2>3. /\ task' \in [Backends -> Tasks] /\ Distinct' /\ Cloned' /\ AddsAreNew'
          /\ task'[t].fails = f
          /\ \A x \in Backends \ {t} : task'[x] = task[x]
      BY <1>1, <1>2, <1>3, <2>1, <2>2, NextProbeFacts DEF b
    <2>4. TypeOK'
      BY <1>2, <1>3, <2>2, <2>3
    <2>5. UnhealthyBacked'
      <3> SUFFICES ASSUME NEW x \in Listed, ~healthy'[x]
                   PROVE  \/ x \in forcedDown'
                          \/ \E y \in Backends : task'[y].fails[x] = FailLimit
        BY <1>3 DEF UnhealthyBacked
      <3>1. x \in Backends /\ x # b /\ ~healthy[x]
        BY <1>2, <1>4, <2>2
      <3>2. f[x] = task[t].fails[x]
        BY <1>1, <3>1 DEF f
      <3> QED
        BY <2>2, <2>3, <3>1, <3>2 DEF UnhealthyBacked
    <2> QED
      BY <2>3, <2>4, <2>5
  <1>6. CASE ProbeFailed(t)
    <2> DEFINE old == task[t].fails[b]
               count == IF old < FailLimit THEN old + 1 ELSE old
               f == [task[t].fails EXCEPT ![b] = count]
    <2>1. /\ old \in 0..FailLimit /\ count \in 0..FailLimit
          /\ old = FailLimit => count = FailLimit
          /\ ~(count < FailLimit) => count = FailLimit
      BY <1>1, <1>2
    <2>2. f \in [Backends -> 0..FailLimit] /\ f[b] = count
      BY <1>1, <1>2, <2>1
    <2>3. /\ task' = [task EXCEPT ![t] = NextProbe(@, f)]
          /\ healthy' = [healthy EXCEPT ![b] = @ /\ count < FailLimit]
          /\ forcedDown' = IF count < FailLimit THEN forcedDown ELSE forcedDown \ {b}
      BY <1>6 DEF ProbeFailed, b
    <2>4. healthy' \in [Backends -> BOOLEAN]
      <3>1. (healthy[b] /\ count < FailLimit) \in BOOLEAN
        OBVIOUS
      <3> QED
        BY <1>2, <2>3, <3>1
    <2>5. /\ \A x \in Backends \ {b} : healthy'[x] = healthy[x]
          /\ ~healthy'[b] => ~healthy[b] \/ ~(count < FailLimit)
      BY <1>2, <2>3
    <2>6. \A x \in Backends : task[t].fails[x] = FailLimit => f[x] = FailLimit
      BY <1>1, <1>2, <2>1
    <2> HIDE DEF f, old, count
    <2>7. /\ task' \in [Backends -> Tasks] /\ Distinct' /\ Cloned' /\ AddsAreNew'
          /\ task'[t].fails = f
          /\ \A x \in Backends \ {t} : task'[x] = task[x]
      BY <1>1, <1>2, <1>3, <2>2, <2>3, <2>5, NextProbeFacts DEF b
    <2>8. TypeOK'
      BY <1>3, <2>3, <2>4, <2>7
    <2>9. UnhealthyBacked'
      <3> SUFFICES ASSUME NEW x \in Listed, ~healthy'[x]
                   PROVE  \/ x \in forcedDown'
                          \/ \E y \in Backends : task'[y].fails[x] = FailLimit
        BY <1>3 DEF UnhealthyBacked
      <3>1. x \in Backends
        BY <1>4
      <3>2. CASE ~healthy[x] /\ (x # b \/ count < FailLimit)
        <4>1. x \in forcedDown => x \in forcedDown'
          BY <2>3, <3>2
        <4>2. \A y \in Backends :
                task[y].fails[x] = FailLimit => task'[y].fails[x] = FailLimit
          BY <2>6, <2>7, <3>1
        <4> QED
          BY <3>2, <4>1, <4>2 DEF UnhealthyBacked
      <3>3. CASE x = b /\ ~(count < FailLimit)
        <4>1. task'[t].fails[x] = FailLimit
          BY <2>1, <2>2, <2>7, <3>3
        <4> QED
          BY <4>1
      <3> QED
        BY <2>5, <3>1, <3>2, <3>3
    <2> QED
      BY <2>7, <2>8, <2>9
  <1> QED
    BY <1>5, <1>6

(***************************************************************************)
(* The tunnel's end and the backends' own ups and downs touch no flag.     *)
(***************************************************************************)
LEMMA SurroundingsInv ==
  ASSUME BackendsInv, TunnelEnds \/ (\E b \in Backends : Toggle(b)) \/ UNCHANGED vars
  PROVE  BackendsInv'
  <1> USE DEF BackendsInv, TypeOK
  <1>1. UNCHANGED <<list, healthy, calls, known, task, forcedDown>>
    BY DEF TunnelEnds, Toggle, vars
  <1>2. live' \in BOOLEAN /\ up' \subseteq Backends
    BY DEF TunnelEnds, Toggle, vars
  <1>3. Distinct' /\ Cloned' /\ UnhealthyBacked'
    BY <1>1 DEF Distinct, Cloned, UnhealthyBacked, Listed
  <1>4. AddsAreNew'
    BY <1>1 DEF AddsAreNew, Unpushed, Listed
  <1> QED
    BY <1>1, <1>2, <1>3, <1>4

(***************************************************************************)
(* The inductive invariant holds in every behaviour.                       *)
(***************************************************************************)
THEOREM BackendsInvariant == Spec => []BackendsInv
  <1>1. BackendsInv /\ [Next]_vars => BackendsInv'
    <2> SUFFICES ASSUME BackendsInv, [Next]_vars PROVE BackendsInv'
      OBVIOUS
    <2> QED
      BY LookupInv, AddInv, RemoveInv, ForceInv, TickInv, AnswerInv,
         SurroundingsInv DEF Next, CallStep, TaskStep
  <1> QED
    BY <1>1, BackendsInit, PTL DEF Spec

(***************************************************************************)
(* Whatever the health tasks and forced checks interleave, a listed        *)
(* backend is marked unhealthy only after FailLimit failed probes in a row *)
(* of one task, or a forced check that failed.                             *)
(***************************************************************************)
THEOREM UnhealthyForAReason == Spec => []UnhealthyBacked
  <1>1. BackendsInv => UnhealthyBacked
    BY DEF BackendsInv
  <1> QED
    BY <1>1, BackendsInvariant, PTL

(***************************************************************************)
(* The task of a backend survives every step that leaves the backend in    *)
(* the list: only an empty list stops it, and a backend is pushed once.    *)
(***************************************************************************)
LEMMA OwnTaskStep ==
  ASSUME BackendsInv, OwnTaskRuns, [Next]_vars
  PROVE  OwnTaskRuns'
  <1> USE DEF OwnTaskRuns, Running
  <1>1. /\ list \in Seq(Backends) /\ task \in [Backends -> Tasks]
        /\ Listed \subseteq Backends
    BY DEF BackendsInv, TypeOK, Listed, ToSet
  <1>2. CASE UNCHANGED <<list, task>>
    BY <1>2 DEF Listed
  <1>3. ASSUME NEW b \in Backends, AddBackend(b) PROVE OwnTaskRuns'
    <2>1. Listed' = Listed \cup {b}
      BY <1>1, <1>3, PushedSet DEF AddBackend, Listed
    <2>2. /\ task'[b].at = "tick"
          /\ \A t \in Backends \ {b} : task'[t] = task[t]
      BY <1>1, <1>3 DEF AddBackend, SpawnHealthCheck, Tasks
    <2> QED
      BY <1>1, <2>1, <2>2
  <1>4. ASSUME NEW b \in Backends, RemoveBackend(b) PROVE OwnTaskRuns'
    <2>1. UNCHANGED task /\ (UNCHANGED list \/ \E i \in DOMAIN list : list' = RemoveAt(list, i))
      BY <1>4 DEF RemoveBackend
    <2>2. Listed' \subseteq Listed
      BY <1>1, <2>1, RemovedSet DEF Listed
    <2> QED
      BY <2>1, <2>2
  <1>5. ASSUME NEW t \in Backends, TickEmpty(t) PROVE OwnTaskRuns'
    <2>1. Listed' = {}
      BY <1>5 DEF TickEmpty, Listed, ToSet
    <2> QED
      BY <2>1
  <1>6. ASSUME NEW t \in Backends, UNCHANGED list, NEW r, r.at \in Running,
               task' = [task EXCEPT ![t] = r]
        PROVE  OwnTaskRuns'
    BY <1>1, <1>6 DEF Listed
  <1>7. ASSUME NEW t \in Backends, Tick(t) \/ Probe(t) PROVE OwnTaskRuns'
    <2>1. /\ UNCHANGED list /\ task'[t].at \in Running
          /\ task' = [task EXCEPT ![t] = task'[t]]
      BY <1>1, <1>7 DEF Tick, Probe, Tasks
    <2> QED
      BY <1>6, <2>1
  <1>8. ASSUME NEW t \in Backends, ProbeSucceeded(t) \/ ProbeFailed(t) PROVE OwnTaskRuns'
    <2>1. UNCHANGED list /\ \E f : task' = [task EXCEPT ![t] = NextProbe(@, f)]
      BY <1>8 DEF ProbeSucceeded, ProbeFailed
    <2>2. PICK f : task' = [task EXCEPT ![t] = NextProbe(task[t], f)]
      BY <2>1
    <2>3. NextProbe(task[t], f).at \in Running
      BY <1>1 DEF NextProbe, Tasks
    <2> HIDE DEF Running, OwnTaskRuns
    <2> QED
      BY <1>6, <2>1, <2>2, <2>3
  <1> QED
    BY <1>2, <1>3, <1>4, <1>5, <1>7, <1>8
       DEF Next, CallStep, TaskStep, AddLookup, RemoveLookup, ForceLookup, ForceProbe,
           ForceStore, Toggle, TunnelEnds, vars

(***************************************************************************)
(* A list with a backend in it always has a task that will clone it again, *)
(* however adds, removals and ticks interleave.                            *)
(***************************************************************************)
THEOREM ListsAreWatched == Spec => []ListWatched
  <1>1. Init => OwnTaskRuns
    BY DEF Init, OwnTaskRuns, Listed, ToSet
  <1>2. BackendsInv /\ OwnTaskRuns => ListWatched
    <2> SUFFICES ASSUME BackendsInv, OwnTaskRuns, list # << >>
                 PROVE  \E t \in Backends : task[t].at \in Running
      BY DEF ListWatched
    <2>1. list \in Seq(Backends)
      BY DEF BackendsInv, TypeOK
    <2>2. list[1] \in Listed /\ list[1] \in Backends
      BY <2>1 DEF Listed, ToSet
    <2> QED
      BY <2>2 DEF OwnTaskRuns
  <1> QED
    BY <1>1, <1>2, OwnTaskStep, BackendsInvariant, PTL DEF Spec
=============================================================================
