----------------------------- MODULE MCAuditLog -----------------------------
(***************************************************************************)
(* The audit log for TLC: MaxEvents events and MaxFaults faults, crashes   *)
(* and settings of the clock.                                              *)
(***************************************************************************)
EXTENDS AuditLog, TLC

CONSTANTS MaxEvents, MaxFaults

Interchangeable == Permutations(Emitters)

\* The bounds end the instance: no event is left to be made or written.
Spent ==
    /\ made = MaxEvents /\ Emitting = {} /\ deferred = {} /\ channel = <<>>
    /\ writer.pc = "recv"
    /\ UNCHANGED vars

MCNext ==
    \/ \E m \in Emitters :
        \/ made < MaxEvents /\ Stamp(m)
        \/ PushInline(m) \/ PushDeferred(m) \/ Send(m)
    \/ \E e \in deferred : Push(e)
    \/ Query
    \/ Recv \/ CloseFile \/ RenameFile \/ OpenLogFile \/ WriteLine \/ ReportError
    \/ faults < MaxFaults /\ (RenameFails \/ OpenFails \/ WriteTorn \/ WriteFails \/ Crash)
    \/ Midnight
    \/ ~stepped /\ ClockSetBack
    \/ Spent

MCSpec == Init /\ [][MCNext]_vars
=============================================================================
