------------------------------- MODULE MCAcme -------------------------------
(***************************************************************************)
(* Certificates for TLC: at most MaxFaults calls fail or processes crash.  *)
(* Key pair names are reused once nothing holds them, and the days left    *)
(* stop at zero, so a run has no last renewal and no last day.             *)
(***************************************************************************)
EXTENDS Acme, TLC

CONSTANTS d1, d2, MaxFaults

MCDomains == <<d1, d2>>

MCNext ==
    \/ Start \/ LoadTls \/ LoadTlsFails \/ Check \/ RenewalTick
    \/ ReloadReads \/ ReloadBuilds
    \/ AttemptStep \/ DownloadPending \/ Download
    \/ faults < MaxFaults /\ (CallFails \/ Crash)
    \/ DayPasses

MCSpec == Init /\ [][MCNext]_vars /\ Fairness
=============================================================================
