------------------------------- MODULE Expiry -------------------------------
(***************************************************************************)
(* How the end of a certificate's validity is found in its bytes: the loop *)
(* of days_until_expiry (acme.rs), which does not decode the certificate   *)
(* but looks for bytes that have the value of a time's tag.                *)
(***************************************************************************)
EXTENDS Integers, Sequences

CONSTANT None

TimeTags == {23, 24}   \* UTCTime, GeneralizedTime
Bytes == 0..255

(* A certificate, as far as the scan tells its bytes apart: what precedes  *)
(* the validity (version, serial number, issuer), the two times, what      *)
(* follows.  A time is shorter than 128 bytes: its length is one byte.     *)
Certificates ==
    [head : Seq(Bytes), tags : TimeTags \X TimeTags,
     before : {t \in Seq(Bytes) : Len(t) \in 1..127},
     after : {t \in Seq(Bytes) : Len(t) \in 1..127}, rest : Seq(Bytes)]

VARIABLES
    cert,         \* the certificate
    pos,          \* i of the loop
    found_times   \* the stretches of bytes taken for times

scanVars == <<cert, pos, found_times>>

der == cert.head \o <<cert.tags[1], Len(cert.before)>> \o cert.before
         \o <<cert.tags[2], Len(cert.after)>> \o cert.after \o cert.rest

ScanInit == cert \in Certificates /\ pos = 0 /\ found_times = << >>

(* The condition of the loop. *)
Scanning == pos + 2 < Len(der) /\ Len(found_times) < 2

PassOver ==
    /\ Scanning /\ der[pos + 1] \notin TimeTags
    /\ pos' = pos + 1
    /\ UNCHANGED <<cert, found_times>>

(* From a byte that looks like a tag the next one is taken for a length,   *)
(* wherever in the certificate the two are.                                *)
TakeTime ==
    /\ Scanning /\ der[pos + 1] \in TimeTags
    /\ pos' = pos + 2 + der[pos + 2]
    /\ found_times' = IF pos' <= Len(der)
                      THEN Append(found_times, SubSeq(der, pos + 3, pos'))
                      ELSE found_times
    /\ UNCHANGED cert

Scan == PassOver \/ TakeTime

ScanSpec == ScanInit /\ [][Scan]_scanVars

\* Mutant of NotAfter: the first time found, which is notBefore.
NotAfterFirst == IF Len(found_times) < 1 THEN None ELSE found_times[1]

(* The second time is taken for notAfter; without one, needs_renewal says  *)
(* that the certificate is due.                                            *)
NotAfter == IF Len(found_times) < 2 THEN None ELSE found_times[2]

-----------------------------------------------------------------------------

\* The loop of days_until_expiry ends with notAfter, whatever bytes the times
\* and the rest of the certificate have, unless a byte before the validity has
\* the value of a time's tag.
ExpiryFound ==
    (~Scanning /\ \A k \in DOMAIN cert.head : cert.head[k] \notin TimeTags)
        => NotAfter = cert.after

=============================================================================
