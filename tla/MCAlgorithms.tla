---------------------------- MODULE MCAlgorithms ----------------------------
(***************************************************************************)
(* The relay's pure algorithms for TLC, one in each behaviour: the days    *)
(* from the epoch to the end of LastYear, the certificates with up to      *)
(* MaxHead bytes before the validity, lists of up to MaxLines networks,    *)
(* the sources of a setting, and the edits of the client's file.           *)
(***************************************************************************)
EXTENDS Calendar, Expiry, Cidr, Settings, ClientConfig

CONSTANTS LastYear, MaxHead, MaxLines, other, third

VARIABLE subject   \* the algorithm of this behaviour

calendarVars == <<number, date>>
cidrVars == <<text, nets>>
configVars == <<file, given>>
allVars == <<calendarVars, scanVars, cidrVars, sources, configVars, subject>>

MCValues == {Default, other, third}

(* Times of one byte (a letter, or one like a tag) and at most one byte    *)
(* after them.                                                             *)
Some == {0, 1, 23, 24}
Small == [head : UNION {[1..n -> Some] : n \in 0..MaxHead}, tags : TimeTags \X TimeTags,
          before : {<<48>>, <<23>>}, after : {<<57>>, <<24>>}, rest : {<< >>, <<1>>, <<23>>}]

AnyCertificate ==
    [head |-> << >>, tags |-> <<23, 23>>, before |-> <<48>>, after |-> <<57>>, rest |-> << >>]

MCInit ==
    /\ subject \in {"calendar", "expiry", "cidr", "settings", "client"}
    /\ CalInit /\ CidrInit /\ SettingsInit /\ FreshConfig
    /\ cert \in (IF subject = "expiry" THEN Small ELSE {AnyCertificate})
    /\ pos = 0 /\ found_times = << >>

WalkCalendar ==
    /\ subject = "calendar" /\ date.y <= LastYear /\ NextDay
    /\ UNCHANGED <<scanVars, cidrVars, sources, configVars, subject>>

ScanCertificate ==
    /\ subject = "expiry" /\ Scan
    /\ UNCHANGED <<calendarVars, cidrVars, sources, configVars, subject>>

ReadNetworks ==
    /\ subject = "cidr" /\ Len(text) < MaxLines
    /\ \E line \in Lines : ReadLine(line)
    /\ UNCHANGED <<calendarVars, scanVars, sources, configVars, subject>>

ChangeSources ==
    /\ subject = "settings" /\ Change
    /\ UNCHANGED <<calendarVars, scanVars, cidrVars, configVars, subject>>

ChangeClientFile ==
    /\ subject = "client" /\ ConfigNext
    /\ UNCHANGED <<calendarVars, scanVars, cidrVars, sources, subject>>

MCNext ==
    WalkCalendar \/ ScanCertificate \/ ReadNetworks \/ ChangeSources \/ ChangeClientFile

MCSpec == MCInit /\ [][MCNext]_allVars

=============================================================================
