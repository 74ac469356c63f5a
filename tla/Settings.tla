------------------------------ MODULE Settings ------------------------------
(***************************************************************************)
(* Where a setting of the relay comes from: its flag or one of three       *)
(* possible configuration files (load_file_config and apply_file_config,   *)
(* main.rs).  One setting at a time: the 41 fields are handled one by one, *)
(* in the same way.                                                        *)
(***************************************************************************)
EXTENDS Integers

CONSTANTS
    Values,      \* the values of the setting
    Default,     \* its compile-time default
    Absent,      \* None: not given, not in the file
    Unparsable,  \* a value in the file that is no address
    Missing,     \* there is no such file, or no --config
    Broken       \* the file cannot be read or is not TOML

ASSUME SettingsAssumption ==
    /\ Default \in Values
    /\ {Absent, Unparsable, Missing, Broken} \cap Values = {}
    /\ Absent # Unparsable /\ Missing # Broken
    /\ {Absent, Unparsable} \cap {Missing, Broken} = {}

(* What a file says of the setting, when there is a file that parses. *)
Contents == Values \cup {Absent, Unparsable}
Files == Contents \cup {Missing, Broken}

VARIABLE
    sources  \* what the relay meets when it starts

Sources == [flag : Values \cup {Absent}, address : BOOLEAN,
            explicit : Files, home : Files, etc : Files]

ValueIn(file) == IF file \in {Missing, Broken} THEN Absent ELSE file

\* Mutant of LoadFileConfig: a --config that is broken is passed over.
LoadFileConfigFallsBack(explicit, home, etc) ==
    IF explicit \notin {Missing, Broken} THEN explicit
    ELSE IF home \notin {Missing, Broken} THEN home
    ELSE ValueIn(etc)

(* load_file_config: --config alone when it is given, readable or not;     *)
(* else the first of the user's and the system's file that parses.         *)
LoadFileConfig(explicit, home, etc) ==
    IF explicit # Missing THEN ValueIn(explicit)
    ELSE IF home \notin {Missing, Broken} THEN home
    ELSE ValueIn(etc)

(* apply_file_config: the file's value replaces a flag that has its        *)
(* default, whether by omission or because it was given that value; the    *)
(* default of an optional setting is None and that of a switch false.  An  *)
(* address has to parse.                                                   *)
ApplyFileConfig(flag, file, address) ==
    LET arg == IF flag = Absent THEN Default ELSE flag IN
    IF arg = Default /\ file # Absent /\ ~(address /\ file = Unparsable)
    THEN file ELSE arg

Setting(s) ==
    ApplyFileConfig(s.flag, LoadFileConfig(s.explicit, s.home, s.etc), s.address)

SettingsInit ==
    sources \in {[flag |-> Absent, address |-> a, explicit |-> Missing,
                  home |-> Missing, etc |-> Missing] : a \in BOOLEAN}

(* Between two starts of the relay the operator changes the flag or a      *)
(* file.                                                                   *)
ChangeFlag(v) == sources' = [sources EXCEPT !.flag = v]
ChangeConfig(file) == sources' = [sources EXCEPT !.explicit = file]
ChangeHome(file) == sources' = [sources EXCEPT !.home = file]
ChangeEtc(file) == sources' = [sources EXCEPT !.etc = file]

Change ==
    \/ \E v \in Values \cup {Absent} : ChangeFlag(v)
    \/ \E file \in Files : ChangeConfig(file) \/ ChangeHome(file) \/ ChangeEtc(file)

SettingsSpec == SettingsInit /\ [][Change]_sources

-----------------------------------------------------------------------------

\* What load_file_config and apply_file_config make of flag and files.  A flag
\* with a value other than the default wins.  (Of one that is given the
\* default's value nothing is claimed: the file overrides it, and main.rs says
\* that flags always override the file.)  With --config the other files do
\* not matter, not even when it is broken or silent on the setting; a user's
\* file that parses silences the system's in the same way, and one that does
\* not is as good as none.  A value in the file that counts wins over the
\* default; and what is no address never gets where an address is expected.
SettingsResolved ==
    LET value == Setting(sources)
        open == sources.flag = Absent
        parses(file) == file \notin {Missing, Broken}
    IN  /\ sources.flag \notin {Absent, Default} => value = sources.flag
        /\ sources.explicit # Missing =>
             \A h, e \in Files : Setting([sources EXCEPT !.home = h, !.etc = e]) = value
        /\ parses(sources.home) =>
             \A e \in Files : Setting([sources EXCEPT !.etc = e]) = value
        /\ sources.home = Broken => Setting([sources EXCEPT !.home = Missing]) = value
        /\ open /\ sources.explicit \in Values => value = sources.explicit
        /\ open /\ sources.explicit = Missing =>
             /\ sources.home \in Values => value = sources.home
             /\ ~parses(sources.home) /\ sources.etc \in Values => value = sources.etc
        /\ value \in Values \/ (~sources.address /\ value = Unparsable)

=============================================================================
