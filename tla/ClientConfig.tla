---------------------------- MODULE ClientConfig ----------------------------
(***************************************************************************)
(* The client's configuration file: what `seamless config init` and        *)
(* `config clear` make of it, and what a client that is then started uses  *)
(* (seamless-client, main.rs and config.rs).  The file is written beside   *)
(* its place and renamed into it, so that a save that fails or is cut off  *)
(* changes nothing.                                                        *)
(***************************************************************************)
EXTENDS Integers

CONSTANTS
    Fields,     \* relay, keys, token, subdomain
    Texts,      \* what a field may hold
    Unset,      \* None
    NoFile,     \* there is no file
    Malformed   \* the file is not TOML

ASSUME ConfigAssumption == Unset \notin Texts

Configs == [Fields -> Texts \cup {Unset}]
Empty == [f \in Fields |-> Unset]

ASSUME FileAssumption == {NoFile, Malformed} \cap Configs = {}

VARIABLES
    file,   \* the default configuration file
    given   \* history: for each field, what was given last

(* load_from: a file that is missing or malformed counts as empty. *)
Load(saved) == IF saved \in {NoFile, Malformed} THEN Empty ELSE saved

FreshConfig == file = NoFile /\ given = Empty

\* Mutant of Merged: the new values are saved over an empty configuration.
MergedWithNone(saved, new) == new

(* The fields that are given, over what the file holds. *)
Merged(saved, new) == [f \in Fields |-> IF new[f] # Unset THEN new[f] ELSE Load(saved)[f]]

(* `config init` with some of its flags. *)
Save(new) ==
    /\ file' = Merged(file, new)
    /\ given' = [f \in Fields |-> IF new[f] # Unset THEN new[f] ELSE given[f]]

(* `config clear` *)
Clear == file' = Empty /\ given' = Empty

(* The user edits, breaks or removes the file. *)
EditByHand ==
    /\ file' \in Configs \cup {NoFile, Malformed}
    /\ given' = Load(file')

ConfigNext == (\E new \in Configs : Save(new)) \/ Clear \/ EditByHand

ConfigSpec == FreshConfig /\ [][ConfigNext]_<<file, given>>

(* main: the flag, or else the value saved. *)
ClientSetting(flag, f) == IF flag # Unset THEN flag ELSE Load(file)[f]

-----------------------------------------------------------------------------

\* A client that main starts uses, field by field, its flag or else what was
\* given last, however many times and in whatever combinations `config init`
\* was run: giving one field never loses another, and a file that is missing
\* or malformed is as good as an empty one.
ClientSettingsKept ==
    \A f \in Fields, flag \in Texts \cup {Unset} :
        ClientSetting(flag, f) = IF flag # Unset THEN flag ELSE given[f]

=============================================================================
