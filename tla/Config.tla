------------------------------- MODULE Config -------------------------------
(***************************************************************************)
(* Baldr's configuration (baldr/config.cpp, classifier.cpp: parse_rules):    *)
(* which file of a directory counts, how the shipped, the global and the      *)
(* project's files are merged, and what the result must be like.             *)
(*                                                                           *)
(* A document is a function from the paths of the settings to their values,  *)
(* the paths being those the code looks up: <<"docker", "mount-baldr">>.     *)
(* `debugger` stands for `debugger-args` too.  The rules of a classifier set *)
(* are one value.                                                             *)
(***************************************************************************)
EXTENDS Naturals, Sequences, FiniteSets

CONSTANTS
    Names,         \* the keys cmake.definitions may have
    Vars,          \* the keys env may have, which are environment variables
    SetNames,      \* the keys classifier.sets may have
    DefaultType,   \* config::build_type and the default of -b
    Absent,        \* an empty optional, a key that is not in a map
    Null,          \* a null in a config file, which deletes the key
    Wrong          \* a value of a type the setting cannot have

ASSUME ConfigAssumption == Absent # Null /\ Absent # Wrong /\ Null # Wrong

\* What a function that throws a nova::exception comes to: no document, which
\* would have a place for every setting.
Failed == <<>>

BuildType == <<"build-type">>
Mount == <<"docker", "mount-baldr">>
BaldrPath == <<"docker", "baldr-path">>
Use == <<"classifier", "use">>
Define(name) == <<"cmake", "definitions", name>>
Env(var) == <<"env", var>>
RuleSet(name) == <<"classifier", "sets", name>>

Settings ==
    {BuildType, <<"debugger">>, Mount, BaldrPath, Use}
    \cup {Define(n) : n \in Names} \cup {Env(v) : v \in Vars} \cup {RuleSet(n) : n \in SetNames}

\* No file, or an empty one.
NoConfig == [s \in Settings |-> Absent]

Formats == {".yaml", ".yml", ".json", ".toml"}

\* A directory as find_config and read see it: the config files it has, what
\* is in the first of them, and whether the directory may be searched.
Dir(files, doc) == [files |-> files, doc |-> doc, searchable |-> TRUE]
NoDir == Dir({}, NoConfig)

\* find_config and read_config: more than one file is an error, as is one
\* that is not a map.
Read(dir) ==
    IF ~dir.searchable \/ Cardinality(dir.files) > 1 THEN Failed
    ELSE IF dir.files = {} THEN NoConfig
    ELSE IF dir.doc = Wrong THEN Failed ELSE dir.doc

\* read_shipped: the rules alone, under the key they have in a config file.
ReadShipped(share) ==
    IF Read(share) = Failed THEN Failed
    ELSE [s \in Settings |-> IF Head(s) = "classifier" THEN Read(share)[s] ELSE Absent]

\* dyn_value::merge: a null deletes, a value replaces.
Over(base, over) == IF over = Null THEN Absent ELSE IF over = Absent THEN base ELSE over
Merge(base, over) == [s \in Settings |-> Over(base[s], over[s])]

\* parse_rules looks at the sets in use only.
RulesThrow(doc) ==
    /\ doc[Use] # Absent
    /\ \E i \in DOMAIN doc[Use] :
           \A n \in SetNames : n = doc[Use][i] => doc[RuleSet(n)] \in {Absent, Wrong}

\* parse: the defaults for what is missing.
Default(s) ==
    CASE s = BuildType -> DefaultType
      [] s = <<"debugger">> -> "gdb"
      [] s = Mount -> TRUE
      [] s = Use -> <<>>
      [] OTHER -> Absent
Parsed(doc) ==
    IF \/ \E s \in Settings \ {RuleSet(n) : n \in SetNames} : doc[s] = Wrong
       \/ RulesThrow(doc)
    THEN Failed
    ELSE [s \in Settings |-> IF doc[s] = Absent THEN Default(s) ELSE doc[s]]

\* load: the project's file over the global one, both over the shipped rules.
Load(home, project, share) ==
    LET docs == <<ReadShipped(share), Read(home), Read(project)>>
    IN  IF \E i \in 1..3 : docs[i] = Failed THEN Failed
        ELSE Parsed(Merge(docs[1], Merge(docs[2], docs[3])))
=============================================================================
