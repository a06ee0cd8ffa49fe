----------------------------- MODULE MCBuildDir -----------------------------
(* Small instances of BuildDir.  Each run picks its Requests and its Trees. *)
EXTENDS BuildDir

CONSTANT Top   \* the name of CMAKE_PROJECT_TOP_LEVEL_INCLUDES

MCKeySeq == <<"FOO", Top>>
OneKeySeq == <<"FOO">>
MCOwnDir == [t \in BuildTypes |-> IF t = "Release" THEN "build/release" ELSE "build/debug"]

\* FOO alone: unset or with one of two values.
FooOnly == {[k \in Keys |-> IF k = "FOO" THEN v ELSE Absent] : v \in {Absent, "1", "2"}}
\* FOO and the user's own top-level includes, each set or not.
WithTop == {[k \in Keys |-> IF k = "FOO" THEN v ELSE w] : v \in {Absent, "1"}, w \in {Absent, "mine"}}

Ask(types, overrides, defs, envs, paths) ==
    [type : types, override : overrides, defs : defs, env : envs, path : paths,
     clean : BOOLEAN, run : BOOLEAN]
BuildOnly(rs) == {r \in rs : ~r.run}
RunOnly(rs) == {r \in rs : r.run}

AllTreesAt(places) == {t \in AllTrees : t.place \in places}
ConanTrees == {t \in AllTreesAt({"src"}) : ~t.local}
PlainTrees == {[conanfile |-> FALSE, local |-> FALSE, home |-> FALSE, place |-> p] : p \in Places}
OneTree == {[conanfile |-> FALSE, local |-> FALSE, home |-> FALSE, place |-> "src"]}

\* One directory, changing defines, environments and providers, and another
\* from wherever the project may be named.
NoDefines == {[k \in Keys |-> Absent]}
DefineRequests ==
    BuildOnly(Ask({"Debug"}, {NoOverride}, WithTop, {"env1", "env2"}, {"here"})
              \cup Ask({"Debug"}, {"out"}, NoDefines, {"env1"}, Paths))
FooOrNot == {d \in FooOnly : d["FOO"] # "2"}
\* For everything that can go wrong: `baldr run` in one directory with two
\* settings, another build type in its own, and one that is none.
FaultRequests ==
    RunOnly(Ask({"Debug"}, {NoOverride}, FooOrNot, {"env1"}, {"here"}))
    \cup {r \in BuildOnly(Ask({"Release", "debug"}, {NoOverride}, NoDefines, {"env1"}, {"here"})) :
              ~r.clean}
\* One directory, three settings.
FooRequests == BuildOnly(Ask({"Debug"}, {NoOverride}, FooOnly, {"env1"}, {"here"}))
\* tests/smoke.sh: both build types in one --build-dir.
SharedDirRequests == BuildOnly(Ask(KnownTypes, {"out"}, FooOnly, {"env1"}, {"here"}))
=============================================================================
