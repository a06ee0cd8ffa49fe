---------------------------- MODULE MCTwoBuilds ----------------------------
(* A small instance of TwoBuilds: Debug in its own directory with FOO or      *)
(* without, and Debug in another, for which a --project may be relative.     *)
EXTENDS MCBuildDir, TwoBuilds

PairRequests ==
    BuildOnly(Ask({"Debug"}, {NoOverride}, FooOrNot, {"env1"}, {"here"})
              \cup Ask({"Debug"}, {"out"}, NoDefines, {"env1"}, {"here", "relative"}))
=============================================================================
