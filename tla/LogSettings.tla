---------------------------- MODULE LogSettings ----------------------------
(***************************************************************************)
(* How the environment shapes Baldr's output (libutl/log.cpp: resolve,       *)
(* child_env) and what environment Baldr gives to what it starts, where       *)
(* another Baldr may run (baldr/exec.cpp, docker.cpp: docker_run).           *)
(***************************************************************************)
EXTENDS Config

\* log_env_name of what decides how a nested Baldr's lines come out.
LogVars == {"BALDR_LOG_FORMAT", "BALDR_LOG_VIEW", "BALDR_LOG_FILE"}

ASSUME LogSettingsAssumption ==
    LogVars \subseteq Vars /\ Absent \notin {"", "plain", "stream"}

\* parse_format and parse_view: what they take.
Valid(var) ==
    CASE var = "BALDR_LOG_FORMAT" -> {"plain", "timestamped", "epoch"}
      [] var = "BALDR_LOG_VIEW" -> {"stream", "window", "digest"}

\* apply_env: what cannot be parsed is ignored, with a warning.
Applied(env, var, default) == IF env[var] \in Valid(var) THEN env[var] ELSE default

\* resolve; an empty directory is none.
Resolve(env) ==
    [format |-> Applied(env, "BALDR_LOG_FORMAT", "plain"),
     view   |-> Applied(env, "BALDR_LOG_VIEW", "stream"),
     dir    |-> CASE env["BALDR_LOG_FILE"] = Absent -> "/tmp/baldr-logs"
                  [] env["BALDR_LOG_FILE"] = "" -> Absent
                  [] OTHER -> env["BALDR_LOG_FILE"]]

\* Plain lines for the outer Baldr to log again, and no file of its own.
Nested == [format |-> "plain", view |-> "stream", dir |-> Absent]

\* Mutant of ChildEnv: the defaults of format and file are relied on.
ChildEnvViewOnly(var) == IF var = "BALDR_LOG_VIEW" THEN "stream" ELSE Absent

\* child_env
ChildEnv(var) ==
    CASE var = "BALDR_LOG_FORMAT" -> "plain"
      [] var = "BALDR_LOG_VIEW" -> "stream"
      [] var = "BALDR_LOG_FILE" -> ""
      [] OTHER -> Absent

\* The first of these that is there.
FirstOf(values) == LET there == {i \in DOMAIN values : values[i] # Absent}
                   IN  IF there = {} THEN Absent ELSE values[CHOOSE i \in there : \A j \in there : i <= j]

\* run_streamed and command::run: the env of cfg, then child_env for what it
\* leaves out, over Baldr's own environment.
StepEnv(env, cfg) == [v \in Vars |-> FirstOf(<<cfg[Env(v)], ChildEnv(v), env[v]>>)]

\* docker_run: run_in_container passes no environment, so child_env is all.
ContainerEnv == [v \in Vars |-> ChildEnv(v)]
=============================================================================
