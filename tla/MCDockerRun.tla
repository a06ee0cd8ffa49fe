----------------------------- MODULE MCDockerRun -----------------------------
(* Small instances of DockerRun. *)
EXTENDS DockerRun

Build == [command |-> "build", project |-> ".", type |-> DefaultType, explicit |-> FALSE,
          dir |-> Absent, clean |-> FALSE, defines |-> NoDefines, target |-> Absent,
          debug |-> FALSE, image |-> "img", forwarded |-> <<>>]
Local == [Build EXCEPT !.image = Absent]
\* A build with every flag, and a run with its own "--".
Full == [Build EXCEPT !.type = "Release", !.explicit = TRUE, !.dir = "out", !.clean = TRUE,
                      !.defines = [k \in Names |-> "1"]]
Run == [Build EXCEPT !.command = "run", !.target = "hello", !.debug = TRUE,
                     !.defines = [NoDefines EXCEPT !["FOO"] = "2"],
                     !.forwarded = <<<<"-b">>, <<"--">>, <<"x">>>>]

MCNameSeq == <<"BAR", "FOO">>
MCVars == LogVars

One(s, v) == [NoConfig EXCEPT ![s] = v]
Yaml(doc) == Dir({".yaml"}, doc)
\* What the distribution ships, and a project and a home with settings of
\* their own: the project takes one of the home's back.
ShippedDir == Dir({".toml"}, [One(Use, <<"gcc">>) EXCEPT ![RuleSet("gcc")] = "rules"])
HomeDir == Yaml([One(Define("FOO"), "9") EXCEPT
                 ![BuildType] = "Release", ![Env("BALDR_LOG_VIEW")] = "window",
                 ![RuleSet("mine")] = "rules"])
ProjectDir == Yaml([One(Define("FOO"), "3") EXCEPT
                    ![BuildType] = Null, ![Env("BALDR_LOG_FORMAT")] = "epoch"])
\* More than one file.
Ambiguous == Dir({".yaml", ".json"}, NoConfig)
\* It uses rules which only the home has.
UserDir == Yaml(One(Use, <<"mine", "gcc">>))
\* It has another Baldr run in the container, and a build type of its own.
OtherDir == Yaml([One(BaldrPath, "/opt/bin/baldr") EXCEPT ![BuildType] = "Release"])

Shares(self, configured, image) ==
    [b \in Binaries |-> IF b = "self" THEN self ELSE IF b = "configured" THEN configured ELSE image]
Usual == Shares(ShippedDir, Absent, Absent)
Plain == [v \in Vars |-> Absent]
Talkative == [v \in Vars |-> IF v = "BALDR_LOG_VIEW" THEN "digest"
                             ELSE IF v = "BALDR_LOG_FORMAT" THEN "loud" ELSE "logs"]

Ask(opts, env, home, project, shares) ==
    [opts |-> opts, env |-> env, home |-> home, project |-> project, shares |-> shares]

\* Runs in a container, in all their ways.
ContainerAsks ==
    {Ask(opts, Plain, NoDir, NoDir, Usual) : opts \in {Build, Full, Run}}
    \cup {Ask(Build, Talkative, HomeDir, ProjectDir, Usual),
          Ask(Build, Plain, HomeDir, UserDir, Usual),
          Ask(Build, Plain, NoDir, OtherDir, Shares(ShippedDir, NoDir, ShippedDir)),
          Ask(Build, Plain, NoDir, Yaml(One(Mount, FALSE)), Shares(ShippedDir, Absent, Ambiguous))}
\* Configurations that cannot be loaded, and builds without a container.
OtherAsks ==
    {Ask(Build, Plain, NoDir, dir, Usual) :
        dir \in {Yaml(Wrong), Yaml(One(Mount, Wrong)),
                 UserDir, Ambiguous, [NoDir EXCEPT !.searchable = FALSE]}}
    \cup {Ask(opts, Talkative, dir, NoDir, Usual) :
              opts \in {Local, [Local EXCEPT !.clean = TRUE]}, dir \in {NoDir, HomeDir}}
SomeAsks == ContainerAsks \cup OtherAsks
OneAsk == {Ask(Build, Plain, NoDir, NoDir, Usual)}

\* A line, a line in two pieces, nothing.
SomePayloads == {<<97, 10>>, <<10, 97>>, <<>>}
=============================================================================
