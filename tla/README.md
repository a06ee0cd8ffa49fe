# Baldr in TLA+

Baldr is a command-line driver for CMake and Makefile projects: `baldr build`
and `baldr run` merge configuration files with the command line, run the build
tools as children on a pseudo-terminal, classify and log their output, forward
or absorb Ctrl-C, and can do all of it inside a Docker container. This
directory holds TLA+ specifications of its logic, TLC configurations that check
them on small instances, and TLAPS proofs of the results that matter most.

Paths of the program are given from the repository root as `src/...`; line
numbers are those of the commit these modules were written from.
`PROJECT.json` maps every definition to the lines it stands for.

## 1. Inventory

| Component | State it keeps | Operations | Modelled in |
|---|---|---|---|
| Builder, CMake (`baldr/builder.cpp`) | CMake's cache and the `.baldr-defines` marker in each build directory, `compile_commands.json`, what was built | clean, configure, write the marker, link, build, resolve the executable, run | `BuildDir`, `TwoBuilds`; what it promises: `BuildPromise` |
| Builder, Makefile | none of its own | `make clean` (status ignored), `make`, target | `Session` (`MakePlan`) |
| Signal handling (`libutl/signal.hpp`) | per signal: count, target pid, threshold, action | `handle`, `escalate`, `disarm`, `scoped_watch`, `signal_guard`, `reraise_default` | `Session`, `AtomicWatch` |
| Child processes (`libutl/command.cpp`, `baldr/exec.cpp`) | pid, pty, exit status | fork/exec with an error pipe, `poll`, `wait` | `Session` |
| Line reader (`libutl/line_reader.hpp`) | the unfinished line | `feed`, `feed_eof` | `LineReader` |
| Entry point (`main.cpp`: `entrypoint`) | the result | catch, last look at the SIGINT count, exit | `Session`, `DockerRun` (`Finish`) |
| Command line (`main.cpp`) | the options | `parse_args`, `resolve_command`, `build_container_argv` | `Invocation` |
| Configuration (`config.cpp`) | none: the merged document is a value | `find_config`, `read`, `read_shipped`, `load`, `parse`, `parse_rules`, `load_merged_config` | `Config`, `Invocation` |
| Docker client (`docker.cpp`) | the socket, the container | ping, create, start, stream logs, wait | `DockerRun` |
| Logging (`libutl/log.cpp`) | the digest's counters, the lines it has seen, the window's buffer, the sinks' levels | a record, `success`, `failure`, `open_file`; `resolve`, `child_env` | `Logging`; `LogSettings` |
| Classifier (`classifier.cpp`) | the rules | `parse_rules`, `classify` | `Config` (`RulesThrow`), `Logging` (`Classify`) |
| Terminal helpers (`tty.cpp`) | none | strip escapes, measure and cap a line | `Logging` (`Strip`, `Width`, `Cap`) |
| Environment helper (`env.hpp`) | none | a pure function over strings | not modelled |
| Release scripts (`ci/tag-release.sh`, `tools/bump-version.sh`, ...) | tags, branches, version files | tag, bump, check | not modelled: section 6 |
| Conan provider (`env/conan_provider.cmake`) | - | vendored third-party code | not modelled |

How they interact: `entrypoint` parses the command line, opens the log file,
installs the SIGINT guard (`main.cpp:490`: until then a Ctrl-C ends Baldr as it
ends any process), loads the configuration and then either drives a `builder` or
`docker_run`. It catches `nova::exception` and no other. The builder calls
`run_streamed`, which forks a child, arms the SIGINT handler with the child's pid,
feeds what the child writes through a line reader and the classifier to the
logger, and waits. The target of `baldr run` is not streamed: it keeps the
terminal. `docker_run` starts a second Baldr in a container, with a command line
made from this one's options, and feeds its output through the same reader and
classifier. A build tool may run Baldr as well: such a nested Baldr is told by its
environment to stream plain lines. The disk (cache, marker, symlink) is the only
state that survives an invocation, and the only state two Baldr processes share;
nothing locks it. The handler's statics are the only state shared with an
asynchronous context; Baldr has no threads.

What is hard in this code, and what makes it right:

* **Build directories.** Two records of one truth, CMake's cache and Baldr's
  marker, written by two programs at two moments, either of which may fail or
  be killed. Right means: a build is made with what its invocation asked for,
  however it was decided that configuring again is not necessary, and whatever
  a second Baldr does there meanwhile.
* **Signals.** A handler that runs between any two stores of the main thread
  and may send SIGKILL to a pid. Right means: only ever to our own child.
* **Children.** Every exit path (exec failure, exception, interrupt) must reap,
  and what is reported must be what happened.
* **Container runs.** Output framed and cut anywhere, a daemon that removes the
  container by itself, a connection that may go away. Right means: the lines,
  the status and the settings survive the detour.
* **Logging.** Bounded buffers and counters over a sequence of tasks, and
  sinks with levels of their own. Right means: what is hidden is counted, what
  is replayed is this task's, what one sink needs does not change another.

`PROJECT.json` lists the hazards line by line, each with the properties that
would catch it, or with the reason why none does yet.

## 2. Modules

| Module | What it is |
|---|---|
| `BuildDir` | a build directory over a history of invocations |
| `BuildPromise` | what the builder promises of its directories, without cache or marker; `BuildDir` implements it |
| `TwoBuilds` | two Baldr processes in one project: `BuildDir` and a second instance of it over the same disk |
| `MCBuildDir`, `MCTwoBuilds` | their small instances: sets of requests and trees |
| `BuildDirProofs` | theorems about `BuildDir`, among them that it implements `BuildPromise` |
| `TwoBuildsProofs` | theorems about `TwoBuilds`: processes and disks are records there, so that each fact about a step is proved once and holds of either process |
| `Session` | one Baldr process with its children and its signal handler |
| `AtomicWatch` | what a watch promises: it begins and ends at one instant |
| `MCSession` | plans of children |
| `SessionProofs` | theorems about `Session`, among them that it implements `AtomicWatch` |
| `LineReader` | `feed` and `feed_eof` on sequences, with a reference definition of "lines of" |
| `Config` | which file of a directory counts, how the shipped, global and project files are merged, what is an error |
| `LogSettings` | how the environment shapes a Baldr's output, and the environment it gives its children; extends `Config` |
| `Invocation` | the command line over the configuration: merge, parse, the container's argv; extends `LogSettings` |
| `DockerRun` | one invocation from its configuration on: a build step, or `docker_run`, the daemon and the container; extends `Invocation` and `LineReader` |
| `MCDockerRun` | its small instances |
| `InductionLemmas` | induction over numbers and sequences, recursive functions and `FlattenSeq`, as facts about sets |
| `InvocationProofs` | theorems about `Invocation`: the command line there and back, and the configuration without the home's files |
| `DockerProofs` | theorems about `DockerRun` |
| `Logging` | the three views, the digest, the window, the log file, the classifier |
| `MCLogging` | its small instance |
| `LoggingProofs` | theorems about `Logging`: its types, the levels and the log file, the replay, the digest's counts and what it prints |
| `WindowProofs` | theorems about the window's rows: what cutting and stripping make of any line |

Each definition named `...Keeping...`, `...Unbounded` and the like, commented
"Mutant of X", is not part of the specification: it is a plausible bug in X.
Putting it in X's place must make a property fail; `PROJECT.json` says which.

### BuildDir, BuildPromise and TwoBuilds

`cache[d]`, `marker[d]`, `cc[d]`, `outputs[d]` are what is in build directory
`d` (`CMakeCache.txt`, `.baldr-defines`, `compile_commands.json`, executables of
the target's name), `link` is the symlink in the project root, `tree` the
project's files the builder looks at. The text of the link is the project's path as
`--project` gave it and the build directory (`Text`), and it is read from the
project: a relative path leads nowhere there (`Followed`), unless the project is
the working directory. `inv` is the request of the process that
runs, `pc` its next step; `prov`, `unset`, `fresh` and `launched` are its
locals. The steps are those of `builder::handle_cmake_project`,
`configure_cmake`, `build` and `run`, one for each look at the disk and each
change of it:

    Invoke -> (Refuse | Clean? -> Resolve -> Decide
           -> (ReadDropped -> Configure... -> (OpenMarker -> WriteMarker | MarkerUnopened))?
           -> LinkCompileCommands -> (RemoveLink -> CreateLink)?
           -> Build... -> (ResolveExecutable -> TargetExits)?)

`Refuse` is an unknown build type; `Decide` is `needs_cmake_configure`;
`ReadDropped` reads the marker once more, for the names `dropped_defines` has
unset; `OpenMarker` empties it, `MarkerUnopened` leaves it as it was. The marker
is a record of the sections its text is made of, so that equal records are equal
texts (values with newlines are left out). `Torn` is a text cut short. CMake is
external: its cache keeps an entry until a -U or a -D changes it (`Configured`),
and a configure step that fails has saved it or not. `EditTree` is the user at any
time, also while Baldr runs. `Mishaps` chooses what the environment may do:
`fail_saves`, `torn`, `crash` (at every step; half of `remove_all` may be done),
`unopened` (a marker that cannot be written at all), `link_fails`.

`BuildPromise` knows no files. A directory is configured with the settings of
one request as a whole or with nothing, a build starts only with the settings
it was asked for, and no invocation touches another's directory. `Promise` maps
`with` to what is in CMake's cache (`Held`: the defines, the build type and the
environment; the Conan provider is no setting of a request's), `task` to the
request, and `phase` to the part of the protocol `pc` is in. CMake merges and
never replaces, so a configure step is a step of `BuildPromise` only if the -U
arguments were exactly the right ones.

`TwoBuilds` has BuildDir's process and an `Other!` one with locals of its own
over the same disk. `Beside` says what may overlap: different build directories,
or the same settings without `--clean` in one. With different settings in one
directory, or `remove_all` under a build that runs, no order of steps could give
both what they asked for, and no document promises it. `cut` records the
directories whose marker was left cut short.

### Session and AtomicWatch

`pc` walks through `command::run`, `scoped_watch`'s constructor store by store,
the poll loop, `wait`, the destructor store by store, and `entrypoint`'s end.
`h` is the handler's four statics for SIGINT. `pending` is a SIGINT the kernel
has for Baldr; `HandleSignal` runs `handle` and `dispatch` whole, between any
two steps of the main thread. `proc` is the kernel's process table for a few
pids; a free pid may be taken by a stranger at any time, which is how a recycled
pid shows. A child that is not interactive has called `setsid` and gets no
SIGINT (`command.cpp:154`); one that cannot become a session leader
(`ChildKeepsSession`) or open its side of the pty never opens it, and the second
unwinds as a copy of Baldr (`ChildThrows`). `slave` is that side of the pty:
`PollEof` needs it opened and closed again, whatever has become of the child. So
Baldr reads on for ever where nobody has opened it, and where a grandchild that the
SIGKILL of the third press does not reach holds it (`Grandchild`,
`GrandchildEnds`). A `std::` exception, from the file system between two children
(`FilesystemThrows`) or from a line on its way to the log (`PollThrows`, `thrown`),
passes the catch of `nova::exception` and the last look at the count
(`Terminate`, `how = "uncaught"`). `seen` and `shot` are history variables for the
properties. `AtomicWatch` is the abstract specification: a watched pid, or
none; a delivery that reaches the threshold kills the watched pid. The
refinement maps `watched` to the handler's target while `Armed` and to 0
otherwise: the watch begins with the last store of `escalate` and ends with the
first of `disarm`.

### Config, LogSettings, Invocation, LineReader and DockerRun

`Config` has no state. A document is a function from the paths of the settings the
code looks up to their values, where a value may be missing, null (deletes), or of
a type the setting cannot have. A directory is the set of config files it has,
what is in the first of them, and whether it can be searched. `Read`,
`ReadShipped`, `Load` and `Parsed` are the functions of `config.cpp`; what throws
is `Failed`, no document. `LogSettings` adds `Resolve` (format, view and file from
the environment), `ChildEnv`, and who gets what: `StepEnv` for a build tool, the
configuration's `env` first (`exec.hpp:36`) where it is given it, `ContainerEnv`
for a container.

In `Invocation` a command line is a sequence of words. `ParseArgs`,
`LoadMerged` and `BuildContainerArgv` are the functions of the same names;
`Options` are all the words that are options, `ParseArgs` knows the spellings
`BuildContainerArgv` uses, and `Parseable` leaves out options whose value is itself
such a word.
`LineReader` has `Feed`, byte by byte (`FeedByte`), and `FeedEof`. Beside them are
`LinesOf`, `RestOf` and `AllLinesOf`, what a whole text's lines are by where its
newlines are (`Newlines`, `EndOf`): a definition that knows nothing of chunks.

`DockerRun` begins with an `ask`: the options, the environment, the home and
project directories, and the directories of shipped files beside the binaries that
may be run. `LoadConfig` ends the run if they cannot be loaded, or goes on to a
build tool (`RunStep`, and `MakeClean` before it, which gets nothing of the
configuration's `env`: `builder.cpp:287`) or to the client's requests one by one
(`pc`), next to the container (`cont`, `code`, `frames`), the daemon (it removes a
container that has ended at any moment), the connection (`up`) and Ctrl-C. `inner`
is what was started: argv and environment. `Inside` is what the Baldr in the
container finds: the project, no home, and the shipped files of the binary it is,
which `run_in_container` mounts if they are there. `wire` holds the bytes of the
response that are not read; `ReadSome` takes some of them and `Decoded` is the
inner loop of `stream_logs` over `pending`: `DecodeOne`, a frame from its header
on, as often as `pending` has room for a header (`Rounds`). A frame's size is four
bytes, big-endian (`Size`, `FramePayloadSize`). Bytes are numbers here because the
property is about where the stream is cut. An exception of `boost::asio` is not
caught by `entrypoint` (`how = "uncaught"`).

### Logging

A line has markers, by which `Classify` finds its level, and a text, a sequence
of cells: visible characters, whole CSI sequences, and the characters of OSC
sequences. `Strip`, `Width` and `Cap` are the functions of `tty.cpp` over cells: the
places of its escapes (`Escapes`), what a scan over the cells leaves (`Scan`), the
cells before the cut and the escapes behind it (`Before`, `Behind`). What
`digest_sink` compares and prints is `Look`, the stripped and capped text.
`Record` gives a record to the terminal's sink and to the file's, through the
levels of the logger and of both sinks. `screen` is what stays on the terminal,
`drawn` the rows the window will draw over, `file` the log file, `buffer` the
window's lines, `seen` and `stats` the digest's; `history` is what was asked of
the logger, for the properties to compare with. `OpenFile` is `open_file` with
its changes of levels; `Success` and `Failure` go to `WindowSuccess`,
`WindowFailure`, `Summary` or, in a stream only, to `Record`.

## 3. Runs

Passing runs. Every action fires in at least one of them.

| Run | What it shows | Bounds, and why they are enough |
|---|---|---|
| `BuildDirDefines` | builds are made with what was asked for, a Debug build's `compile_commands.json` can be opened but for the link of a relative `--project`, invocations end, and `BuildPromise` is implemented, when a failed configure step leaves no trace | one directory with `FOO` and the user's own top-level includes set or not and two environments, another beside it for which the project is named in each way; a Conan file and a provider in `$HOME` that come and go, with and without `--clean`. The marker compares all settings as one text, so two values of each suffice to differ; a history of any length is explored |
| `TwoBuilds` | each of two overlapping builds has what it was asked for, also after torn markers, and the symlink can be opened once both have come to their build, but for that of a relative `--project` | Debug in its own directory with `FOO` and without, and Debug in another, for which the project's path may be relative: the pairs that share a directory and those that share only the link; what ran before differs. `torn`, but neither crashes nor failed configure steps that save: what those leave behind is `BuildDirFaults` and `BuildDirFailedConfigure` |
| `BuildDirFaults` | `--clean` builds are exact, the build type is right, `run` launches what it has just built, and invocations end, with every mishap | `run` with two settings in one directory another build type in its own and one that is none, the target in one of two places |
| `SessionInterrupts` | the handler only aims at our child, children are reaped, an interrupt is never reported as a failure and decides how Baldr ends unless a `std::` exception does, Baldr ends unless it reads from a pty that is held or was never opened; `AtomicWatch` is implemented | `make clean`, `make` and the target: one child of each kind (ignored status, streamed, interactive). Two pids: the child's and one a stranger may have. The count stops at 4, one more than the threshold; counts above the threshold cannot be told apart by the code. One grandchild: what matters is whether any is left |
| `DockerRun` | lines survive any cutting, success is real, no container is left running, the Baldr inside does the same with the settings it can have, nested Baldrs stream plain lines, the run ends | two frames, payloads with a whole line, parts of two lines, nothing; reads of 1, 7, 10 and 17 bytes: less than a header, a header and part of a payload, more than one frame. Sixteen asks: command lines with every flag and a forwarded `-b` and `--`; a home and a project that contradict each other, with nulls and `env`; rules only the home has; a Baldr of the image with shipped files, without, and with some that cannot be read; each way a configuration can fail; builds without a container |
| `Logging` | counters add up, a task's first errors stay on the terminal unless they look like a hidden warning, what goes through the logger is in the file, replays are this task's, the window's rows never wrap and keep their colours, the file leaves the terminal's level alone | four calls, buffer of two of which one is drawn, limit of one per level, two lines of one look and different levels, coloured lines cut before, at and behind an escape: enough to exceed each limit and to have a second task after it |

Runs that find a disagreement between the code and what the repository says of
it. Each has one property and TLC finds it violated:

| Run | What happens |
|---|---|
| `BuildDirFailedConfigure` | settings A are built; B fails to configure after CMake has saved its cache; A again is "unchanged" by the marker and is built with B's entries |
| `BuildDirSharedDir` | Debug and then Release in one `--build-dir`, as `tests/smoke.sh` does: nothing is configured, Release is Debug |
| `SessionHang` | a process the child started holds the pty: the child ends, three presses and more are counted, and Baldr reads on. The children are those of a CMake project, and no `std::` exception comes |
| `SessionNextChild` | a Ctrl-C during a streamed child does not keep Baldr from starting the next one |
| `DockerExitCode` | the container is removed before `wait_container` asks: 0 is reported as a failure |
| `LoggingCrowdedOut` | with a limit of one, a warning is printed, a second one hidden; the error that looks like the second one is a repetition, and is never printed |

Noticed on the way, without a run of their own:

* once the Conan provider is dropped, its cache entry stays: it is never
  unset (`builder.cpp:344` goes through the defines only). `NothingElse` leaves
  `CMAKE_PROJECT_TOP_LEVEL_INCLUDES` out for that reason;
* `link_compile_commands` stores the project's path as it was given, in a link
  that lies in the project (`builder.cpp:149`): after `baldr -p sub build` from
  above, `sub/compile_commands.json` leads to `sub/sub/build/...` and dangles, and a
  link of the same text is taken for correct from then on (`builder.cpp:155`).
  `LinkResolves` and `LinkSettles` except that link and no other, and the runs
  include it;
* a marker that cannot be opened is not noticed (`builder.cpp:370`): the old one
  stays beside the new cache, as after a failed configure step;
* `scoped_watch` disarms after `wait4` has reaped the child (`exec.cpp:47`): a third
  Ctrl-C in between kills whoever has got the pid. `WatchIsOurs` says that this step
  is the only one;
* in the window and the digest the messages of `success()` and `failure()` go past
  the logger (`log.cpp:441`), so the log file, "the full record" of
  `user-guide.adoc:101`, does not have them. `OutputIsRecorded` leaves them out;
* a symlink that resolves to another build directory is kept
  (`builder.cpp:161`), so `LinkResolves` says that it can be opened, not that it
  is this build's;
* a press before the watch is armed is counted and does not kill
  (`exec.cpp:36`), though it may be the third; the next one then kills. Counts
  are not reset between children (`signal.hpp:151`), so two presses during one
  child leave one for the next;
* a container run "re-executes the equivalent Baldr invocation"
  (`user-guide.adoc:169`), but the host's global configuration is not there
  (`main.cpp:347`): its settings are lost, and a project that uses rules only
  the global file has makes the Baldr inside refuse. `SameInside` asks for what
  does not depend on it (`Own`), and that nothing else makes it refuse but shipped
  files of its own that cannot be read;
* an option's value that is itself the word of an option can only be given as one
  word (`--target=--clean`); `build_container_argv` makes two of it (`main.cpp:320`),
  of which the second is the option again. `Parseable` leaves such values out;
* a `redirect_child` that throws leaves the pty unopened, and Baldr reading from it
  for ever (`command.cpp:64`): the second way to the hang of `SessionHang`. `Exits`
  and `InterruptIsReported` hold if every pty is let go of (`LetGo`) and was opened
  before it is read (`Opens`), and these two are the only ways;
* a `std::` exception is not caught by `entrypoint` (`main.cpp:496`), so that a
  Baldr that was interrupted does not end by SIGINT: `InterruptIsReported` says so;
* the configuration's `env` goes over `child_env` (`exec.hpp:36` says so), so a
  project may make a nested Baldr draw a window into its parent's log; the
  target of `baldr run` gets no `child_env` at all (`builder.cpp:531`).
  `NestedIsPlain` excludes settings that name the log variables;
* an interrupted run logs neither success nor failure, though
  `user-guide.adoc:203` says that it "reports what happened" and line 207 that it is
  "reported as interrupted": the digest never prints
  its summary, and `reraise_default` ends the process by the signal
  (`main.cpp:505`) before the log file's last buffer is written;
* after a torn marker the names it lost are never unset: the next build keeps
  defines nobody asked for. `BuildsMatch` asks for what was requested there, and
  for nothing else only in directories that are not `cut`;
* `visible_width` and `cap_visible_width` know CSI sequences only: in the window
  a hyperlink (OSC, which compilers print on a terminal) counts as text and may
  be cut before its end, so that the terminal swallows what follows. `Cap` does
  the same; `WindowIsRedrawn` asks only that what is seen fits. With three
  columns or less the dots alone are wider than the limit. A tab counts as one
  column (`tty.cpp:82`), and a line with tabs may be wider than the terminal: cells
  are one column wide in the model, so `WindowIsRedrawn` does not see it;
* `redirect_child` throws in the forked child (`ChildThrows`), which ends as a
  second Baldr and may log a failure of its own;
* a container that could not be started is removed before its logs are asked for,
  and the daemon's error is decoded as frames; `LinesAreWhole` says nothing of a
  container that is gone, `SuccessIsReal` does;
* an unreachable daemon ends as an uncaught `boost::system::system_error`, not
  as the `nova::exception` of `docker.hpp`: `LeavesNoneRunning` excludes this end.

## 4. Fairness

* `BuildDir`: `WF(Advance)`. Baldr's own steps happen, and a build tool it
  waits for ends some day; nothing is assumed about success, and the user need
  not start anything.
* `Session`: `SF(Main)`, since the main thread is not scheduled while a signal
  is handled, but is between deliveries; `WF(ChildExecs)`, a forked child comes
  to its `execvp`; `WF(HandleSignal)`, a pending signal is delivered;
  `WF(CtrlC)`, the user keeps pressing. Children need not end by themselves:
  `Exits` is the promise of the SIGKILL escalation. Grandchildren are under no
  fairness, and a child may fail to open its pty: `Exits` and `InterruptIsReported`
  have `LetGo` (no pty is held for ever) and `Opens` (none is read that was never
  opened) as premises, which the code cannot bring about; `NeverHangs` is `Exits`
  without them, and `SessionHang` violates it.
* `DockerRun`: `WF(Client)` and `WF(ContainerExits)`: the container's command
  ends. The connection need not stay up.
* `TwoBuilds` and `Logging` have no liveness property.

Deadlock is checked in `BuildDir` and `TwoBuilds`, where an invocation can always
follow. The others model one process and stop when it has ended (or at
`MaxLogged`).

## 5. Proofs

Checked by TLAPS, for every value of the constants that satisfies the modules'
named assumptions; TLC evaluates them on the instances. Most only give the
constants their types. What they say beyond that:

* `ConfigAssumption`, `LogSettingsAssumption`, `BuildDirAssumption`: a missing
  value, a null one and one of a wrong type differ, from each other and from the
  strings the code compares with.
* `InvocationAssumption`: every name of a define is in the order `std::map`
  iterates them.
* `DockerRunAssumption`: a read may give a single byte; a payload is bytes, and its
  length fits the four bytes of a frame's header; the command lines are `Accepted`
  by `resolve_command` and `Parseable`.
* `LoggingAssumption`: a dot is no escape sequence, and the widths are positive.
* `SessionAssumption`: `MaxCount`, at which the count stops, is not below the
  threshold.

Each theorem `Spec => []P` follows from an inductive invariant that is named
with it, or is itself one.

`BuildDirProofs`:

* `TypeCorrect`: `Spec => []TypeOK`.
* `CleanAfresh`: `Spec => []CleanStartsAfresh` with every mishap: from `Clean` to
  the configure step there is neither cache nor marker, so `Decide` must
  configure, and `Configured` of no cache is `Wanted`. It gives `CleanBuildExact`:
  `Spec => []CleanBuildIsExact`.
* `RunLaunchesWhatItBuilt`: `Spec => []RunLaunchesFresh`, with every mishap.
  `FreshIsThere` adds that the executable just built is among those found; if
  there is only one, it is this one.
* `TruthInvariant`: `OneTypePerDir` and `Mishaps` within `{"link_fails"}` give
  `Spec => []MarkerTellsTruth`: every whole marker is the text of a request its
  cache matches, but between a configure step and the end of the marker's write,
  and the names to unset are those of the marker still there. It gives
  `BuildIsAsRequested`: `Spec => []BuildMatchesRequest`. What happens
  without the first hypothesis is `BuildDirSharedDir`, and with `fail_saves`
  `BuildDirFailedConfigure`; `unopened` and `crash` may leave such a marker too, and
  one that is `torn` has lost names to unset. `SameText` (one text, one set of
  wanted entries) is where the build type's absence from the marker is felt.
* `ImplementsPromise`: under the same hypotheses `Spec => PromiseKept`, step by
  step under `MarkerTellsTruth`: a configure step maps to `Settle` of the
  request's settings because the cache matches the request afterwards and two
  requests with one text have one set of settings.
* `TypeIsAsRequested`: `OneTypePerDir`, and no define named `CMAKE_BUILD_TYPE`
  (it would override the build type), give `Spec => []BuildTypeAsRequested` with
  every mishap. The invariant is `CacheKeepsType`: a cache has the build type of
  some request for its directory, so failed steps and torn markers do not matter.
* `LinkIsKept`: `Mishaps` within `{"torn", "unopened"}` gives
  `Spec => []LinkResolves`. The invariant is `LinkLeads`: a directory with a cache has
  its `compile_commands.json`. A link of the text `link_compile_commands` would write
  leads there if the path in it does, which a relative one does not; any other is
  only kept if it can be followed.

`TwoBuildsProofs`. `SameOperators` says that the second instance's operators are
`BuildDir`'s, `MineMoves` and `OthersMove` that a step of either process is `Moves`
of records of its locals and of the disk; the lemmas about steps are about
`Moves`, for any process beside any other.

* `TwoTypeCorrect`: `TwoSpec => []TwoTypeOK`, from `BothTyped`.
* `TwoBuildsMatch`: `OneTypePerDir` and neither `fail_saves` nor `unopened` among the
  mishaps give `TwoSpec => []BuildsMatch`, with markers cut short and links that fail;
  `TwoSpec` has no crash. The
  invariant is `Agreed`: whatever either process has decided from the marker, the
  other's configure steps and writes keep true, as only one text can be written
  into a directory two builds share.
* `TwoLinksSettle`: `Mishaps` within `{"torn", "unopened"}` give
  `TwoSpec => []LinkSettles`. The
  invariant is `Linked`: once both are past their look at the link, it can be
  opened or is the one of a relative path, or it is missing and one of them is still
  to create it.

`SessionProofs`:

* `TypeCorrect`: `Spec => []TypeOK`.
* `Statics`: `Spec => []WatchFollowsSteps`, which says for every step of the main
  thread how far each static is set, and that a child that is attended to is not
  reaped. It gives `WatchIsOfTheChild`: `Spec => []WatchIsOurs`.
* `ImplementsAtomicWatch`: `Spec => WatchSpec`, step by step under the same
  invariant.
* `OnlyTheChild`: `Spec => []OnlyChild` (at most the current child is unreaped,
  and none after its reaping). It gives `ChildrenAreReaped`: `Spec => []NoOrphan`.
* `InterruptIsNoFailure`: `Spec => []NoFailureForInterrupt`, from
  `InterruptIsKnown`: whatever an interrupt did to a child is counted or pending,
  and it is delivered before `catch` asks for the count. It needs `OnlyChild`,
  since an abandoned child may be interrupted unseen.

`InductionLemmas`. `LeastNumber` (a set of numbers that is not empty has a least
one) gives `Induction` and `SequenceInduction` about sets, `Recursion` (a
recursive function on `0..n` does what its equation says) and, for the community
modules' `FlattenSeq`, `FlattenSeqAppend`. The library's theorems of this kind
take an operator as a parameter, which cannot be instantiated here; a set can.

`InvocationProofs`:

* `RoundTrip`: for any options that are `Accepted` and `Parseable`, `ParseArgs` of
  `BuildContainerArgv` gives them again, but for the image and the project's
  place, for any number of defines and any forwarded words. Its parts are
  `Piece`s: words in which an option's word stands only for that option, which
  concatenation keeps.
* `MergedAlike` (a lemma of `SameThingInside`): two configurations made from the same
  project agree in every setting that does not depend on the files in which they
  differ; and if one can be loaded and the other cannot, the reason is the shipped
  file or the rules in use.

`DockerProofs`:

* `TypeCorrect`: `Spec => []TypeOK`, from `Typed` and `Flags`.
* `LeavesNone`: `Spec => []LeavesNoneRunning`, from `Run`. Before `Start` nothing
  runs, and the client goes from its logs to its end by `Wait` alone.
* `WholeLines`: `Spec => []LinesAreWhole`, and `SuccessesAreReal`:
  `Spec => []SuccessIsReal`. The invariant is `Flow`: while the response is read,
  some frames are read whole, `pending` is the part of the next one that is read,
  the reader holds the first ones' text, and `wire` the rest (`InStream`). The
  lemmas go from a byte to the response: a reader that is fed a text in parts is
  fed the whole (`FeedConcat`) and has its lines and its rest (`FeedIsLines`); a frame's
  size is read back (`FrameIs`); `OneRound` decodes the frame at the front or
  leaves an unfinished one alone; `DecodePart` is `Decoded` of any part of the
  stream; `ReadsInStream` puts a read in between. So neither the number of frames
  nor the sizes of the reads of the run matter. Success also needs `Status`: a 0
  is a container's, whenever the daemon removes it.
* `NestedLinesArePlain`: `Spec => []NestedIsPlain`, from `EnvGiven`. The environment a
  Baldr gives is looked up in a fixed order, the configuration's `env` first
  (`FirstIs`), and what `child_env` puts there comes before what was there.
* `SameThingInside`: `Spec => []SameInside`, from `Replayed` (the container is
  created with these words, of a configuration that could be loaded), `RoundTrip`
  and `MergedAlike`.

`LoggingProofs`:

* `TypeCorrect`: `Spec => []TypeOK`, from `Typed`, with the bounds of the buffer, the
  rows and the counts.
* `FileIsQuiet`: `Spec => []TerminalKeepsLevel`, from `KeepsLevel`: the stream's
  sink keeps the level asked for once a file lowers the logger's.
* `OutputRecorded`: whatever is logged from info on is the last line of an open
  log file, in every view, and so are outcomes in a stream (`OutputIsRecorded`).
  What it leaves out are the outcomes of the window and the digest.
* `ReplaysTheTask`: `Spec => []ReplayIsOfTask`, which is inductive with the types:
  the buffer is the end of what the task has shown, in its order.
* `CountsAddUp`: `Spec => []DigestCounts`. The invariant is `Digests`: the lines
  the digest has `seen` are the looks of the task's noted lines, and each counter
  is the number of those it is for.
* `ErrorsComeThrough`: `Spec => []ErrorsAreShown`. The invariant is `Prints`: every
  noted line of the task looks like one that counts, at or before it, and the first
  `LevelMax` that count of either kind are on the terminal. An error among them is
  there or looks like a warning that came after `LevelMax` others, which is the
  exception (`Masked`) and the trace of `LoggingCrowdedOut`.

`WindowProofs`:

* `RowsCanBeRedrawn`: `Spec => []WindowIsRedrawn`, from `Rows`. `CapIsRight` says of
  any line and any width that `Cap` fits and keeps all escapes of the line, in
  their order; `StripFits` that a stripped line is no wider. Both are by induction
  over the line's cells.

Only model-checked: liveness (`InvocationEnds`, `Exits`, `InterruptIsReported`,
`RunEnds`), as TLAPS has neither fairness proofs nor `ENABLED`. Every other
property of a passing run is stated by a theorem, some of them under the
hypotheses named above, which the instances of their runs satisfy.

## 6. Not modelled

* CMake, make, Conan, the Docker daemon and the kernel, but for what the code
  relies on; they are marked external in the map.
* Options whose value is itself the word of an option (`Parseable`). A `--build-dir`
  that is an absolute path.
* Text: formats of configuration files, regular expressions of the classifier, log
  patterns (a look is a line's text: the plain pattern `%v`; the others print the
  time and the level with it, so that fewer lines look the same; the project's root in a line is not taken out), JSON, names of
  log files, values of defines with newlines in them. A terminal that is resized
  while the window is drawn.
* `pull_image` (nothing sets `force_pull`), `abort_self` and `reset` (nobody
  calls them), the debugger's command line, `--version` and `--help`.
* Two Baldr processes with different settings in one build directory, or one
  that cleans it under the other: see `TwoBuilds` above.
* stdout and stderr of the container as two streams: they share one line reader
  (`docker.cpp:190`), so an unfinished line of one is joined to the other's next.
* The release scripts (`ci/tag-release.sh`, `tools/bump-version.sh`, ...): shell
  over `git` and `gh`, each a straight line of checks and commands that `set -e`
  stops at the first that fails. Their state is tags and branches: a model would
  have to be of git, not of this code.

## 7. Plan

Done: `BuildDir` (what every invocation depends on), `BuildPromise`, `TwoBuilds`;
`Session` and `AtomicWatch`; `LineReader`, `Config`, `LogSettings`, `Invocation`
and `DockerRun`; `Logging`; and the proofs of section 5. To come, the most
useful first:

1. Two streams in `DockerRun`, and what a line is made of then.
2. Hyperlinks in the window, and a marker whose values have newlines: both need
   texts rather than atoms.
3. `Session` composed with `Logging`: what an interrupted run leaves unsaid.
