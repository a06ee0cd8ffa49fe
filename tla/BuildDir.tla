------------------------------ MODULE BuildDir ------------------------------
(***************************************************************************)
(* The configure protocol of baldr/builder.cpp for CMake projects: when a   *)
(* `baldr build` or `baldr run` re-runs CMake's configure step, what it     *)
(* leaves in CMake's cache and in the `.baldr-defines` marker, and what the *)
(* build that follows is therefore built with.                              *)
(*                                                                          *)
(* One Baldr process runs at a time (TwoBuilds has two at once); every      *)
(* invocation may name another set of defines, environment, build type or   *)
(* build directory, and the user edits the project tree whenever he likes.  *)
(* Each look at the disk and each change of it is a step.  CMake is         *)
(* external: its cache, which it replaces at one instant, keeps an entry    *)
(* until a -U or a -D changes it, and it may have saved the cache or not    *)
(* when configuring fails.                                                  *)
(***************************************************************************)
EXTENDS Naturals, Sequences, FiniteSets

CONSTANTS
    KeySeq,        \* the names a define may have, in the order std::map iterates them
    Values,        \* the values a define may have
    BuildTypes,    \* the build types; "Debug" is the one that is symlinked
    KnownTypes,    \* those that canonical_build_type knows
    Envs,          \* the environments the configuration may ask for
    Dirs,          \* the build directories
    OwnDir,        \* [BuildTypes -> Dirs], cmake_build_dir()
    NoOverride,    \* no --build-dir on the command line
    Absent,        \* no value: an empty optional, a name that is not in a map
    NoLink,        \* there is no <project>/compile_commands.json
    UserFile,      \* it is a file of the user's own
    BuildTypeKey,  \* CMAKE_BUILD_TYPE
    TopIncludes,   \* CMAKE_PROJECT_TOP_LEVEL_INCLUDES
    Places,        \* where in a build directory the target's executable may be
    Requests,      \* the invocations that may happen, see AllRequests
    Trees,         \* the states of the project's files, see AllTrees
    Mishaps        \* what may go wrong in the environment, see AllMishaps

Keys == {KeySeq[i] : i \in 1..Len(KeySeq)}
CacheKeys == Keys \cup {BuildTypeKey, TopIncludes}
Providers == {"project", "home"}     \* which conan_provider.cmake is found
CacheValues == Values \cup BuildTypes \cup Providers \cup {Absent}
Defines == [Keys -> Values \cup {Absent}]

\* How --project names the project: the working directory, an absolute path,
\* or a relative one which, read from the project itself, leads elsewhere.
Paths == {"here", "absolute", "relative"}

\* What an invocation asks for, after config files and command line are merged.
AllRequests ==
    [type : BuildTypes, override : Dirs \cup {NoOverride}, defs : Defines,
     env : Envs, path : Paths, clean : BOOLEAN, run : BOOLEAN]

\* The texts a symlink may have: a path to the project, and on to a directory.
Texts == [via : Paths, dir : Dirs]

\* What the builder looks at in the project and in $HOME, and where the
\* project's CMakeLists.txt put the target's executable.
AllTrees ==
    [conanfile : BOOLEAN, local : BOOLEAN, home : BOOLEAN, place : Places]

\* fail_saves: CMake has saved its cache although the configure step failed.
\* torn:       the marker is cut short (its write is not checked: disk full).
\* crash:      Baldr dies, by SIGKILL or an exception nobody catches.
\* unopened:   the marker cannot be opened for writing (not checked either).
\* link_fails: the symlink cannot be created (a warning only).
AllMishaps == {"fail_saves", "torn", "crash", "unopened", "link_fails"}

ASSUME BuildDirAssumption ==
    /\ KeySeq \in Seq(Keys)
    /\ OwnDir \in [BuildTypes -> Dirs]
    /\ NoOverride \notin Dirs
    /\ Absent \notin Values \cup BuildTypes \cup Providers
    /\ IsFiniteSet(Places)
    /\ Requests \subseteq AllRequests
    /\ Trees \subseteq AllTrees
    /\ Mishaps \subseteq AllMishaps
    /\ KnownTypes \subseteq BuildTypes
    /\ NoLink # UserFile /\ {NoLink, UserFile} \cap Texts = {}

VARIABLES
    tree,      \* the project's files
    cache,     \* [Dirs -> CMakeCache.txt]: its entries, the environment of its configure step
    marker,    \* [Dirs -> .baldr-defines]
    cc,        \* [Dirs -> BOOLEAN], whether compile_commands.json is there
    outputs,   \* [Dirs -> SUBSET Places], executables named like the target
    link,      \* <project>/compile_commands.json: NoLink, UserFile or a symlink's text
    pc,        \* the step the process is at, "idle" when no Baldr runs
    inv,       \* the request it serves
    prov,      \* conan_provider
    unset,     \* the names configure_cmake passes with -U
    fresh,     \* where this invocation's build put the executable
    launched   \* the executable this invocation runs

disk == <<cache, marker, cc, outputs, link>>
locals == <<inv, prov, unset, fresh, launched>>
vars == <<tree, cache, marker, cc, outputs, link, pc, inv, prov, unset, fresh, launched>>

Caches == [made : BOOLEAN, vars : [CacheKeys -> CacheValues], env : Envs \cup {Absent}]
Markers == [made : BOOLEAN, whole : BOOLEAN, defs : Defines,
            env : Envs \cup {Absent}, conan : Providers \cup {Absent}]

NoCache == [made |-> FALSE, vars |-> [k \in CacheKeys |-> Absent], env |-> Absent]
NoMarker == [made |-> FALSE, whole |-> FALSE, defs |-> [k \in Keys |-> Absent],
             env |-> Absent, conan |-> Absent]
NoRequest == [type |-> Absent, override |-> NoOverride, defs |-> [k \in Keys |-> Absent],
              env |-> Absent, path |-> Absent, clean |-> FALSE, run |-> FALSE]

Steps == {"idle", "refused", "clean", "resolve", "decide", "unset", "configure", "mark", "write",
          "link", "unlink", "relink", "build", "resolve_exe", "running"}

\* The steps from a configure step that is done, or was not needed, to the build.
Settled == {"link", "unlink", "relink", "build"}

-----------------------------------------------------------------------------
(* The builder's functions. *)

\* Mutant of Dir: the build type does not choose the directory.
DirIgnoringType(r) == IF r.override = NoOverride THEN OwnDir["Debug"] ELSE r.override

\* effective_build_dir_rel
Dir(r) == IF r.override = NoOverride THEN OwnDir[r.type] ELSE r.override

\* resolve_conan_provider: the user's own define switches it off.
Provider(r, t) ==
    IF \/ TopIncludes \in Keys /\ r.defs[TopIncludes] # Absent
       \/ ~t.conanfile
    THEN Absent
    ELSE IF t.local THEN "project" ELSE IF t.home THEN "home" ELSE Absent

\* serialize_defines: the marker's text, as the sections it is made of.
Resolved(r, p) ==
    [made |-> TRUE, whole |-> TRUE, defs |-> r.defs, env |-> r.env, conan |-> p]

\* The first n define lines of that text: no write was ever cut short to the
\* text of another request, which would have to end in the Conan section too.
Torn(r, n) ==
    [made |-> TRUE, whole |-> FALSE,
     defs |-> [k \in Keys |-> IF \E i \in 1..n : KeySeq[i] = k THEN r.defs[k] ELSE Absent],
     env |-> Absent, conan |-> Absent]

\* Mutant of Dropped: nothing is unset.
DroppedNone(m, r) == {}

\* dropped_defines
Dropped(m, r) == {k \in Keys : m.defs[k] # Absent /\ r.defs[k] = Absent}

\* Mutant of NeedsConfigure: a marker that the settings' text begins with will do.
NeedsConfigureByPrefix(d, r, p) ==
    \/ ~cache[d].made \/ ~marker[d].made
    \/ marker[d] # Resolved(r, p) /\ \A n \in 0..Len(KeySeq) : marker[d] # Torn(r, n)

\* needs_cmake_configure
NeedsConfigure(d, r, p) == ~cache[d].made \/ ~marker[d].made \/ marker[d] # Resolved(r, p)

\* The -D arguments of configure_cmake; a later one overrides an earlier one.
Wanted(r, p) ==
    [k \in CacheKeys |->
        IF k \in Keys /\ r.defs[k] # Absent THEN r.defs[k]
        ELSE IF k = BuildTypeKey THEN r.type
        ELSE IF k = TopIncludes THEN p
        ELSE Absent]

\* What CMake's cache holds once it has read those arguments and the -U ones.
Configured(old, r, p, names) ==
    [made |-> TRUE,
     vars |-> [k \in CacheKeys |->
                  IF Wanted(r, p)[k] # Absent THEN Wanted(r, p)[k]
                  ELSE IF k \in names THEN Absent
                  ELSE old.vars[k]],
     env |-> r.env]

\* target_path, as it is stored in the link: project_dir as it was given.
Text(r) == [via |-> r.path, dir |-> Dir(r)]

\* Whether l can be opened: the link is in the project, and its text is read
\* from there.
Followed(l) == l = UserFile \/ (l \in Texts /\ l.via # "relative" /\ cc[l.dir])

\* Mutant of LinkExists: a dangling symlink counts as there (lstat).
LinkExistsUnfollowed == link # NoLink

\* fs::exists(link_path) follows the symlink.
LinkExists == Followed(link)

\* find_built_executables
Found(d) == outputs[d]

D == Dir(inv)   \* the build directory of the invocation that runs

-----------------------------------------------------------------------------
Init ==
    /\ tree \in Trees
    /\ cache = [d \in Dirs |-> NoCache]
    /\ marker = [d \in Dirs |-> NoMarker]
    /\ cc = [d \in Dirs |-> FALSE]
    /\ outputs = [d \in Dirs |-> {}]
    /\ link \in {NoLink, UserFile}
    /\ pc = "idle"
    /\ inv = NoRequest
    /\ prov = Absent
    /\ unset = {}
    /\ fresh = Absent
    /\ launched = Absent

\* The user edits the project or installs a provider, at any time.
EditTree ==
    /\ tree' \in Trees \ {tree}
    /\ UNCHANGED <<disk, pc, locals>>

\* `baldr build` or `baldr run` starts: builder::builder, builder::build.
Invoke(r) ==
    /\ pc = "idle"
    /\ inv' = r
    /\ pc' = IF r.type \notin KnownTypes THEN "refused" ELSE IF r.clean THEN "clean" ELSE "resolve"
    /\ UNCHANGED <<tree, disk, prov, unset, fresh, launched>>

\* Mutant of End: the request outlives the process.
EndKeepingRequest ==
    /\ pc' = "idle"
    /\ prov' = Absent
    /\ unset' = {}
    /\ fresh' = Absent
    /\ launched' = Absent
    /\ UNCHANGED inv

\* The process ends: success, an exception main.cpp reports, or a crash.
End ==
    /\ pc' = "idle"
    /\ inv' = NoRequest
    /\ prov' = Absent
    /\ unset' = {}
    /\ fresh' = Absent
    /\ launched' = Absent

\* canonical_build_type throws in builder's constructor: nothing is touched.
Refuse ==
    /\ pc = "refused"
    /\ End
    /\ UNCHANGED <<tree, disk>>

\* Mutant of Clean: only what was built goes, CMake's cache stays.
CleanKeepingCache ==
    /\ pc = "clean"
    /\ marker' = [marker EXCEPT ![D] = NoMarker]
    /\ outputs' = [outputs EXCEPT ![D] = {}]
    /\ pc' = "resolve"
    /\ UNCHANGED <<tree, cache, cc, link, locals>>

\* Mutant of Clean: the marker is kept outside the build directory and stays.
CleanKeepingMarker ==
    /\ pc = "clean"
    /\ cache' = [cache EXCEPT ![D] = NoCache]
    /\ cc' = [cc EXCEPT ![D] = FALSE]
    /\ outputs' = [outputs EXCEPT ![D] = {}]
    /\ pc' = "resolve"
    /\ UNCHANGED <<tree, marker, link, locals>>

\* Mutant of Clean: the parent of the build directories is removed.
CleanSiblings ==
    /\ pc = "clean"
    /\ cache' = [d \in Dirs |-> NoCache]
    /\ marker' = [d \in Dirs |-> NoMarker]
    /\ cc' = [d \in Dirs |-> FALSE]
    /\ outputs' = [d \in Dirs |-> {}]
    /\ pc' = "resolve"
    /\ UNCHANGED <<tree, link, locals>>

\* handle_cmake_project: remove_all(build_dir).
Clean ==
    /\ pc = "clean"
    /\ cache' = [cache EXCEPT ![D] = NoCache]
    /\ marker' = [marker EXCEPT ![D] = NoMarker]
    /\ cc' = [cc EXCEPT ![D] = FALSE]
    /\ outputs' = [outputs EXCEPT ![D] = {}]
    /\ pc' = "resolve"
    /\ UNCHANGED <<tree, link, locals>>

\* handle_cmake_project: resolve_conan_provider.
Resolve ==
    /\ pc = "resolve"
    /\ prov' = Provider(inv, tree)
    /\ pc' = "decide"
    /\ UNCHANGED <<tree, disk, inv, unset, fresh, launched>>

\* handle_cmake_project: needs_cmake_configure.  Its three looks are one
\* instant: but for remove_all, what was there stays there.
Decide ==
    /\ pc = "decide"
    /\ pc' = IF NeedsConfigure(D, inv, prov) THEN "unset" ELSE "link"
    /\ UNCHANGED <<tree, disk, locals>>

\* configure_cmake reads the marker once more, for the names to unset, and
\* starts CMake.
ReadDropped ==
    /\ pc = "unset"
    /\ unset' = Dropped(marker[D], inv)
    /\ pc' = "configure"
    /\ UNCHANGED <<tree, disk, inv, prov, fresh, launched>>

\* CMake's configure step succeeds.
ConfigureSucceeds ==
    /\ pc = "configure"
    /\ cache' = [cache EXCEPT ![D] = Configured(@, inv, prov, unset)]
    /\ cc' = [cc EXCEPT ![D] = TRUE]
    /\ pc' = "mark"
    /\ UNCHANGED <<tree, marker, outputs, link, locals>>

\* The cache a configure step that did not succeed leaves in D.
CacheLeftOver ==
    \/ UNCHANGED cache
    \/ "fail_saves" \in Mishaps /\ cache' = [cache EXCEPT ![D] = Configured(@, inv, prov, unset)]

\* Mutant of ConfigureFails: the marker is written before the status is looked at.
ConfigureFailsMarked ==
    /\ pc = "configure"
    /\ CacheLeftOver
    /\ marker' = [marker EXCEPT ![D] = Resolved(inv, prov)]
    /\ End
    /\ UNCHANGED <<tree, cc, outputs, link>>

\* Mutant of ConfigureFails: a failed configure step is tried again.
ConfigureFailsRetrying ==
    /\ pc = "configure"
    /\ CacheLeftOver
    /\ pc' = "decide"
    /\ UNCHANGED <<tree, marker, cc, outputs, link, locals>>

\* It fails or is interrupted: configure_cmake throws, the marker stays.
ConfigureFails ==
    /\ pc = "configure"
    /\ CacheLeftOver
    /\ End
    /\ UNCHANGED <<tree, marker, cc, outputs, link>>

\* configure_cmake opens the marker, which empties it.
OpenMarker ==
    /\ pc = "mark"
    /\ marker' = [marker EXCEPT ![D] = Torn(inv, 0)]
    /\ pc' = "write"
    /\ UNCHANGED <<tree, cache, cc, outputs, link, locals>>

\* It cannot open it: the old marker stays beside the new cache.
MarkerUnopened ==
    /\ "unopened" \in Mishaps
    /\ pc = "mark"
    /\ pc' = "link"
    /\ UNCHANGED <<tree, disk, locals>>

\* It writes the marker; nobody looks at the stream's state.
WriteMarker ==
    /\ pc = "write"
    /\ \/ marker' = [marker EXCEPT ![D] = Resolved(inv, prov)]
       \/ /\ "torn" \in Mishaps
          /\ \E n \in 0..Len(KeySeq) : marker' = [marker EXCEPT ![D] = Torn(inv, n)]
    /\ pc' = "link"
    /\ UNCHANGED <<tree, cache, cc, outputs, link, locals>>

\* link_compile_commands looks at the link: one with the text it would write
\* is correct, whether it leads anywhere or not.
LinkCompileCommands ==
    /\ pc = "link"
    /\ pc' = IF inv.type = "Debug" /\ link # Text(inv) /\ ~LinkExists THEN "unlink" ELSE "build"
    /\ UNCHANGED <<tree, disk, locals>>

\* It removes what is in the way.
RemoveLink ==
    /\ pc = "unlink"
    /\ link' \in {NoLink} \cup (IF "link_fails" \in Mishaps THEN {link} ELSE {})
    /\ pc' = "relink"
    /\ UNCHANGED <<tree, cache, marker, cc, outputs, locals>>

\* It creates the link, or warns: a link that is there is not replaced.
CreateLink ==
    /\ pc = "relink"
    /\ link' \in (IF link = NoLink THEN {Text(inv)} ELSE {link})
                 \cup (IF "link_fails" \in Mishaps THEN {link} ELSE {})
    /\ pc' = "build"
    /\ UNCHANGED <<tree, cache, marker, cc, outputs, locals>>

\* builder::build: `cmake --build` succeeds; `run` goes on, `build` ends.
BuildSucceeds ==
    /\ pc = "build"
    /\ outputs' = [outputs EXCEPT ![D] = @ \cup {tree.place}]
    /\ IF inv.run
       THEN /\ fresh' = tree.place
            /\ pc' = "resolve_exe"
            /\ UNCHANGED <<inv, prov, unset, launched>>
       ELSE End
    /\ UNCHANGED <<tree, cache, marker, cc, link>>

\* `cmake --build` fails or is interrupted, the target linked or not.
BuildFails ==
    /\ pc = "build"
    /\ outputs' \in {outputs, [outputs EXCEPT ![D] = @ \cup {tree.place}]}
    /\ End
    /\ UNCHANGED <<tree, cache, marker, cc, link>>

\* Mutant of ResolveExecutable: the first match is taken.
ResolveExecutableFirst ==
    /\ pc = "resolve_exe"
    /\ \E p \in Found(D) : launched' = p
    /\ pc' = "running"
    /\ UNCHANGED <<tree, disk, inv, prov, unset, fresh>>

\* builder::resolve_executable: none or several matches are an error.
ResolveExecutable ==
    /\ pc = "resolve_exe"
    /\ IF Cardinality(Found(D)) = 1
       THEN /\ launched' = CHOOSE p \in Found(D) : TRUE
            /\ pc' = "running"
            /\ UNCHANGED <<inv, prov, unset, fresh>>
       ELSE End
    /\ UNCHANGED <<tree, disk>>

\* builder::run: the target has exited.
TargetExits ==
    /\ pc = "running"
    /\ End
    /\ UNCHANGED <<tree, disk>>

-----------------------------------------------------------------------------
(* Baldr dies at any step, leaving what that step had done. *)

\* remove_all was under way: it removes entries in no particular order.
CrashInClean ==
    /\ pc = "clean"
    /\ cache' \in {cache, [cache EXCEPT ![D] = NoCache]}
    /\ marker' \in {marker, [marker EXCEPT ![D] = NoMarker]}
    /\ cc' \in {cc, [cc EXCEPT ![D] = FALSE]}
    /\ \E gone \in SUBSET outputs[D] : outputs' = [outputs EXCEPT ![D] = @ \ gone]
    /\ UNCHANGED link

\* CMake loses its terminal and ends with SIGHUP, the cache saved or not.
CrashInConfigure ==
    /\ pc = "configure"
    /\ cache' \in {cache, [cache EXCEPT ![D] = Configured(@, inv, prov, unset)]}
    /\ cc' \in {cc, [cc EXCEPT ![D] = TRUE]}
    /\ UNCHANGED <<marker, outputs, link>>

\* The marker is written in part.
CrashInWrite ==
    /\ pc = "write"
    /\ \E n \in 0..Len(KeySeq) : marker' = [marker EXCEPT ![D] = Torn(inv, n)]
    /\ UNCHANGED <<cache, cc, outputs, link>>

CrashElsewhere ==
    /\ pc \notin {"idle", "clean", "configure", "write"}
    /\ UNCHANGED disk

Crash ==
    /\ "crash" \in Mishaps
    /\ CrashInClean \/ CrashInConfigure \/ CrashInWrite \/ CrashElsewhere
    /\ End
    /\ UNCHANGED tree

-----------------------------------------------------------------------------
Start == \E r \in Requests : Invoke(r)

Advance ==
    \/ Refuse \/ Clean \/ Resolve \/ Decide \/ ReadDropped
    \/ ConfigureSucceeds \/ ConfigureFails \/ OpenMarker \/ MarkerUnopened \/ WriteMarker
    \/ LinkCompileCommands \/ RemoveLink \/ CreateLink \/ BuildSucceeds \/ BuildFails
    \/ ResolveExecutable \/ TargetExits

Next == EditTree \/ Start \/ Advance \/ Crash

Spec == Init /\ [][Next]_vars

\* Baldr's own steps happen, and the children it waits for end some day.
FairSpec == Spec /\ WF_vars(Advance)

-----------------------------------------------------------------------------
(* Properties. *)

\* Every variable has its type.
TypeOK ==
    /\ tree \in Trees
    /\ cache \in [Dirs -> Caches]
    /\ marker \in [Dirs -> Markers]
    /\ cc \in [Dirs -> BOOLEAN]
    /\ outputs \in [Dirs -> SUBSET Places]
    /\ link \in Texts \cup {NoLink, UserFile}
    /\ pc \in Steps
    /\ inv \in IF pc = "idle" THEN {NoRequest} ELSE Requests
    /\ pc \notin {"idle", "refused"} => inv.type \in KnownTypes
    /\ prov \in Providers \cup {Absent}
    /\ unset \in SUBSET Keys
    /\ fresh \in Places \cup {Absent}
    /\ launched \in Places \cup {Absent}

\* The cache entries a request asks for are there, with its values.
AsksFor(c, r, p) == \A k \in CacheKeys : Wanted(r, p)[k] # Absent => c.vars[k] = Wanted(r, p)[k]

\* A define the request does not have, and which CMake does not get from
\* Baldr itself, has left the cache.
NothingElse(c, r) ==
    \A k \in Keys \ {BuildTypeKey, TopIncludes} : r.defs[k] = Absent => c.vars[k] = Absent

\* Whenever `cmake --build` starts, with or without a configure step before
\* it, CMake's cache holds exactly the defines, the build type and the
\* environment this invocation asked for, and the Conan provider if it asked
\* for one (needs_cmake_configure, configure_cmake).
BuildMatchesRequest ==
    pc = "build" =>
        /\ AsksFor(cache[D], inv, prov)
        /\ NothingElse(cache[D], inv)
        /\ cache[D].env = inv.env

\* The positive half alone: what was asked for is in the cache when the build
\* starts, even where a torn marker has made Baldr forget what to unset.
RequestedDefinesHold ==
    pc = "build" => AsksFor(cache[D], inv, prov) /\ cache[D].env = inv.env

\* The build type the build starts with is the one asked for.
BuildTypeAsRequested ==
    pc = "build" => cache[D].vars[BuildTypeKey] = Wanted(inv, prov)[BuildTypeKey]

\* After `--clean`, the cache is exactly what this invocation configured,
\* whatever failures, crashes and torn markers came before.
CleanBuildIsExact ==
    pc = "build" /\ inv.clean =>
        cache[D].vars = Wanted(inv, prov) /\ cache[D].env = inv.env

\* `baldr run` never launches an executable other than the one the build of
\* the same invocation put in place (find_built_executables may also see the
\* ones earlier layouts of the project left behind).
RunLaunchesFresh == pc = "running" => launched = fresh

\* Once a Debug build is past link_compile_commands, the project root has a
\* compile_commands.json that can be opened, whatever builds under other names
\* of the project have left there; but for the link that an invocation with a
\* relative --project writes itself, or finds there from one with the same.
LinkResolves ==
    pc = "build" /\ inv.type = "Debug" =>
        Followed(link) \/ (inv.path = "relative" /\ link = Text(inv))

\* An invocation does not hang: whatever it finds on disk, it ends.
InvocationEnds == pc # "idle" ~> pc = "idle"

\* The settings a request stands for: its defines, its build type, which may
\* be one of them, and its environment.
PlainKeys == Keys \ {BuildTypeKey, TopIncludes}
Asked(r) == [defs |-> [k \in PlainKeys |-> r.defs[k]],
             type |-> Wanted(r, Absent)[BuildTypeKey], env |-> r.env]
TaskOf(r) == [dir |-> Dir(r), settings |-> Asked(r)]

\* And those a cache holds.
Held(c) == IF c.made
           THEN [defs |-> [k \in PlainKeys |-> c.vars[k]],
                 type |-> c.vars[BuildTypeKey], env |-> c.env]
           ELSE Absent

\* The protocol of cache and marker does what BuildPromise promises: although
\* CMake merges what it is given into its cache, and only the marker is looked
\* at, a directory goes from one request's settings to another's at once.
Promise == INSTANCE BuildPromise WITH
              Tasks <- {TaskOf(r) : r \in Requests}, Nothing <- Absent,
              with <- [d \in Dirs |-> Held(cache[d])],
              task <- IF pc = "idle" THEN Absent ELSE TaskOf(inv),
              phase <- IF pc = "idle" THEN "idle"
                       ELSE IF pc \in {"build", "resolve_exe", "running"} THEN "building"
                       ELSE "preparing"
PromiseKept == Promise!Spec

-----------------------------------------------------------------------------
(* The inductive invariants behind these properties. *)

\* The requests that come past builder's constructor.
Accepted == {r \in Requests : r.type \in KnownTypes}

\* Cache c is what a build of request r with provider p asks for.
Matches(c, r, p) ==
    /\ c.made
    /\ AsksFor(c, r, p)
    /\ NothingElse(c, r)
    /\ c.env = r.env

\* A whole marker is the text of some request the cache matches; without one
\* there is no cache.
Truthful(d) ==
    IF marker[d].made
    THEN \E r \in Accepted, p \in Providers \cup {Absent} :
            /\ Dir(r) = d
            /\ marker[d] = Resolved(r, p)
            /\ Matches(cache[d], r, p)
    ELSE cache[d] = NoCache

\* Without failures that leave the disk half-written, what the marker of a
\* build directory records is what CMake's cache there holds, but for the
\* time between a configure step and the end of the marker's write; and from
\* that configure step on the cache matches the invocation.
MarkerTellsTruth ==
    /\ \A d \in Dirs : Truthful(d) \/ (pc \in {"mark", "write"} /\ d = D)
    /\ pc = "configure" => unset = Dropped(marker[D], inv)
    /\ pc \in {"mark", "write"} \cup Settled => Matches(cache[D], inv, prov)

\* While `baldr run` looks for the executable, the one just built is there.
FreshIsThere ==
    /\ pc = "resolve_exe" => fresh \in outputs[D]
    /\ RunLaunchesFresh

\* A clean build starts from nothing and configures exactly what it wants.
CleanStartsAfresh ==
    inv.clean =>
        /\ pc \in {"resolve", "decide", "unset", "configure"} =>
                cache[D] = NoCache /\ ~marker[D].made
        /\ pc \in {"mark", "write"} \cup Settled =>
                cache[D].vars = Wanted(inv, prov) /\ cache[D].env = inv.env

\* A cache has the build type of some request for its directory, whatever
\* else has gone wrong with it, and no build starts without a cache.
CacheKeepsType ==
    /\ \A d \in Dirs : cache[d].made =>
           \E r \in Accepted : Dir(r) = d /\ cache[d].vars[BuildTypeKey] = r.type
    /\ pc \in {"mark", "write"} \cup Settled => cache[D].made

\* A directory with a cache has its compile_commands.json, and the link is
\* none until it is created.
LinkLeads ==
    /\ \A d \in Dirs : cache[d].made => cc[d]
    /\ pc \in {"mark", "write"} \cup Settled => cache[D].made
    /\ pc = "relink" => link = NoLink
    /\ LinkResolves

\* Every build directory is only ever used with one build type.
OneTypePerDir == \A r, s \in Accepted : Dir(r) = Dir(s) => r.type = s.type
=============================================================================
