--------------------------- MODULE BuildDirProofs ---------------------------
(***************************************************************************)
(* Theorems about BuildDir, for every set of defines, build types,          *)
(* directories, requests and project trees.                                 *)
(***************************************************************************)
EXTENDS BuildDir, FiniteSetTheorems, TLAPS

-----------------------------------------------------------------------------
(* The operators the steps are built from. *)

LEMMA KeyFacts == Keys \subseteq CacheKeys /\ BuildTypeKey \in CacheKeys /\ TopIncludes \in CacheKeys
BY DEF CacheKeys

LEMMA RequestFacts ==
    ASSUME NEW r \in Requests
    PROVE  /\ r \in AllRequests
           /\ r.type \in BuildTypes
           /\ r.defs \in Defines
           /\ r.env \in Envs
           /\ Dir(r) \in Dirs
           /\ r.path \in Paths
BY BuildDirAssumption DEF AllRequests, Dir

LEMMA ProviderType ==
    ASSUME NEW r \in Requests, NEW t \in Trees
    PROVE  Provider(r, t) \in Providers \cup {Absent}
BY DEF Provider, Providers

LEMMA ResolvedType ==
    ASSUME NEW r \in Requests, NEW p \in Providers \cup {Absent}
    PROVE  Resolved(r, p) \in Markers
BY RequestFacts DEF Resolved, Markers

LEMMA TornType ==
    ASSUME NEW r \in Requests, NEW n \in 0..Len(KeySeq)
    PROVE  Torn(r, n) \in Markers
<1>1. r.defs \in Defines
  BY RequestFacts
<1>2. Torn(r, n).defs \in Defines
  BY <1>1 DEF Torn, Defines
<1> QED
  BY <1>2 DEF Torn, Markers

LEMMA WantedType ==
    ASSUME NEW r \in Requests, NEW p \in Providers \cup {Absent}
    PROVE  Wanted(r, p) \in [CacheKeys -> CacheValues]
<1>1. r.defs \in Defines /\ r.type \in BuildTypes
  BY RequestFacts
<1> QED
  BY <1>1 DEF Wanted, Defines, CacheValues

LEMMA ConfiguredType ==
    ASSUME NEW r \in Requests, NEW p \in Providers \cup {Absent}, NEW names,
           NEW old \in Caches
    PROVE  Configured(old, r, p, names) \in Caches
<1>1. Wanted(r, p) \in [CacheKeys -> CacheValues]
  BY WantedType
<1>2. Absent \in CacheValues /\ r.env \in Envs
  BY RequestFacts DEF CacheValues
<1>3. Configured(old, r, p, names).vars \in [CacheKeys -> CacheValues]
  BY <1>1, <1>2 DEF Configured, Caches
<1> QED
  BY <1>2, <1>3 DEF Configured, Caches

LEMMA NoCacheType == NoCache \in Caches
BY DEF NoCache, Caches, CacheValues

LEMMA NoMarkerType == NoMarker \in Markers
BY DEF NoMarker, Markers, Defines

LEMMA OneIsSome ==
    ASSUME NEW S, Cardinality(S) = 1
    PROVE  S # {}
BY FS_EmptySet

-----------------------------------------------------------------------------
(* Type correctness. *)

LEMMA EndTyped == End => /\ pc' = "idle" /\ pc' \in Steps
                         /\ inv' \in IF pc' = "idle" THEN {NoRequest} ELSE Requests
                         /\ prov' \in Providers \cup {Absent} /\ unset' \in SUBSET Keys
                         /\ fresh' \in Places \cup {Absent} /\ launched' \in Places \cup {Absent}
BY DEF End, Steps

\* Every step keeps every variable in its type.
LEMMA TypeStep == TypeOK /\ [Next]_vars => TypeOK'
<1> SUFFICES ASSUME TypeOK, [Next]_vars PROVE TypeOK'
  OBVIOUS
<1> USE DEF TypeOK
<1>r. pc # "idle" => /\ inv \in Requests /\ inv.type \in BuildTypes /\ inv.defs \in Defines
                     /\ inv.env \in Envs /\ inv.path \in Paths /\ D \in Dirs
  BY RequestFacts DEF D
<1>c. pc # "idle" => Configured(cache[D], inv, prov, unset) \in Caches
  BY <1>r, ConfiguredType
<1>t. pc # "idle" => \A n \in 0..Len(KeySeq) : Torn(inv, n) \in Markers
  BY <1>r, TornType
<1>1. CASE EditTree
  BY <1>1 DEF EditTree, disk, locals
<1>2. ASSUME NEW r \in Requests, Invoke(r) PROVE TypeOK'
  BY <1>2, RequestFacts DEF Invoke, disk, Steps
<1>3. CASE Clean
  BY <1>3, <1>r, NoCacheType, NoMarkerType DEF Clean, locals, Steps
<1>4. CASE Resolve
  BY <1>4, <1>r, ProviderType DEF Resolve, disk, Steps
<1>5. CASE Decide
  BY <1>5, <1>r DEF Decide, disk, locals, Steps
<1>16. CASE ReadDropped
  <2>1. Dropped(marker[D], inv) \in SUBSET Keys
    BY DEF Dropped
  <2> QED
    BY <1>16, <1>r, <2>1 DEF ReadDropped, disk, Steps
<1>17. CASE OpenMarker
  <2>1. Torn(inv, 0) \in Markers
    BY <1>17, <1>t, BuildDirAssumption DEF OpenMarker
  <2> QED
    BY <1>17, <1>r, <2>1 DEF OpenMarker, locals, Steps
<1>19. CASE MarkerUnopened
  BY <1>19, <1>r DEF MarkerUnopened, disk, locals, Steps
<1>6. CASE ConfigureSucceeds
  BY <1>6, <1>r, <1>c DEF ConfigureSucceeds, locals, Steps
<1>7. CASE ConfigureFails
  BY <1>7, <1>r, <1>c, EndTyped DEF ConfigureFails, CacheLeftOver
<1>8. CASE WriteMarker
  BY <1>8, <1>r, <1>t, ResolvedType DEF WriteMarker, locals, Steps
<1>9. CASE LinkCompileCommands
  BY <1>9, <1>r DEF LinkCompileCommands, disk, locals, Steps
<1>18. CASE RemoveLink \/ CreateLink
  <2>1. Text(inv) \in Texts
    BY <1>18, <1>r DEF RemoveLink, CreateLink, Text, Texts, D
  <2>2. link' \in {NoLink, link, Text(inv)} /\ pc' \in {"relink", "build"} /\ pc # "idle"
        /\ pc # "refused" /\ UNCHANGED <<tree, cache, marker, cc, outputs, locals>>
    BY <1>18 DEF RemoveLink, CreateLink
  <2> QED
    BY <1>r, <2>1, <2>2 DEF locals, Steps
<1>10. CASE BuildSucceeds
  <2>1. tree.place \in Places
    BY BuildDirAssumption DEF AllTrees
  <2> QED
    BY <1>10, <1>r, <2>1, EndTyped DEF BuildSucceeds, Steps
<1>11. CASE BuildFails
  <2>1. tree.place \in Places
    BY BuildDirAssumption DEF AllTrees
  <2> QED
    BY <1>11, <1>r, <2>1, EndTyped DEF BuildFails
<1>12. CASE ResolveExecutable
  <2>1. CASE Cardinality(outputs[D]) = 1
    <3>1. launched' \in Places \cup {Absent}
      <4>1. outputs[D] # {}
        BY <2>1, OneIsSome
      <4>2. launched' = CHOOSE p \in outputs[D] : TRUE
        BY <1>12, <2>1 DEF ResolveExecutable, Found
      <4>3. outputs[D] \subseteq Places
        BY <1>12, <1>r DEF ResolveExecutable
      <4> QED
        BY <4>1, <4>2, <4>3
    <3> QED
      BY <1>12, <1>r, <2>1, <3>1 DEF ResolveExecutable, Found, disk, Steps
  <2>2. CASE Cardinality(outputs[D]) # 1
    BY <1>12, <2>2, EndTyped DEF ResolveExecutable, Found, disk
  <2> QED
    BY <2>1, <2>2
<1>13. CASE Refuse \/ TargetExits
  BY <1>13, EndTyped DEF Refuse, TargetExits, disk
<1>14. CASE Crash
  <2>2. CASE CrashInClean
    BY <1>14, <2>2, <1>r, NoCacheType, NoMarkerType, EndTyped DEF Crash, CrashInClean
  <2>3. CASE CrashInConfigure
    BY <1>14, <2>3, <1>r, <1>c, EndTyped DEF Crash, CrashInConfigure
  <2>4. CASE CrashInWrite
    BY <1>14, <2>4, <1>t, <1>r, EndTyped DEF Crash, CrashInWrite
  <2>5. CASE CrashElsewhere
    BY <1>14, <2>5, EndTyped DEF Crash, CrashElsewhere, disk
  <2> QED
    BY <1>14, <2>2, <2>3, <2>4, <2>5 DEF Crash
<1>15. CASE UNCHANGED vars
  BY <1>15 DEF vars
<1> QED
  BY <1>1, <1>2, <1>3, <1>4, <1>5, <1>6, <1>7, <1>8, <1>9, <1>10, <1>11, <1>12, <1>13, <1>14, <1>15,
     <1>16, <1>17, <1>18, <1>19 DEF Next, Start, Advance

LEMMA TypeInit == Init => TypeOK
BY NoCacheType, NoMarkerType DEF Init, TypeOK, Steps

\* BuildDir's variables keep their types, whatever the environment does.
THEOREM TypeCorrect == Spec => []TypeOK
BY TypeInit, TypeStep, PTL DEF Spec

-----------------------------------------------------------------------------
(* Clean builds. *)

\* From an absent cache, the configure step leaves what is wanted, no more.
LEMMA ConfiguredFromNothing ==
    ASSUME NEW r \in Requests, NEW p \in Providers \cup {Absent}, NEW names
    PROVE  Configured(NoCache, r, p, names).vars = Wanted(r, p)
BY DEF Configured, NoCache, Wanted

LEMMA CleanStep == TypeOK /\ CleanStartsAfresh /\ [Next]_vars => CleanStartsAfresh'
<1> SUFFICES ASSUME TypeOK, CleanStartsAfresh, [Next]_vars PROVE CleanStartsAfresh'
  OBVIOUS
<1>r. pc # "idle" => inv \in Requests /\ D \in Dirs /\ prov \in Providers \cup {Absent}
  BY RequestFacts DEF TypeOK, D
<1>t. cache \in [Dirs -> Caches] /\ marker \in [Dirs -> Markers]
  BY DEF TypeOK
<1>e. End => CleanStartsAfresh'
  BY DEF End, NoRequest, CleanStartsAfresh
<1> USE DEF CleanStartsAfresh, D
<1>1. CASE EditTree
  BY <1>1 DEF EditTree, disk, locals
<1>2. ASSUME NEW r \in Requests, Invoke(r) PROVE CleanStartsAfresh'
  BY <1>2 DEF Invoke, Settled
<1>3. CASE Clean
  BY <1>3, <1>r, <1>t DEF Clean, locals, NoMarker, Settled
<1>4. CASE Resolve
  BY <1>4 DEF Resolve, disk, Settled
<1>5. CASE Decide
  <2>1. inv.clean => pc' = "unset"
    BY <1>5 DEF Decide, NeedsConfigure, NoCache
  <2> QED
    BY <1>5, <2>1 DEF Decide, disk, locals, Settled
<1>16. CASE ReadDropped
  BY <1>16 DEF ReadDropped, disk, Settled
<1>17. CASE OpenMarker \/ MarkerUnopened
  BY <1>17 DEF OpenMarker, MarkerUnopened, disk, locals, Settled
<1>18. CASE RemoveLink \/ CreateLink
  BY <1>18 DEF RemoveLink, CreateLink, locals, Settled
<1>6. CASE ConfigureSucceeds
  <2>1. inv' = inv /\ prov' = prov /\ pc' = "mark" /\ D' = D
    BY <1>6 DEF ConfigureSucceeds, locals
  <2>2. cache'[D] = Configured(cache[D], inv, prov, unset)
    BY <1>6, <1>r, <1>t DEF ConfigureSucceeds
  <2>3. inv.clean => cache'[D].vars = Wanted(inv, prov)
    BY <1>6, <1>r, <2>2, ConfiguredFromNothing DEF ConfigureSucceeds
  <2>4. cache'[D].env = inv.env
    BY <2>2 DEF Configured
  <2> QED
    BY <2>1, <2>3, <2>4 DEF Settled
<1>7. CASE ConfigureFails
  BY <1>7, <1>e DEF ConfigureFails
<1>8. CASE WriteMarker
  BY <1>8 DEF WriteMarker, locals, Settled
<1>9. CASE LinkCompileCommands
  BY <1>9 DEF LinkCompileCommands, disk, locals, Settled
<1>10. CASE BuildSucceeds
  <2>1. CASE inv.run
    <3>1. pc' = "resolve_exe"
      BY <1>10, <2>1 DEF BuildSucceeds
    <3> QED
      BY <3>1 DEF Settled
  <2>2. CASE ~inv.run
    BY <1>10, <1>e, <2>2 DEF BuildSucceeds
  <2> QED
    BY <2>1, <2>2
<1>11. CASE BuildFails
  BY <1>11, <1>e DEF BuildFails
<1>12. CASE ResolveExecutable
  BY <1>12, <1>e DEF ResolveExecutable, Found, Settled
<1>13. CASE Refuse \/ TargetExits
  BY <1>13, <1>e DEF Refuse, TargetExits
<1>14. CASE Crash
  BY <1>14, <1>e DEF Crash
<1>15. CASE UNCHANGED vars
  BY <1>15 DEF vars
<1> QED
  BY <1>1, <1>2, <1>3, <1>4, <1>5, <1>6, <1>7, <1>8, <1>9, <1>10, <1>11, <1>12, <1>13, <1>14, <1>15,
     <1>16, <1>17, <1>18 DEF Next, Start, Advance

\* From remove_all to the configure step a `--clean` build finds nothing of
\* what was there, and afterwards nothing but its own.
THEOREM CleanAfresh == Spec => []CleanStartsAfresh
<1>1. Init => CleanStartsAfresh
  BY DEF Init, CleanStartsAfresh, NoRequest
<1> QED
  BY <1>1, CleanStep, TypeCorrect, PTL DEF Spec

\* A `--clean` build is made with exactly the settings it was asked for,
\* whatever failed, crashed or was cut short before it.
THEOREM CleanBuildExact == Spec => []CleanBuildIsExact
<1>1. CleanStartsAfresh => CleanBuildIsExact
  BY DEF CleanStartsAfresh, CleanBuildIsExact, Settled
<1> QED
  BY <1>1, CleanAfresh, PTL

-----------------------------------------------------------------------------
(* `baldr run`. *)

LEMMA FreshStep == TypeOK /\ FreshIsThere /\ [Next]_vars => FreshIsThere'
<1> SUFFICES ASSUME TypeOK, FreshIsThere, [Next]_vars PROVE FreshIsThere'
  OBVIOUS
<1>r. pc # "idle" => D \in Dirs
  BY RequestFacts DEF TypeOK, D
<1>e. End => FreshIsThere'
  BY DEF End, FreshIsThere, RunLaunchesFresh
<1> USE DEF FreshIsThere, RunLaunchesFresh
<1>1. CASE EditTree
  BY <1>1 DEF EditTree, disk, locals, D
<1>2. CASE Start
  BY <1>2 DEF Start, Invoke
<1>3. CASE \/ Clean \/ Resolve \/ Decide \/ ReadDropped \/ ConfigureSucceeds
           \/ OpenMarker \/ MarkerUnopened \/ WriteMarker \/ LinkCompileCommands
           \/ RemoveLink \/ CreateLink
  BY <1>3 DEF Clean, Resolve, Decide, ReadDropped, ConfigureSucceeds,
              OpenMarker, MarkerUnopened, WriteMarker, LinkCompileCommands, RemoveLink, CreateLink
<1>4. CASE ConfigureFails \/ BuildFails \/ Refuse \/ TargetExits \/ Crash
  BY <1>4, <1>e DEF ConfigureFails, BuildFails, Refuse, TargetExits, Crash
<1>5. CASE BuildSucceeds
  BY <1>5, <1>e, <1>r DEF BuildSucceeds, TypeOK, D
<1>6. CASE ResolveExecutable
  <2>1. CASE Cardinality(outputs[D]) = 1
    <3>1. IsFiniteSet(outputs[D])
      BY <1>6, <1>r, BuildDirAssumption, FS_Subset DEF ResolveExecutable, Found, TypeOK
    <3>2. PICK p : outputs[D] = {p}
      BY <2>1, <3>1, FS_Singleton
    <3> QED
      BY <1>6, <2>1, <3>2 DEF ResolveExecutable, Found
  <2>2. CASE Cardinality(outputs[D]) # 1
    BY <1>6, <1>e, <2>2 DEF ResolveExecutable, Found
  <2> QED
    BY <2>1, <2>2
<1>7. CASE UNCHANGED vars
  BY <1>7 DEF vars, D
<1> QED
  BY <1>1, <1>2, <1>3, <1>4, <1>5, <1>6, <1>7 DEF Next, Advance

\* `baldr run` launches what its own build produced, also where executables
\* of earlier project layouts, or of builds that failed or crashed, are left.
THEOREM RunLaunchesWhatItBuilt == Spec => []RunLaunchesFresh
<1>1. Init => FreshIsThere
  BY DEF Init, FreshIsThere, RunLaunchesFresh
<1>2. FreshIsThere => RunLaunchesFresh
  BY DEF FreshIsThere
<1> QED
  BY <1>1, <1>2, FreshStep, TypeCorrect, PTL DEF Spec

-----------------------------------------------------------------------------
(* Incremental builds, where every failed step leaves the disk as it was. *)

\* A request is known to the marker by its defines, its environment and the
\* provider; with one build type per directory these are all that matters.
LEMMA SameText ==
    ASSUME NEW r \in Requests, NEW s \in Requests, NEW p, NEW q, NEW c,
           r.type = s.type, Resolved(r, p) = Resolved(s, q), Matches(c, r, p)
    PROVE  Matches(c, s, q)
<1>1. r.defs = s.defs /\ r.env = s.env /\ p = q
  BY DEF Resolved
<1>2. Wanted(r, p) = Wanted(s, q)
  BY <1>1 DEF Wanted
<1> QED
  BY <1>1, <1>2 DEF Matches, AsksFor, NothingElse

\* Unsetting what the marker has and the request lacks makes the cache match.
LEMMA ConfiguredMatches ==
    ASSUME NEW s \in Requests, NEW q, NEW d, Truthful(d)
    PROVE  Matches(Configured(cache[d], s, q, Dropped(marker[d], s)), s, q)
<1> DEFINE c == Configured(cache[d], s, q, Dropped(marker[d], s))
<1>1. c.made /\ c.env = s.env /\ AsksFor(c, s, q)
  BY DEF Configured, AsksFor
<1>2. ASSUME NEW k \in Keys \ {BuildTypeKey, TopIncludes}, s.defs[k] = Absent
      PROVE  c.vars[k] = Absent
  <2>1. k \in CacheKeys /\ Wanted(s, q)[k] = Absent
    BY <1>2, KeyFacts DEF Wanted
  <2>2. c.vars[k] = IF k \in Dropped(marker[d], s) THEN Absent ELSE cache[d].vars[k]
    BY <2>1 DEF Configured
  <2>3. CASE marker[d].made
    <3>1. PICK r \in Accepted, p \in Providers \cup {Absent} :
            marker[d] = Resolved(r, p) /\ Matches(cache[d], r, p)
      BY <2>3 DEF Truthful
    <3>2. k \notin Dropped(marker[d], s) => r.defs[k] = Absent
      BY <1>2, <3>1 DEF Dropped, Resolved
    <3> QED
      BY <1>2, <2>2, <3>1, <3>2 DEF Matches, NothingElse
  <2>4. CASE ~marker[d].made
    BY <2>1, <2>2, <2>4 DEF Truthful, NoCache
  <2> QED
    BY <2>3, <2>4
<1> QED
  BY <1>1, <1>2 DEF Matches, NothingElse

LEMMA TruthStep ==
    ASSUME OneTypePerDir, Mishaps \subseteq {"link_fails"}
    PROVE  TypeOK /\ MarkerTellsTruth /\ [Next]_vars => MarkerTellsTruth'
<1> SUFFICES ASSUME TypeOK, MarkerTellsTruth, [Next]_vars PROVE MarkerTellsTruth'
  OBVIOUS
<1>r. pc # "idle" => inv \in Requests /\ D \in Dirs /\ prov \in Providers \cup {Absent}
  BY RequestFacts DEF TypeOK, D
<1>a. pc \notin {"idle", "refused"} => inv \in Accepted
  BY <1>r DEF TypeOK, Accepted
<1>t. cache \in [Dirs -> Caches] /\ marker \in [Dirs -> Markers]
  BY DEF TypeOK
<1>m. /\ "fail_saves" \notin Mishaps /\ "torn" \notin Mishaps /\ "crash" \notin Mishaps
      /\ "unopened" \notin Mishaps
  OBVIOUS
<1>k. UNCHANGED <<cache, marker>> => \A d \in Dirs : Truthful(d)' <=> Truthful(d)
  BY DEF Truthful, Matches, AsksFor, NothingElse
\* A step that ends the process, or goes on to one that needs no cache.
<1>e. ASSUME UNCHANGED <<cache, marker>>, pc \notin {"mark", "write"},
             pc' \notin {"configure", "mark", "write"} \cup Settled
      PROVE  MarkerTellsTruth'
  BY <1>e, <1>k DEF MarkerTellsTruth
\* A step that leaves the invocation and the disk at rest.
<1>s. ASSUME UNCHANGED <<cache, marker, inv, prov, unset>>,
             pc' = pc \/ (pc \in Settled /\ pc' \in Settled)
      PROVE  MarkerTellsTruth'
  BY <1>s, <1>k DEF MarkerTellsTruth, D, Matches, AsksFor, NothingElse, Settled
<1>1. CASE EditTree
  BY <1>1, <1>s DEF EditTree, disk, locals
<1>2. CASE Start
  BY <1>2, <1>e DEF Start, Invoke, disk, Settled
<1>3. CASE Clean
  <2>1. \A d \in Dirs : Truthful(d)'
    <3> TAKE d \in Dirs
    <3>1. CASE d = D
      BY <1>3, <1>t, <3>1 DEF Clean, Truthful, NoMarker
    <3>2. CASE d # D
      <4>1. cache'[d] = cache[d] /\ marker'[d] = marker[d] /\ Truthful(d)
        BY <1>3, <1>t, <3>2 DEF Clean, MarkerTellsTruth
      <4> QED
        BY <4>1 DEF Truthful, Matches, AsksFor, NothingElse
    <3> QED
      BY <3>1, <3>2
  <2> QED
    BY <1>3, <2>1 DEF Clean, MarkerTellsTruth, Settled
<1>4. CASE Resolve
  BY <1>4, <1>e DEF Resolve, disk, Settled
<1>5. CASE Decide
  <2>1. Truthful(D) /\ \A d \in Dirs : Truthful(d)'
    BY <1>5, <1>k, <1>r DEF Decide, disk, MarkerTellsTruth
  <2>2. CASE NeedsConfigure(D, inv, prov)
    BY <1>5, <1>e, <2>2 DEF Decide, disk, locals, Settled
  <2>3. CASE ~NeedsConfigure(D, inv, prov)
    <3>1. PICK r \in Accepted, p \in Providers \cup {Absent} :
            /\ Dir(r) = D
            /\ marker[D] = Resolved(r, p)
            /\ Matches(cache[D], r, p)
      BY <2>1, <2>3 DEF NeedsConfigure, Truthful
    <3>2. r \in Requests /\ r.type = inv.type
      BY <1>5, <1>r, <1>a, <3>1 DEF OneTypePerDir, D, Decide, Accepted
    <3>3. Matches(cache[D], inv, prov)
      BY <1>5, <1>r, <2>3, <3>1, <3>2, SameText DEF NeedsConfigure, Decide
    <3>4. pc' = "link" /\ Matches(cache[D], inv, prov)'
      BY <1>5, <2>3, <3>3 DEF Decide, disk, locals, D, Matches, AsksFor, NothingElse
    <3> QED
      BY <2>1, <3>4 DEF MarkerTellsTruth
  <2> QED
    BY <2>2, <2>3
<1>14. CASE ReadDropped
  <2>1. \A d \in Dirs : Truthful(d)'
    BY <1>14, <1>k DEF ReadDropped, disk, MarkerTellsTruth
  <2> QED
    BY <1>14, <2>1 DEF ReadDropped, disk, MarkerTellsTruth, D, Settled
<1>15. CASE OpenMarker
  <2>1. pc' = "write" /\ D' = D /\ Matches(cache[D], inv, prov)'
    BY <1>15 DEF OpenMarker, locals, D, MarkerTellsTruth, Matches, AsksFor, NothingElse
  <2>2. ASSUME NEW d \in Dirs, d # D PROVE Truthful(d)'
    <3>1. cache'[d] = cache[d] /\ marker'[d] = marker[d] /\ Truthful(d)
      BY <1>15, <1>t, <2>2 DEF OpenMarker, MarkerTellsTruth
    <3> QED
      BY <3>1 DEF Truthful, Matches, AsksFor, NothingElse
  <2> QED
    BY <2>1, <2>2 DEF MarkerTellsTruth
<1>16. CASE RemoveLink \/ CreateLink
  BY <1>16, <1>s DEF RemoveLink, CreateLink, locals, Settled
<1>6. CASE ConfigureSucceeds
  <2>1. Truthful(D) /\ unset = Dropped(marker[D], inv)
    BY <1>6, <1>r DEF ConfigureSucceeds, MarkerTellsTruth
  <2>2. cache'[D] = Configured(cache[D], inv, prov, unset)
    BY <1>6, <1>r, <1>t DEF ConfigureSucceeds
  <2>3. Matches(cache'[D], inv, prov)
    BY <1>6, <1>r, <2>1, <2>2, ConfiguredMatches DEF ConfigureSucceeds
  <2>4. pc' = "mark" /\ D' = D /\ Matches(cache[D], inv, prov)'
    BY <1>6, <2>3 DEF ConfigureSucceeds, locals, D, Matches, AsksFor, NothingElse
  <2>5. ASSUME NEW d \in Dirs, d # D PROVE Truthful(d)'
    <3>1. cache'[d] = cache[d] /\ marker'[d] = marker[d] /\ Truthful(d)
      BY <1>6, <1>t, <2>5 DEF ConfigureSucceeds, MarkerTellsTruth
    <3> QED
      BY <3>1 DEF Truthful, Matches, AsksFor, NothingElse
  <2> QED
    BY <2>4, <2>5 DEF MarkerTellsTruth
<1>7. CASE ConfigureFails
  BY <1>7, <1>e, <1>m DEF ConfigureFails, CacheLeftOver, End, Settled
<1>8. CASE WriteMarker
  <2>1. marker' = [marker EXCEPT ![D] = Resolved(inv, prov)] /\ cache' = cache /\ pc' = "link"
        /\ D' = D /\ inv' = inv /\ prov' = prov
    BY <1>8, <1>m DEF WriteMarker, locals, D
  <2>2. Matches(cache[D], inv, prov)
    BY <1>8 DEF WriteMarker, MarkerTellsTruth
  <2>3. Truthful(D)'
    <3>1. marker'[D] = Resolved(inv, prov)
      BY <1>8, <1>r, <1>t, <2>1 DEF WriteMarker
    <3>2. inv \in Accepted /\ prov \in Providers \cup {Absent} /\ Dir(inv) = D
      BY <1>8, <1>r, <1>a DEF WriteMarker, D
    <3>3. marker'[D].made
      BY <3>1 DEF Resolved
    <3>4. Dir(inv) = D /\ marker'[D] = Resolved(inv, prov) /\ Matches(cache'[D], inv, prov)
      BY <2>1, <2>2, <3>1, <3>2
    <3>5. \E r \in Accepted, p \in Providers \cup {Absent} :
            Dir(r) = D /\ marker'[D] = Resolved(r, p) /\ Matches(cache'[D], r, p)
      BY <3>2, <3>4
    <3> QED
      BY <2>1, <3>3, <3>5 DEF Truthful, Matches, AsksFor, NothingElse
  <2>4. ASSUME NEW d \in Dirs, d # D PROVE Truthful(d)'
    <3>1. cache'[d] = cache[d] /\ marker'[d] = marker[d] /\ Truthful(d)
      BY <1>8, <1>t, <2>1, <2>4 DEF WriteMarker, MarkerTellsTruth
    <3> QED
      BY <3>1 DEF Truthful, Matches, AsksFor, NothingElse
  <2>5. Matches(cache[D], inv, prov)'
    BY <2>1, <2>2 DEF Matches, AsksFor, NothingElse
  <2>6. \A d \in Dirs : Truthful(d)'
    BY <2>1, <2>3, <2>4
  <2> QED
    BY <2>1, <2>5, <2>6 DEF MarkerTellsTruth
<1>9. CASE LinkCompileCommands
  BY <1>9, <1>s DEF LinkCompileCommands, disk, locals, Settled
<1>10. CASE BuildSucceeds \/ BuildFails
  BY <1>10, <1>e DEF BuildSucceeds, BuildFails, End, Settled
<1>11. CASE ResolveExecutable \/ Refuse \/ TargetExits
  BY <1>11, <1>e DEF ResolveExecutable, Found, Refuse, TargetExits, End, disk, Settled
<1>12. CASE Crash \/ MarkerUnopened
  BY <1>12, <1>m DEF Crash, MarkerUnopened
<1>13. CASE UNCHANGED vars
  BY <1>13, <1>s DEF vars
<1> QED
  BY <1>1, <1>2, <1>3, <1>4, <1>5, <1>6, <1>7, <1>8, <1>9, <1>10, <1>11, <1>12, <1>13,
     <1>14, <1>15, <1>16 DEF Next, Advance

\* Where no failed or killed step leaves the disk half-written, the marker of a
\* directory tells of what its cache has (needs_cmake_configure relies on it).
THEOREM TruthInvariant ==
    ASSUME OneTypePerDir, Mishaps \subseteq {"link_fails"}
    PROVE  Spec => []MarkerTellsTruth
<1>1. Init => MarkerTellsTruth
  BY DEF Init, MarkerTellsTruth, Truthful, NoMarker, Settled
<1>2. TypeOK /\ MarkerTellsTruth /\ [Next]_vars => MarkerTellsTruth'
  BY TruthStep
<1> QED
  BY <1>1, <1>2, TypeCorrect, PTL DEF Spec

\* Where a build directory is used with one build type, and no step fails
\* half-way through writing to it, every build that starts, configured
\* afresh or not, is made with exactly what its invocation asked for:
\* comparing the marker's text is enough to detect a change.
THEOREM BuildIsAsRequested ==
    ASSUME OneTypePerDir, Mishaps \subseteq {"link_fails"}
    PROVE  Spec => []BuildMatchesRequest
<1>1. MarkerTellsTruth => BuildMatchesRequest
  BY DEF MarkerTellsTruth, BuildMatchesRequest, Matches, Settled
<1> QED
  BY <1>1, TruthInvariant, PTL

-----------------------------------------------------------------------------
(* The refinement. *)

\* A cache that matches a request holds the settings it stands for.
LEMMA MatchesHeld ==
    ASSUME NEW r \in Requests, NEW p \in Providers \cup {Absent}, NEW c, Matches(c, r, p)
    PROVE  Held(c) = Asked(r)
<1>1. \A k \in PlainKeys : c.vars[k] = r.defs[k]
  BY KeyFacts DEF Matches, AsksFor, NothingElse, PlainKeys, Wanted
<1>2. c.vars[BuildTypeKey] = Wanted(r, Absent)[BuildTypeKey]
  <2>1. Wanted(r, p)[BuildTypeKey] = Wanted(r, Absent)[BuildTypeKey]
    BY KeyFacts DEF Wanted
  <2>2. Wanted(r, p)[BuildTypeKey] # Absent
    BY KeyFacts, RequestFacts, BuildDirAssumption DEF Wanted
  <2> QED
    BY <2>1, <2>2, KeyFacts DEF Matches, AsksFor
<1> QED
  BY <1>1, <1>2 DEF Matches, Held, Asked

\* A directory that is written to is the only one whose settings change.
LEMMA HeldExcept ==
    ASSUME NEW d \in Dirs, NEW c, TypeOK, cache' = [cache EXCEPT ![d] = c]
    PROVE  [e \in Dirs |-> Held(cache'[e])]
           = [[e \in Dirs |-> Held(cache[e])] EXCEPT ![d] = Held(c)]
BY DEF TypeOK

LEMMA PromiseStep ==
    ASSUME Mishaps \subseteq {"link_fails"}
    PROVE  TypeOK /\ MarkerTellsTruth /\ MarkerTellsTruth' /\ [Next]_vars
               => [Promise!Next]_(Promise!pvars)
<1> SUFFICES ASSUME TypeOK, MarkerTellsTruth, MarkerTellsTruth', [Next]_vars
             PROVE  [Promise!Next]_(Promise!pvars)
  OBVIOUS
<1>r. pc # "idle" => inv \in Requests /\ D \in Dirs /\ prov \in Providers \cup {Absent}
  BY RequestFacts DEF TypeOK, D
<1>m. /\ "fail_saves" \notin Mishaps /\ "torn" \notin Mishaps /\ "crash" \notin Mishaps
      /\ "unopened" \notin Mishaps
  OBVIOUS
\* A step within a phase that leaves the caches alone.
<1>s. ASSUME UNCHANGED <<cache, inv>>, pc # "idle", pc' # "idle",
             pc \in {"build", "resolve_exe", "running"} <=> pc' \in {"build", "resolve_exe", "running"}
      PROVE  UNCHANGED Promise!pvars
  BY <1>s DEF Promise!pvars, TaskOf, Asked, Dir, Wanted
\* A step that ends the invocation and leaves the caches alone.
<1>e. ASSUME UNCHANGED cache, pc # "idle", pc' = "idle"
      PROVE  Promise!End
  BY <1>e DEF Promise!End
<1>1. CASE EditTree \/ UNCHANGED vars
  <2>1. UNCHANGED <<cache, inv, pc>>
    BY <1>1 DEF EditTree, disk, locals, vars
  <2> QED
    BY <2>1 DEF Promise!pvars, TaskOf, Asked, Dir, Wanted
<1>2. ASSUME NEW r \in Requests, Invoke(r) PROVE Promise!Ask
  <2>1. pc = "idle" /\ pc' \in {"refused", "clean", "resolve"} /\ inv' = r /\ cache' = cache
    BY <1>2 DEF Invoke, disk
  <2>2. TaskOf(inv)' = TaskOf(r)
    BY <2>1 DEF TaskOf, Asked, Dir, Wanted
  <2> QED
    BY <2>1, <2>2 DEF Promise!Ask
<1>3. CASE Clean
  <2>1. cache' = [cache EXCEPT ![D] = NoCache] /\ pc = "clean" /\ pc' = "resolve" /\ inv' = inv
    BY <1>3 DEF Clean, locals
  <2>2. Held(NoCache) = Absent
    BY DEF Held, NoCache
  <2>3. [d \in Dirs |-> Held(cache'[d])] = [[d \in Dirs |-> Held(cache[d])] EXCEPT ![D] = Absent]
    BY <1>r, <2>1, <2>2, HeldExcept
  <2>4. TaskOf(inv)' = TaskOf(inv) /\ TaskOf(inv).dir = D
    BY <2>1 DEF TaskOf, Asked, Dir, Wanted, D
  <2> QED
    BY <2>1, <2>3, <2>4 DEF Promise!Next, Promise!Settle
<1>4. CASE Resolve \/ Decide \/ ReadDropped
  BY <1>4, <1>s DEF Resolve, Decide, ReadDropped, disk, locals
<1>5. CASE ConfigureSucceeds
  <2> DEFINE new == Configured(cache[D], inv, prov, unset)
  <2>1. cache' = [cache EXCEPT ![D] = new] /\ pc = "configure" /\ pc' = "mark"
        /\ inv' = inv /\ prov' = prov /\ D' = D
    BY <1>5 DEF ConfigureSucceeds, locals, D
  <2>2. Held(new) = Asked(inv)
    <3>1. Matches(cache[D], inv, prov)'
      BY <2>1 DEF MarkerTellsTruth
    <3>2. cache'[D] = new
      BY <1>r, <2>1 DEF TypeOK
    <3>3. Matches(new, inv, prov)
      BY <2>1, <3>1, <3>2 DEF Matches, AsksFor, NothingElse
    <3> QED
      BY <1>r, <2>1, <3>3, MatchesHeld
  <2>3. [d \in Dirs |-> Held(cache'[d])]
        = [[d \in Dirs |-> Held(cache[d])] EXCEPT ![D] = Asked(inv)]
    BY <1>r, <2>1, <2>2, HeldExcept
  <2>4. TaskOf(inv)' = TaskOf(inv) /\ TaskOf(inv).dir = D /\ TaskOf(inv).settings = Asked(inv)
    BY <2>1 DEF TaskOf, Asked, Dir, Wanted, D
  <2> QED
    BY <2>1, <2>3, <2>4 DEF Promise!Next, Promise!Settle
<1>6. CASE ConfigureFails \/ BuildFails \/ Refuse \/ TargetExits
  <2>1. UNCHANGED cache /\ pc # "idle" /\ pc' = "idle"
    BY <1>6, <1>m DEF ConfigureFails, CacheLeftOver, BuildFails, Refuse, TargetExits, End, disk
  <2> QED
    BY <2>1, <1>e DEF Promise!Next
<1>7. CASE OpenMarker \/ WriteMarker \/ RemoveLink
  BY <1>7, <1>s DEF OpenMarker, WriteMarker, RemoveLink, locals
<1>8. CASE LinkCompileCommands \/ CreateLink
  <2>1. UNCHANGED <<cache, inv>> /\ pc \in {"link", "relink"} /\ pc' \in {"unlink", "build"}
    BY <1>8 DEF LinkCompileCommands, CreateLink, disk, locals
  <2>2. CASE pc' = "unlink"
    BY <1>s, <2>1, <2>2
  <2>3. CASE pc' = "build"
    <3>1. Held(cache[D]) = Asked(inv)
      BY <1>r, <2>1, MatchesHeld DEF MarkerTellsTruth, Settled
    <3>2. TaskOf(inv)' = TaskOf(inv) /\ TaskOf(inv).dir = D /\ TaskOf(inv).settings = Asked(inv)
      BY <2>1 DEF TaskOf, Asked, Dir, Wanted, D
    <3> QED
      BY <1>r, <2>1, <2>3, <3>1, <3>2 DEF Promise!Next, Promise!Build
  <2> QED
    BY <2>1, <2>2, <2>3
<1>9. CASE BuildSucceeds \/ ResolveExecutable
  <2>1. UNCHANGED cache /\ pc \in {"build", "resolve_exe"}
        /\ (pc' = "idle" \/ (pc' \in {"resolve_exe", "running"} /\ inv' = inv))
    BY <1>9 DEF BuildSucceeds, ResolveExecutable, End, disk
  <2> QED
    BY <2>1, <1>e, <1>s DEF Promise!Next
<1>10. CASE Crash \/ MarkerUnopened
  BY <1>10, <1>m DEF Crash, MarkerUnopened
<1> QED
  BY <1>1, <1>2, <1>3, <1>4, <1>5, <1>6, <1>7, <1>8, <1>9, <1>10
     DEF Next, Start, Advance, Promise!Next

\* Under the same conditions, cache and marker together are what BuildPromise
\* promises: settings that change as a whole, and builds with no others.
THEOREM ImplementsPromise ==
    ASSUME OneTypePerDir, Mishaps \subseteq {"link_fails"}
    PROVE  Spec => PromiseKept
<1>1. Init => Promise!Init
  BY DEF Init, Promise!Init, Held, NoCache
<1>2. TypeOK /\ MarkerTellsTruth /\ MarkerTellsTruth' /\ [Next]_vars
      => [Promise!Next]_(Promise!pvars)
  BY PromiseStep
<1> QED
  BY <1>1, <1>2, TypeCorrect, TruthInvariant, PTL DEF Spec, PromiseKept, Promise!Spec

-----------------------------------------------------------------------------
(* What holds of a directory's cache whatever has gone wrong. *)

\* With -U or without, from whatever was there, CMake is told the build type.
LEMMA ConfiguredTypeKey ==
    ASSUME BuildTypeKey \notin Keys, NEW r \in Requests, NEW p, NEW names, NEW old
    PROVE  /\ Configured(old, r, p, names).vars[BuildTypeKey] = r.type
           /\ Configured(old, r, p, names).made
           /\ Wanted(r, p)[BuildTypeKey] = r.type
<1>1. Wanted(r, p)[BuildTypeKey] = r.type
  BY KeyFacts DEF Wanted
<1>2. r.type # Absent
  BY RequestFacts, BuildDirAssumption
<1> QED
  BY <1>1, <1>2, KeyFacts DEF Configured

LEMMA CacheTypeStep ==
    ASSUME BuildTypeKey \notin Keys
    PROVE  TypeOK /\ CacheKeepsType /\ [Next]_vars => CacheKeepsType'
<1> SUFFICES ASSUME TypeOK, CacheKeepsType, [Next]_vars PROVE CacheKeepsType'
  OBVIOUS
<1>r. pc # "idle" => inv \in Requests /\ D \in Dirs
  BY RequestFacts DEF TypeOK, D
<1>t. cache \in [Dirs -> Caches]
  BY DEF TypeOK
<1>a. pc \notin {"idle", "refused"} => inv \in Accepted
  BY <1>r DEF TypeOK, Accepted
<1> DEFINE Kept(c) == \A d \in Dirs : c[d].made =>
                          \E r \in Accepted : Dir(r) = d /\ c[d].vars[BuildTypeKey] = r.type
<1>k. Kept(cache)
  BY DEF CacheKeepsType
<1>c. pc = "configure" => /\ Kept([cache EXCEPT ![D] = Configured(@, inv, prov, unset)])
                          /\ [cache EXCEPT ![D] = Configured(@, inv, prov, unset)][D].made
  <2> SUFFICES ASSUME pc = "configure"
               PROVE  /\ Kept([cache EXCEPT ![D] = Configured(@, inv, prov, unset)])
                      /\ [cache EXCEPT ![D] = Configured(@, inv, prov, unset)][D].made
    OBVIOUS
  <2>1. inv \in Requests /\ inv \in Accepted /\ D \in Dirs /\ D = Dir(inv)
    BY <1>r, <1>a DEF D
  <2>2. /\ Configured(cache[D], inv, prov, unset).vars[BuildTypeKey] = inv.type
        /\ Configured(cache[D], inv, prov, unset).made
    BY <2>1, ConfiguredTypeKey
  <2> QED
    BY <1>k, <1>t, <2>1, <2>2
<1>n. D \in Dirs => Kept([cache EXCEPT ![D] = NoCache])
  BY <1>k, <1>t DEF NoCache
<1>e. End /\ Kept(cache') => CacheKeepsType'
  BY DEF End, CacheKeepsType, Settled
<1>f. ASSUME UNCHANGED cache, UNCHANGED inv, pc' \in {"mark", "write"} \cup Settled => cache[D].made
      PROVE  CacheKeepsType'
  BY <1>f, <1>k DEF CacheKeepsType, D
<1> HIDE DEF Kept
<1>1. CASE EditTree \/ UNCHANGED vars
  <2>1. UNCHANGED <<cache, inv, pc>>
    BY <1>1 DEF EditTree, disk, locals, vars
  <2> QED
    BY <1>f, <2>1 DEF CacheKeepsType
<1>2. CASE Start
  <2>1. UNCHANGED cache /\ pc' \in {"refused", "clean", "resolve"}
    BY <1>2 DEF Start, Invoke, disk
  <2> QED
    BY <1>k, <2>1 DEF CacheKeepsType, Settled, Kept
<1>3. CASE Clean
  <2>1. cache' = [cache EXCEPT ![D] = NoCache] /\ pc' = "resolve"
    BY <1>3 DEF Clean
  <2>2. Kept(cache')
    BY <1>3, <1>n, <1>r, <2>1 DEF Clean
  <2> QED
    BY <2>1, <2>2 DEF CacheKeepsType, Settled, Kept
<1>4. CASE Resolve \/ Decide \/ ReadDropped
  <2>1. UNCHANGED <<cache, inv>>
    BY <1>4 DEF Resolve, Decide, ReadDropped, disk, locals
  <2>2. pc' \in {"mark", "write"} \cup Settled => cache[D].made
    BY <1>4 DEF Resolve, Decide, ReadDropped, NeedsConfigure, Settled
  <2> QED
    BY <1>f, <2>1, <2>2
<1>5. CASE ConfigureSucceeds
  <2>1. /\ cache' = [cache EXCEPT ![D] = Configured(@, inv, prov, unset)]
        /\ UNCHANGED inv
    BY <1>5 DEF ConfigureSucceeds, locals
  <2>2. Kept(cache') /\ cache'[D].made
    BY <1>5, <1>c, <2>1 DEF ConfigureSucceeds
  <2> QED
    BY <2>1, <2>2 DEF CacheKeepsType, Kept, D
<1>6. CASE ConfigureFails
  <2>1. cache' \in {cache, [cache EXCEPT ![D] = Configured(@, inv, prov, unset)]}
    BY <1>6 DEF ConfigureFails, CacheLeftOver
  <2>2. Kept(cache')
    BY <1>6, <1>c, <1>k, <2>1 DEF ConfigureFails
  <2> QED
    BY <1>6, <1>e, <2>2 DEF ConfigureFails
<1>7. CASE \/ OpenMarker \/ MarkerUnopened \/ WriteMarker
           \/ LinkCompileCommands \/ RemoveLink \/ CreateLink
  <2>1. UNCHANGED <<cache, inv>> /\ pc \in {"mark", "write"} \cup Settled
    BY <1>7 DEF OpenMarker, MarkerUnopened, WriteMarker, LinkCompileCommands, RemoveLink,
                CreateLink, disk, locals, Settled
  <2> QED
    BY <1>f, <2>1 DEF CacheKeepsType
<1>8. CASE BuildSucceeds \/ BuildFails \/ ResolveExecutable \/ Refuse \/ TargetExits
  <2>1. UNCHANGED cache
    BY <1>8 DEF BuildSucceeds, BuildFails, ResolveExecutable, Refuse, TargetExits, disk
  <2>2. End \/ (UNCHANGED inv /\ pc' \in {"resolve_exe", "running"})
    BY <1>8 DEF BuildSucceeds, BuildFails, ResolveExecutable, Refuse, TargetExits
  <2>3. CASE End
    BY <1>e, <1>k, <2>1, <2>3
  <2>4. CASE UNCHANGED inv /\ pc' \in {"resolve_exe", "running"}
    BY <1>f, <2>1, <2>4 DEF Settled
  <2> QED
    BY <2>2, <2>3, <2>4
<1>9. CASE Crash
  <2>1. \/ cache' = cache
        \/ pc = "clean" /\ cache' = [cache EXCEPT ![D] = NoCache]
        \/ pc = "configure" /\ cache' = [cache EXCEPT ![D] = Configured(@, inv, prov, unset)]
    BY <1>9 DEF Crash, CrashInClean, CrashInConfigure, CrashInWrite, CrashElsewhere, disk
  <2>2. Kept(cache')
    BY <1>c, <1>k, <1>n, <1>r, <2>1
  <2> QED
    BY <1>9, <1>e, <2>2 DEF Crash
<1> QED
  BY <1>1, <1>2, <1>3, <1>4, <1>5, <1>6, <1>7, <1>8, <1>9 DEF Next, Advance

\* With one build type for each directory, none of them a define, the type of
\* every build is the one asked for: no failed step, torn marker or crash
\* leaves a cache of another type behind.
THEOREM TypeIsAsRequested ==
    ASSUME OneTypePerDir, BuildTypeKey \notin Keys
    PROVE  Spec => []BuildTypeAsRequested
<1>1. Init => CacheKeepsType
  BY DEF Init, CacheKeepsType, NoCache, Settled
<1>2. TypeOK /\ CacheKeepsType => BuildTypeAsRequested
  <2> SUFFICES ASSUME TypeOK, CacheKeepsType, pc = "build"
               PROVE  cache[D].vars[BuildTypeKey] = Wanted(inv, prov)[BuildTypeKey]
    BY DEF BuildTypeAsRequested
  <2>1. inv \in Requests /\ inv \in Accepted /\ D \in Dirs /\ D = Dir(inv)
    BY RequestFacts DEF TypeOK, D, Accepted
  <2>2. PICK r \in Accepted : Dir(r) = D /\ cache[D].vars[BuildTypeKey] = r.type
    BY <2>1 DEF CacheKeepsType, Settled
  <2>3. r.type = inv.type
    BY <2>1, <2>2 DEF OneTypePerDir
  <2> QED
    BY <2>1, <2>2, <2>3, ConfiguredTypeKey
<1>3. TypeOK /\ CacheKeepsType /\ [Next]_vars => CacheKeepsType'
  BY CacheTypeStep
<1> QED
  BY <1>1, <1>2, <1>3, TypeCorrect, PTL DEF Spec

-----------------------------------------------------------------------------
(* compile_commands.json *)

LEMMA LinkStep ==
    ASSUME Mishaps \subseteq {"torn", "unopened"}
    PROVE  TypeOK /\ LinkLeads /\ [Next]_vars => LinkLeads'
<1> SUFFICES ASSUME TypeOK, LinkLeads, [Next]_vars PROVE LinkLeads'
  OBVIOUS
<1>r. pc # "idle" => D \in Dirs /\ inv.path \in Paths
  BY RequestFacts DEF TypeOK, D
<1>t. cache \in [Dirs -> Caches] /\ cc \in [Dirs -> BOOLEAN]
  BY DEF TypeOK
<1>d. pc # "idle" => Text(inv) \in Texts
  BY <1>r DEF Text, Texts, D
\* The link this invocation would write leads to its directory, or has a
\* relative path in it.
<1>w. pc # "idle" /\ cc[D] /\ link = Text(inv) => Followed(link) \/ inv.path = "relative"
  BY <1>d DEF Followed, Text, D
<1> USE DEF LinkLeads, LinkResolves
<1>e. End /\ UNCHANGED <<cache, cc>> => LinkLeads'
  BY DEF End, Settled
<1>1. CASE EditTree \/ UNCHANGED vars
  BY <1>1 DEF EditTree, disk, locals, vars, D, Followed, Text, Dir
<1>2. CASE Start
  BY <1>2 DEF Start, Invoke, disk, Settled
<1>3. CASE Clean
  <2>1. /\ cache' = [cache EXCEPT ![D] = NoCache] /\ cc' = [cc EXCEPT ![D] = FALSE]
        /\ pc' = "resolve"
    BY <1>3 DEF Clean
  <2>2. \A d \in Dirs : cache'[d].made => cc'[d]
    BY <1>3, <1>r, <1>t, <2>1 DEF NoCache, Clean
  <2> QED
    BY <2>1, <2>2 DEF Settled
<1>4. CASE Resolve \/ Decide \/ ReadDropped
  <2>1. UNCHANGED <<cache, cc, link, inv>> /\ pc' \in {"decide", "unset", "configure", "link"}
    BY <1>4 DEF Resolve, Decide, ReadDropped, disk, locals
  <2>2. pc' = "link" => cache[D].made
    BY <1>4 DEF Resolve, Decide, ReadDropped, NeedsConfigure
  <2> QED
    BY <2>1, <2>2 DEF Settled, D
<1>5. CASE ConfigureSucceeds
  <2>1. /\ cache' = [cache EXCEPT ![D] = Configured(@, inv, prov, unset)]
        /\ cc' = [cc EXCEPT ![D] = TRUE]
        /\ pc' = "mark" /\ UNCHANGED inv /\ D' = D
    BY <1>5 DEF ConfigureSucceeds, locals, D
  <2>2. (\A d \in Dirs : cache'[d].made => cc'[d]) /\ cache'[D].made
    BY <1>5, <1>r, <1>t, <2>1 DEF Configured, ConfigureSucceeds
  <2> QED
    BY <2>1, <2>2
<1>6. CASE ConfigureFails
  <2>1. UNCHANGED <<cache, cc>>
    BY <1>6 DEF ConfigureFails, CacheLeftOver
  <2> QED
    BY <1>6, <1>e, <2>1 DEF ConfigureFails
<1>7. CASE OpenMarker \/ MarkerUnopened \/ WriteMarker
  BY <1>7 DEF OpenMarker, MarkerUnopened, WriteMarker, disk, locals, Settled, D
<1>8. CASE LinkCompileCommands
  <2>1. /\ UNCHANGED <<cache, cc, link, inv>> /\ pc = "link" /\ pc' \in {"unlink", "build"}
        /\ pc' = "build" => inv.type # "Debug" \/ link = Text(inv) \/ Followed(link)
    BY <1>8 DEF LinkCompileCommands, LinkExists, disk, locals
  <2>2. cache[D].made /\ cc[D]
    BY <1>r, <2>1 DEF Settled
  <2>3. inv.type = "Debug" /\ pc' = "build"
        => Followed(link) \/ (inv.path = "relative" /\ link = Text(inv))
    BY <1>w, <2>1, <2>2
  <2>4. Followed(link)' <=> Followed(link)
    BY <2>1 DEF Followed
  <2>5. Text(inv)' = Text(inv) /\ D' = D
    BY <2>1 DEF Text, Dir, D
  <2> QED
    BY <2>1, <2>2, <2>3, <2>4, <2>5
<1>9. CASE RemoveLink
  <2>1. pc = "unlink" /\ pc' = "relink" /\ link' = NoLink /\ UNCHANGED <<cache, cc, inv>>
    BY <1>9 DEF RemoveLink, locals
  <2> QED
    BY <2>1 DEF Settled, D
<1>10. CASE CreateLink
  <2>1. pc = "relink" /\ pc' = "build" /\ link' = Text(inv) /\ UNCHANGED <<cache, cc, inv>>
    BY <1>10 DEF CreateLink, locals
  <2>2. cache[D].made /\ cc[D]
    BY <1>r, <2>1 DEF Settled
  <2>3. Followed(link)' \/ inv.path = "relative"
    BY <1>d, <2>1, <2>2 DEF Followed, Text, D
  <2>4. Text(inv)' = Text(inv) /\ D' = D
    BY <2>1 DEF Text, Dir, D
  <2> QED
    BY <2>1, <2>2, <2>3, <2>4
<1>11. CASE BuildSucceeds \/ BuildFails \/ ResolveExecutable \/ Refuse \/ TargetExits
  <2>1. UNCHANGED <<cache, cc>>
    BY <1>11 DEF BuildSucceeds, BuildFails, ResolveExecutable, Refuse, TargetExits, disk
  <2>2. End \/ pc' \in {"resolve_exe", "running"}
    BY <1>11 DEF BuildSucceeds, BuildFails, ResolveExecutable, Refuse, TargetExits
  <2> QED
    BY <1>e, <2>1, <2>2 DEF Settled
<1>12. CASE Crash
  BY <1>12 DEF Crash
<1> QED
  BY <1>1, <1>2, <1>3, <1>4, <1>5, <1>6, <1>7, <1>8, <1>9, <1>10, <1>11, <1>12 DEF Next, Advance

\* Where the symlink can be created and CMake leaves nothing half-done, every
\* Debug build starts with a compile_commands.json that can be opened, though
\* the directory it led to may have been removed since; but for a link of its
\* own text, if its --project is a relative path (link_compile_commands).
THEOREM LinkIsKept ==
    ASSUME Mishaps \subseteq {"torn", "unopened"}
    PROVE  Spec => []LinkResolves
<1>1. Init => LinkLeads
  BY DEF Init, LinkLeads, LinkResolves, NoCache, Settled
<1>2. TypeOK /\ LinkLeads /\ [Next]_vars => LinkLeads'
  BY LinkStep
<1>3. LinkLeads => LinkResolves
  BY DEF LinkLeads
<1> QED
  BY <1>1, <1>2, <1>3, TypeCorrect, PTL DEF Spec
=============================================================================
