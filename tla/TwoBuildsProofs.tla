--------------------------- MODULE TwoBuildsProofs ---------------------------
(***************************************************************************)
(* Theorems about two Baldr processes in one project.                       *)
(*                                                                          *)
(* Both run the same program, so each fact about a step is proved once, for *)
(* any process at work on any disk: processes and disks are records here,   *)
(* and Moves is what a step of a process does to them.                      *)
(***************************************************************************)
EXTENDS TwoBuilds, BuildDirProofs

\* The two processes, and the disk they share.
This == [pc |-> pc, inv |-> inv, prov |-> prov, unset |-> unset,
         fresh |-> fresh, launched |-> launched]
That == [pc |-> pc2, inv |-> inv2, prov |-> prov2, unset |-> unset2,
         fresh |-> fresh2, launched |-> launched2]
Disk == [cache |-> cache, marker |-> marker, cc |-> cc, outputs |-> outputs, link |-> link]


-----------------------------------------------------------------------------
(* What a step of process a on disk s may do: it leaves t, and itself as b.  *)

Goes(a, b, step) ==
    /\ b.pc = step /\ b.inv = a.inv /\ b.prov = a.prov /\ b.unset = a.unset
    /\ b.fresh = a.fresh /\ b.launched = a.launched

Ended(b) ==
    /\ b.pc = "idle" /\ b.inv = NoRequest /\ b.prov = Absent /\ b.unset = {}
    /\ b.fresh = Absent /\ b.launched = Absent

Invokes(s, a, t, b) ==
    /\ t = s
    /\ a.pc = "idle" /\ b.inv \in Requests
    /\ b.pc = IF b.inv.type \notin KnownTypes THEN "refused"
              ELSE IF b.inv.clean THEN "clean" ELSE "resolve"
    /\ b.prov = a.prov /\ b.unset = a.unset /\ b.fresh = a.fresh /\ b.launched = a.launched

Refuses(s, a, t, b) == t = s /\ a.pc = "refused" /\ Ended(b)

Cleans(s, a, t, b) ==
    /\ a.pc = "clean" /\ Goes(a, b, "resolve")
    /\ t.cache = [s.cache EXCEPT ![Dir(a.inv)] = NoCache]
    /\ t.marker = [s.marker EXCEPT ![Dir(a.inv)] = NoMarker]
    /\ t.cc = [s.cc EXCEPT ![Dir(a.inv)] = FALSE]
    /\ t.outputs = [s.outputs EXCEPT ![Dir(a.inv)] = {}]
    /\ t.link = s.link

Resolves(s, a, t, b) ==
    /\ t = s
    /\ a.pc = "resolve" /\ b.pc = "decide" /\ b.prov = Provider(a.inv, tree)
    /\ b.inv = a.inv /\ b.unset = a.unset /\ b.fresh = a.fresh /\ b.launched = a.launched

Decides(s, a, t, b) ==
    /\ t = s
    /\ a.pc = "decide"
    /\ \/ Goes(a, b, "unset")
       \/ /\ s.cache[Dir(a.inv)].made
          /\ s.marker[Dir(a.inv)].made
          /\ s.marker[Dir(a.inv)] = Resolved(a.inv, a.prov)
          /\ Goes(a, b, "link")

ReadsDropped(s, a, t, b) ==
    /\ t = s
    /\ a.pc = "unset" /\ b.pc = "configure"
    /\ b.unset = Dropped(s.marker[Dir(a.inv)], a.inv)
    /\ b.inv = a.inv /\ b.prov = a.prov /\ b.fresh = a.fresh /\ b.launched = a.launched

AfterConfigure(s, a) ==
    [s.cache EXCEPT ![Dir(a.inv)] = Configured(s.cache[Dir(a.inv)], a.inv, a.prov, a.unset)]

Configures(s, a, t, b) ==
    /\ a.pc = "configure" /\ Goes(a, b, "mark")
    /\ t.cache = AfterConfigure(s, a)
    /\ t.cc = [s.cc EXCEPT ![Dir(a.inv)] = TRUE]
    /\ t.marker = s.marker /\ t.outputs = s.outputs /\ t.link = s.link

FailsToConfigure(s, a, t, b) ==
    /\ a.pc = "configure" /\ Ended(b)
    /\ \/ t.cache = s.cache
       \/ "fail_saves" \in Mishaps /\ t.cache = AfterConfigure(s, a)
    /\ t.marker = s.marker /\ t.cc = s.cc /\ t.outputs = s.outputs /\ t.link = s.link

OpensMarker(s, a, t, b) ==
    /\ a.pc = "mark" /\ Goes(a, b, "write")
    /\ t.marker = [s.marker EXCEPT ![Dir(a.inv)] = Torn(a.inv, 0)]
    /\ t.cache = s.cache /\ t.cc = s.cc /\ t.outputs = s.outputs /\ t.link = s.link

MissesMarker(s, a, t, b) ==
    /\ "unopened" \in Mishaps
    /\ t = s
    /\ a.pc = "mark" /\ Goes(a, b, "link")

WritesMarker(s, a, t, b) ==
    /\ a.pc = "write" /\ Goes(a, b, "link")
    /\ \/ t.marker = [s.marker EXCEPT ![Dir(a.inv)] = Resolved(a.inv, a.prov)]
       \/ \E n \in 0..Len(KeySeq) : t.marker = [s.marker EXCEPT ![Dir(a.inv)] = Torn(a.inv, n)]
    /\ t.cache = s.cache /\ t.cc = s.cc /\ t.outputs = s.outputs /\ t.link = s.link

\* The link of disk s leads to a file.
Leads(s) ==
    s.link = UserFile \/ (s.link \in Texts /\ s.link.via # "relative" /\ s.cc[s.link.dir])

LooksAtLink(s, a, t, b) ==
    /\ t = s
    /\ a.pc = "link"
    /\ \/ Goes(a, b, "unlink")
       \/ /\ a.inv.type = "Debug" => s.link = Text(a.inv) \/ Leads(s)
          /\ Goes(a, b, "build")

ChangesLink(s, a, t, b) ==
    /\ \/ /\ a.pc = "unlink" /\ Goes(a, b, "relink")
          /\ t.link = NoLink \/ ("link_fails" \in Mishaps /\ t.link = s.link)
       \/ /\ a.pc = "relink" /\ Goes(a, b, "build")
          /\ \/ s.link = NoLink /\ t.link = Text(a.inv)
             \/ (s.link # NoLink \/ "link_fails" \in Mishaps) /\ t.link = s.link
    /\ t.cache = s.cache /\ t.marker = s.marker /\ t.cc = s.cc /\ t.outputs = s.outputs

\* `cmake --build`, and what `baldr run` goes on to do.
Builds(s, a, t, b) ==
    /\ a.pc \in {"build", "resolve_exe", "running"}
    /\ t.cache = s.cache /\ t.marker = s.marker /\ t.cc = s.cc /\ t.link = s.link
    /\ \/ t.outputs = s.outputs
       \/ t.outputs = [s.outputs EXCEPT ![Dir(a.inv)] = @ \cup {tree.place}]
    /\ \/ Ended(b)
       \/ /\ b.pc \in {"resolve_exe", "running"}
          /\ b.inv = a.inv /\ b.prov = a.prov /\ b.unset = a.unset
          /\ b.fresh \in {a.fresh, tree.place}
          /\ b.launched = a.launched \/ b.launched \in s.outputs[Dir(a.inv)]

Moves(s, a, t, b) ==
    \/ Invokes(s, a, t, b) \/ Refuses(s, a, t, b)
    \/ Cleans(s, a, t, b) \/ Resolves(s, a, t, b)
    \/ Decides(s, a, t, b) \/ ReadsDropped(s, a, t, b)
    \/ Configures(s, a, t, b) \/ FailsToConfigure(s, a, t, b)
    \/ OpensMarker(s, a, t, b) \/ MissesMarker(s, a, t, b) \/ WritesMarker(s, a, t, b)
    \/ LooksAtLink(s, a, t, b) \/ ChangesLink(s, a, t, b) \/ Builds(s, a, t, b)

\* A step of process a beside process c, with the cut markers it leaves.
Cut(t, b, c, d) ==
    /\ t.marker[d].made /\ ~t.marker[d].whole
    /\ ~(b.pc = "write" /\ Dir(b.inv) = d) /\ ~(c.pc = "write" /\ Dir(c.inv) = d)

StepBeside(s, a, t, b, c, cuts, left) ==
    /\ Moves(s, a, t, b)
    /\ a.pc = "idle" => Beside(b.inv, c.pc, c.inv)
    /\ left = {d \in Dirs : t.marker[d].made /\ (d \in cuts \/ Cut(t, b, c, d))}

-----------------------------------------------------------------------------
(* The inductive invariants. *)

DiskTyped(s) ==
    /\ s.cache \in [Dirs -> Caches]
    /\ s.marker \in [Dirs -> Markers]
    /\ s.cc \in [Dirs -> BOOLEAN]
    /\ s.outputs \in [Dirs -> SUBSET Places]
    /\ s.link \in Texts \cup {NoLink, UserFile}

Typed(a) ==
    /\ a.pc \in Steps
    /\ a.inv \in IF a.pc = "idle" THEN {NoRequest} ELSE Requests
    /\ a.pc \notin {"idle", "refused"} => a.inv.type \in KnownTypes
    /\ a.prov \in Providers \cup {Absent}
    /\ a.unset \in SUBSET Keys
    /\ a.fresh \in Places \cup {Absent}
    /\ a.launched \in Places \cup {Absent}

\* Two that work in one directory ask for the same, and neither cleans it.
Apart(a, b) ==
    /\ a.pc = "clean" => a.inv.clean
    /\ b.pc = "clean" => b.inv.clean
    /\ a.pc # "idle" /\ b.pc # "idle" /\ Dir(a.inv) = Dir(b.inv) =>
          /\ ~a.inv.clean /\ ~b.inv.clean
          /\ a.inv.type = b.inv.type /\ a.inv.defs = b.inv.defs /\ a.inv.env = b.inv.env

Ready(a) == a.pc \in {"mark", "write"} \cup Settled

\* Cache c has what r and p ask for, and perhaps more.
Fits(c, r, p) ==
    /\ c.made
    /\ AsksFor(c, r, p)
    /\ c.env = r.env

\* What a process has found out or done still holds of the disk.
Sound(s, a, cuts) ==
    LET d == Dir(a.inv) IN
    /\ a.pc \notin {"idle", "refused", "clean", "resolve"} => a.prov = Provider(a.inv, tree)
    /\ a.pc = "configure" /\ d \notin cuts =>
           \A k \in PlainKeys :
              a.inv.defs[k] = Absent /\ k \notin a.unset => s.cache[d].vars[k] = Absent
    /\ Ready(a) => Fits(s.cache[d], a.inv, a.prov)
    /\ Ready(a) /\ d \notin cuts => NothingElse(s.cache[d], a.inv)

\* The marker of a directory tells what its cache holds, but for the time in
\* which one of the processes has configured and not written it.
Told(s, a, b, cuts, d) ==
    LET Within(step) == (a.pc = step /\ Dir(a.inv) = d) \/ (b.pc = step /\ Dir(b.inv) = d)
    IN  /\ d \in cuts => s.marker[d].made
        /\ ~s.marker[d].made => s.cache[d] = NoCache \/ Within("mark")
        /\ s.marker[d].made /\ s.marker[d].whole =>
              \/ Within("mark")
              \/ \E r \in Accepted, p \in Providers \cup {Absent} :
                    /\ Dir(r) = d /\ s.marker[d] = Resolved(r, p)
                    /\ Fits(s.cache[d], r, p)
                    /\ d \notin cuts => NothingElse(s.cache[d], r)
        /\ s.marker[d].made /\ ~s.marker[d].whole => d \in cuts \/ Within("write")

Agreed(s, a, b, cuts) ==
    /\ Apart(a, b)
    /\ Sound(s, a, cuts) /\ Sound(s, b, cuts)
    /\ \A d \in Dirs : Told(s, a, b, cuts, d)

\* A build whose process is past link_compile_commands, or about to create it.
PastLook(a) == a.pc \in {"relink", "build"} /\ a.inv.type = "Debug"

\* The link is the one a would write itself, with a relative path in it.
AsGiven(s, a) == a.inv.path = "relative" /\ s.link = Text(a.inv)

Linked(s, a, b) ==
    /\ Apart(a, b)
    /\ \A d \in Dirs : s.cache[d].made => s.cc[d]
    /\ Ready(a) => s.cache[Dir(a.inv)].made
    /\ Ready(b) => s.cache[Dir(b.inv)].made
    /\ PastLook(a) /\ PastLook(b) =>
          IF s.link = NoLink
          THEN "relink" \in {a.pc, b.pc}
          ELSE Leads(s) \/ AsGiven(s, a) \/ AsGiven(s, b)

-----------------------------------------------------------------------------
(* The steps of the two processes, as such steps. *)

\* The other process's operators are this one's.
LEMMA SameOperators ==
    /\ \A r : Other!Dir(r) = Dir(r)
    /\ \A r : Other!Text(r) = Text(r)
    /\ Other!Texts = Texts
    /\ \A r, t : Other!Provider(r, t) = Provider(r, t)
    /\ \A r, p : Other!Resolved(r, p) = Resolved(r, p)
    /\ \A r, n : Other!Torn(r, n) = Torn(r, n)
    /\ \A m, r : Other!Dropped(m, r) = Dropped(m, r)
    /\ \A c, r, p, names : Other!Configured(c, r, p, names) = Configured(c, r, p, names)
    /\ Other!NoCache = NoCache
    /\ Other!NoMarker = NoMarker
    /\ Other!NoRequest = NoRequest
<1> USE DEF Other!Keys, Keys, Other!CacheKeys, CacheKeys
<1>1. \A r : Other!Dir(r) = Dir(r)
  BY DEF Other!Dir, Dir
<1>9. (\A r : Other!Text(r) = Text(r)) /\ Other!Texts = Texts
  BY <1>1 DEF Other!Text, Text, Other!Texts, Texts, Other!Paths, Paths
<1>2. \A r, t : Other!Provider(r, t) = Provider(r, t)
  BY DEF Other!Provider, Provider
<1>3. \A r, p : Other!Resolved(r, p) = Resolved(r, p)
  BY DEF Other!Resolved, Resolved
<1>4. \A r, n : Other!Torn(r, n) = Torn(r, n)
  BY DEF Other!Torn, Torn
<1>5. \A m, r : Other!Dropped(m, r) = Dropped(m, r)
  BY DEF Other!Dropped, Dropped
<1>6. \A r, p : Other!Wanted(r, p) = Wanted(r, p)
  BY DEF Other!Wanted, Wanted
<1>7. \A c, r, p, names : Other!Configured(c, r, p, names) = Configured(c, r, p, names)
  BY <1>6 DEF Other!Configured, Configured
<1>8. Other!NoCache = NoCache /\ Other!NoMarker = NoMarker /\ Other!NoRequest = NoRequest
  BY DEF Other!NoCache, NoCache, Other!NoMarker, NoMarker, Other!NoRequest, NoRequest
<1> QED
  BY <1>1, <1>2, <1>3, <1>4, <1>5, <1>7, <1>8, <1>9

LEMMA MineMoves ==
    ASSUME Mine
    PROVE  Moves(Disk, This, Disk', This') /\ That' = That
           /\ (pc = "idle" => Beside(inv', pc2, inv2))
<1>1. That' = That
  BY DEF Mine, others, That
<1>2. ASSUME NEW r \in Requests, Beside(r, pc2, inv2), Invoke(r)
      PROVE  Invokes(Disk, This, Disk', This') /\ Beside(inv', pc2, inv2)
  BY <1>2 DEF Invoke, Invokes, Disk, This, disk
<1>16. Refuse => Refuses(Disk, This, Disk', This') /\ pc # "idle"
  BY DEF Refuse, Refuses, End, Ended, Disk, This, disk
<1>17. MarkerUnopened => MissesMarker(Disk, This, Disk', This') /\ pc # "idle"
  BY DEF MarkerUnopened, MissesMarker, Goes, Disk, This, disk, locals
<1>3. Clean => Cleans(Disk, This, Disk', This') /\ pc # "idle"
  BY DEF Clean, Cleans, Goes, Disk, This, locals, D
<1>4. Resolve => Resolves(Disk, This, Disk', This') /\ pc # "idle"
  BY DEF Resolve, Resolves, Disk, This, disk
<1>5. Decide => Decides(Disk, This, Disk', This') /\ pc # "idle"
  BY DEF Decide, Decides, NeedsConfigure, Goes, Disk, This, disk, locals, D
<1>6. ReadDropped => ReadsDropped(Disk, This, Disk', This') /\ pc # "idle"
  BY DEF ReadDropped, ReadsDropped, Disk, This, disk, D
<1>7. ConfigureSucceeds => Configures(Disk, This, Disk', This') /\ pc # "idle"
  BY DEF ConfigureSucceeds, Configures, AfterConfigure, Goes, Disk, This, locals, D
<1>8. ConfigureFails => FailsToConfigure(Disk, This, Disk', This') /\ pc # "idle"
  BY
     DEF ConfigureFails, FailsToConfigure, AfterConfigure, CacheLeftOver, End, Ended, Disk, This,
         D
<1>9. OpenMarker => OpensMarker(Disk, This, Disk', This') /\ pc # "idle"
  BY DEF OpenMarker, OpensMarker, Goes, Disk, This, locals, D
<1>10. WriteMarker => WritesMarker(Disk, This, Disk', This') /\ pc # "idle"
  BY DEF WriteMarker, WritesMarker, Goes, Disk, This, locals, D
<1>11. LinkCompileCommands => LooksAtLink(Disk, This, Disk', This') /\ pc # "idle"
  BY DEF LinkCompileCommands, LooksAtLink, LinkExists, Followed, Leads, Goes, Disk, This, disk, locals
<1>12. RemoveLink \/ CreateLink => ChangesLink(Disk, This, Disk', This') /\ pc # "idle"
  BY DEF RemoveLink, CreateLink, ChangesLink, Goes, Disk, This, locals, D
<1>13. BuildSucceeds \/ BuildFails => Builds(Disk, This, Disk', This') /\ pc # "idle"
  BY DEF BuildSucceeds, BuildFails, Builds, End, Ended, Disk, This, D
<1>14. ResolveExecutable => Builds(Disk, This, Disk', This') /\ pc # "idle"
  <2>1. Cardinality(outputs[D]) = 1 => outputs[D] # {}
    BY FS_EmptySet
  <2> QED
    BY <2>1 DEF ResolveExecutable, Found, Builds, End, Ended, Disk, This, disk, D
<1>15. TargetExits => Builds(Disk, This, Disk', This') /\ pc # "idle"
  BY DEF TargetExits, Builds, End, Ended, Disk, This, disk
<1> QED
  BY <1>1, <1>2, <1>3, <1>4, <1>5, <1>6, <1>7, <1>8, <1>9, <1>10, <1>11, <1>12, <1>13, <1>14, <1>15,
     <1>16, <1>17 DEF Mine, Advance, Moves

LEMMA OthersMove ==
    ASSUME Others
    PROVE  Moves(Disk, That, Disk', That') /\ This' = This
           /\ (pc2 = "idle" => Beside(inv2', pc, inv))
<1>1. This' = This
  BY DEF Others, mine, locals, This
<1>2. ASSUME NEW r \in Requests, Beside(r, pc, inv), Other!Invoke(r)
      PROVE  Invokes(Disk, That, Disk', That') /\ Beside(inv2', pc, inv)
  BY <1>2, SameOperators DEF Other!Invoke, Invokes, Disk, That, Other!disk
<1>16. Other!Refuse => Refuses(Disk, That, Disk', That') /\ pc2 # "idle"
  BY SameOperators DEF Other!Refuse, Refuses, Other!End, Ended, Disk, That, Other!disk
<1>17. Other!MarkerUnopened => MissesMarker(Disk, That, Disk', That') /\ pc2 # "idle"
  BY DEF Other!MarkerUnopened, MissesMarker, Goes, Disk, That, Other!disk, Other!locals
<1>3. Other!Clean => Cleans(Disk, That, Disk', That') /\ pc2 # "idle"
  BY SameOperators DEF Other!Clean, Cleans, Goes, Disk, That, Other!locals, Other!D
<1>4. Other!Resolve => Resolves(Disk, That, Disk', That') /\ pc2 # "idle"
  BY SameOperators DEF Other!Resolve, Resolves, Disk, That, Other!disk
<1>5. Other!Decide => Decides(Disk, That, Disk', That') /\ pc2 # "idle"
  BY SameOperators
     DEF Other!Decide, Decides, Other!NeedsConfigure, Goes, Disk, That, Other!disk, Other!locals,
         Other!D
<1>6. Other!ReadDropped => ReadsDropped(Disk, That, Disk', That') /\ pc2 # "idle"
  BY SameOperators DEF Other!ReadDropped, ReadsDropped, Disk, That, Other!disk, Other!D
<1>7. Other!ConfigureSucceeds => Configures(Disk, That, Disk', That') /\ pc2 # "idle"
  BY SameOperators
     DEF Other!ConfigureSucceeds, Configures, AfterConfigure, Goes, Disk, That, Other!locals,
         Other!D
<1>8. Other!ConfigureFails => FailsToConfigure(Disk, That, Disk', That') /\ pc2 # "idle"
  BY SameOperators
     DEF Other!ConfigureFails, FailsToConfigure, AfterConfigure, Other!CacheLeftOver, Other!End,
         Ended, Disk, That, Other!D
<1>9. Other!OpenMarker => OpensMarker(Disk, That, Disk', That') /\ pc2 # "idle"
  BY SameOperators DEF Other!OpenMarker, OpensMarker, Goes, Disk, That, Other!locals, Other!D
<1>10. Other!WriteMarker => WritesMarker(Disk, That, Disk', That') /\ pc2 # "idle"
  BY SameOperators DEF Other!WriteMarker, WritesMarker, Goes, Disk, That, Other!locals, Other!D
<1>11. Other!LinkCompileCommands => LooksAtLink(Disk, That, Disk', That') /\ pc2 # "idle"
  BY SameOperators
     DEF Other!LinkCompileCommands, LooksAtLink, Other!LinkExists, Other!Followed, Leads, Goes,
         Disk, That, Other!disk, Other!locals
<1>12. Other!RemoveLink \/ Other!CreateLink => ChangesLink(Disk, That, Disk', That') /\ pc2 # "idle"
  BY SameOperators
     DEF Other!RemoveLink, Other!CreateLink, ChangesLink, Goes, Disk, That, Other!locals, Other!D
<1>13. Other!BuildSucceeds \/ Other!BuildFails => Builds(Disk, That, Disk', That') /\ pc2 # "idle"
  BY SameOperators
     DEF Other!BuildSucceeds, Other!BuildFails, Builds, Other!End, Ended, Disk, That, Other!D
<1>14. Other!ResolveExecutable => Builds(Disk, That, Disk', That') /\ pc2 # "idle"
  <2>1. \A S : Other!Cardinality(S) = Cardinality(S)
    BY DEF Other!Cardinality, Cardinality
  <2>2. Cardinality(outputs[Other!D]) = 1 => outputs[Other!D] # {}
    BY FS_EmptySet
  <2> QED
    BY <2>1, <2>2, SameOperators
       DEF Other!ResolveExecutable, Other!Found, Builds, Other!End, Ended, Disk, That,
           Other!disk, Other!D
<1>15. Other!TargetExits => Builds(Disk, That, Disk', That') /\ pc2 # "idle"
  BY SameOperators DEF Other!TargetExits, Builds, Other!End, Ended, Disk, That, Other!disk
<1> QED
  BY <1>1, <1>2, <1>3, <1>4, <1>5, <1>6, <1>7, <1>8, <1>9, <1>10, <1>11, <1>12, <1>13, <1>14, <1>15,
     <1>16, <1>17 DEF Others, Other!Advance, Moves

-----------------------------------------------------------------------------
(* Type correctness. *)

LEMMA MovesTyped ==
    ASSUME tree \in Trees, NEW s, NEW a, NEW t, NEW b,
           DiskTyped(s), Typed(a), Moves(s, a, t, b)
    PROVE  DiskTyped(t) /\ Typed(b)
<1> DEFINE d == Dir(a.inv)
<1> USE DEF DiskTyped, Typed
<1>r. a.pc # "idle" => a.inv \in Requests /\ d \in Dirs
  BY RequestFacts
<1>p. tree.place \in Places
  BY BuildDirAssumption DEF AllTrees
<1>c. a.pc # "idle" => AfterConfigure(s, a) \in [Dirs -> Caches]
  BY <1>r, ConfiguredType DEF AfterConfigure
<1>e. Ended(b) => Typed(b)
  BY DEF Ended, Steps
<1>g. ASSUME NEW step \in Steps \ {"idle"}, a.pc \notin {"idle", "refused"}, Goes(a, b, step)
      PROVE  Typed(b)
  BY <1>g DEF Goes
<1>1. CASE Invokes(s, a, t, b)
  BY <1>1 DEF Invokes, Steps
<1>13. CASE Refuses(s, a, t, b)
  BY <1>13, <1>e DEF Refuses
<1>14. CASE MissesMarker(s, a, t, b)
  BY <1>14, <1>g DEF MissesMarker, Steps
<1>2. CASE Cleans(s, a, t, b)
  <2>1. Typed(b)
    BY <1>2, <1>g DEF Cleans, Steps
  <2>2. DiskTyped(t)
    BY <1>2, <1>r, NoCacheType, NoMarkerType DEF Cleans
  <2> QED
    BY <2>1, <2>2
<1>3. CASE Resolves(s, a, t, b)
  BY <1>3, <1>r, ProviderType DEF Resolves, Steps
<1>4. CASE Decides(s, a, t, b)
  BY <1>4, <1>g DEF Decides, Steps
<1>5. CASE ReadsDropped(s, a, t, b)
  BY <1>5 DEF ReadsDropped, Dropped, Steps
<1>6. CASE Configures(s, a, t, b)
  <2>1. Typed(b)
    BY <1>6, <1>g DEF Configures, Steps
  <2>2. DiskTyped(t)
    BY <1>6, <1>r, <1>c DEF Configures
  <2> QED
    BY <2>1, <2>2
<1>7. CASE FailsToConfigure(s, a, t, b)
  BY <1>7, <1>c, <1>e DEF FailsToConfigure
<1>8. CASE OpensMarker(s, a, t, b)
  <2>1. Typed(b)
    BY <1>8, <1>g DEF OpensMarker, Steps
  <2>2. Torn(a.inv, 0) \in Markers
    BY <1>8, <1>r, TornType, BuildDirAssumption DEF OpensMarker
  <2>3. DiskTyped(t)
    BY <1>8, <1>r, <2>2 DEF OpensMarker
  <2> QED
    BY <2>1, <2>3
<1>9. CASE WritesMarker(s, a, t, b)
  <2>1. Typed(b)
    BY <1>9, <1>g DEF WritesMarker, Steps
  <2>2. /\ Resolved(a.inv, a.prov) \in Markers
        /\ \A n \in 0..Len(KeySeq) : Torn(a.inv, n) \in Markers
    BY <1>9, <1>r, TornType, ResolvedType DEF WritesMarker
  <2>3. DiskTyped(t)
    BY <1>9, <1>r, <2>2 DEF WritesMarker
  <2> QED
    BY <2>1, <2>3
<1>10. CASE LooksAtLink(s, a, t, b)
  BY <1>10, <1>g DEF LooksAtLink, Steps
<1>11. CASE ChangesLink(s, a, t, b)
  <2>1. Typed(b)
    BY <1>11, <1>g DEF ChangesLink, Steps
  <2>2. Text(a.inv) \in Texts
    BY <1>11, <1>r, RequestFacts DEF ChangesLink, Text, Texts
  <2>3. t.link \in Texts \cup {NoLink, UserFile}
    BY <1>11, <2>2 DEF ChangesLink
  <2>4. DiskTyped(t)
    BY <1>11, <2>3 DEF ChangesLink
  <2> QED
    BY <2>1, <2>4
<1>12. CASE Builds(s, a, t, b)
  <2>1. DiskTyped(t)
    BY <1>12, <1>r, <1>p DEF Builds
  <2>2. Typed(b)
    BY <1>12, <1>r, <1>p, <1>e DEF Builds, Steps
  <2> QED
    BY <2>1, <2>2
<1> QED
  BY <1>1, <1>2, <1>3, <1>4, <1>5, <1>6, <1>7, <1>8, <1>9, <1>10, <1>11, <1>12,
     <1>13, <1>14 DEF Moves

BothTyped == tree \in Trees /\ DiskTyped(Disk) /\ Typed(This) /\ Typed(That) /\ cut \in SUBSET Dirs

LEMMA TypedMeans == TwoTypeOK <=> BothTyped
<1>1. Other!TypeOK <=> tree \in Trees /\ DiskTyped(Disk) /\ Typed(That)
  BY SameOperators
     DEF Other!TypeOK, Other!Caches, Caches, Other!Markers, Markers, Other!CacheKeys, CacheKeys,
         Other!Keys, Keys, Other!CacheValues, CacheValues, Other!Providers, Providers,
         Other!Defines, Defines, Other!Steps, Steps, DiskTyped, Typed, Disk, That
<1>2. TypeOK <=> tree \in Trees /\ DiskTyped(Disk) /\ Typed(This)
  BY DEF TypeOK, DiskTyped, Typed, Disk, This
<1> QED
  BY <1>1, <1>2 DEF TwoTypeOK, BothTyped

\* In each step one of the processes moves beside the other, or nothing does.
LEMMA OneMoves ==
    ASSUME [TwoNext]_allVars
    PROVE  /\ tree' = tree
           /\ \/ StepBeside(Disk, This, Disk', This', That, cut, cut') /\ That' = That
              \/ StepBeside(Disk, That, Disk', That', This, cut, cut') /\ This' = This
              \/ UNCHANGED <<Disk, This, That, cut>>
<1>1. CASE Mine /\ cut' = {d \in Dirs : marker'[d].made /\ (d \in cut \/ Cuts(d)')}
  <2>1. Moves(Disk, This, Disk', This') /\ That' = That /\ (pc = "idle" => Beside(inv', pc2, inv2))
    BY <1>1, MineMoves
  <2>2. tree' = tree
    BY <1>1 DEF Mine, Invoke, Advance, Refuse, MarkerUnopened, Clean, Resolve, Decide, ReadDropped,
                ConfigureSucceeds, ConfigureFails, OpenMarker, WriteMarker,
                LinkCompileCommands, RemoveLink, CreateLink, BuildSucceeds, BuildFails,
                ResolveExecutable, TargetExits
  <2>3. \A d : Cuts(d)' <=> Cut(Disk', This', That, d)
    BY <2>1, SameOperators DEF Cuts, Cut, Disk, This, That, D, Other!D, Dir, Other!Dir
  <2> QED
    BY <1>1, <2>1, <2>2, <2>3 DEF StepBeside, Disk, This, That
<1>2. CASE Others /\ cut' = {d \in Dirs : marker'[d].made /\ (d \in cut \/ Cuts(d)')}
  <2>1. Moves(Disk, That, Disk', That') /\ This' = This /\ (pc2 = "idle" => Beside(inv2', pc, inv))
    BY <1>2, OthersMove
  <2>2. tree' = tree
    BY <1>2 DEF Others, Other!Invoke, Other!Advance, Other!Refuse, Other!MarkerUnopened,
                Other!Clean, Other!Resolve, Other!Decide,
                Other!ReadDropped, Other!ConfigureSucceeds, Other!ConfigureFails,
                Other!OpenMarker, Other!WriteMarker, Other!LinkCompileCommands,
                Other!RemoveLink, Other!CreateLink, Other!BuildSucceeds, Other!BuildFails,
                Other!ResolveExecutable, Other!TargetExits
  <2>3. \A d : Cuts(d)' <=> Cut(Disk', That', This, d)
    BY <2>1, SameOperators DEF Cuts, Cut, Disk, This, That, D, Other!D, Dir, Other!Dir
  <2> QED
    BY <1>2, <2>1, <2>2, <2>3 DEF StepBeside, Disk, This, That
<1>3. CASE UNCHANGED allVars
  BY <1>3 DEF allVars, vars, others, Disk, This, That
<1> QED
  BY <1>1, <1>2, <1>3 DEF TwoNext

LEMMA BothTypedStep == BothTyped /\ [TwoNext]_allVars => BothTyped'
<1> SUFFICES ASSUME BothTyped, [TwoNext]_allVars PROVE BothTyped'
  OBVIOUS
<1>1. CASE StepBeside(Disk, This, Disk', This', That, cut, cut') /\ That' = That
  BY <1>1, OneMoves, MovesTyped DEF StepBeside, BothTyped
<1>2. CASE StepBeside(Disk, That, Disk', That', This, cut, cut') /\ This' = This
  BY <1>2, OneMoves, MovesTyped DEF StepBeside, BothTyped
<1>3. CASE UNCHANGED <<Disk, This, That, cut>>
  BY <1>3, OneMoves DEF BothTyped
<1> QED
  BY <1>1, <1>2, <1>3, OneMoves

LEMMA BothTypedInvariant == TwoSpec => []BothTyped
<1>1. TwoInit => BothTyped
  <2> SUFFICES ASSUME TwoInit PROVE BothTyped
    OBVIOUS
  <2>1. Typed(This) /\ DiskTyped(Disk) /\ tree \in Trees
    BY NoCacheType, NoMarkerType DEF TwoInit, Init, Typed, DiskTyped, This, Disk, Steps
  <2>2. Typed(That)
    BY SameOperators DEF TwoInit, Other!Init, Typed, That, Steps
  <2> QED
    BY <2>1, <2>2 DEF BothTyped, TwoInit
<1> QED
  BY <1>1, BothTypedStep, PTL DEF TwoSpec

\* With two processes at work on one disk, each variable keeps its type.
THEOREM TwoTypeCorrect == TwoSpec => []TwoTypeOK
BY BothTypedInvariant, TypedMeans, PTL

-----------------------------------------------------------------------------
(* What a build is made with. *)

LEMMA ApartStep ==
    ASSUME NEW s, NEW a, NEW t, NEW b, NEW c, NEW cuts, NEW left,
           Typed(c), StepBeside(s, a, t, b, c, cuts, left), Apart(a, c)
    PROVE  Apart(b, c)
<1>1. CASE a.pc = "idle"
  <2>1. Invokes(s, a, t, b) /\ Beside(b.inv, c.pc, c.inv)
    BY <1>1 DEF StepBeside, Moves, Cleans, Resolves, Decides, ReadsDropped, Configures, Refuses,
                FailsToConfigure, OpensMarker, MissesMarker, WritesMarker, LooksAtLink,
                ChangesLink, Builds
  <2>2. c.pc # "idle" /\ Dir(b.inv) = Dir(c.inv) =>
           ~b.inv.clean /\ b.inv = [c.inv EXCEPT !.run = b.inv.run, !.path = b.inv.path]
    BY <2>1 DEF Beside
  <2>3. c.pc # "idle" => c.inv \in AllRequests
    BY RequestFacts DEF Typed
  <2>4. c.pc # "idle" /\ Dir(b.inv) = Dir(c.inv) =>
           /\ ~b.inv.clean /\ ~c.inv.clean
           /\ b.inv.type = c.inv.type /\ b.inv.defs = c.inv.defs /\ b.inv.env = c.inv.env
    BY <2>2, <2>3 DEF AllRequests
  <2> QED
    BY <1>1, <2>1, <2>4 DEF Apart, Invokes
<1>2. CASE a.pc # "idle"
  <2>1. \/ b.inv = a.inv /\ b.pc # "clean"
        \/ b.pc = "idle"
    BY <1>2 DEF StepBeside, Moves, Invokes, Cleans, Resolves, Decides, ReadsDropped, Configures, Refuses,
                FailsToConfigure, OpensMarker, MissesMarker, WritesMarker, LooksAtLink,
                ChangesLink, Builds, Goes, Ended
  <2> QED
    BY <1>2, <2>1 DEF Apart
<1> QED
  BY <1>1, <1>2

\* A cache is to its request what it is to one with the same settings.
LEMMA SameSettings ==
    ASSUME NEW c, NEW r, NEW q, NEW p, r.type = q.type, r.defs = q.defs, r.env = q.env
    PROVE  /\ Provider(r, tree) = Provider(q, tree)
           /\ Wanted(r, p) = Wanted(q, p)
           /\ Fits(c, r, p) <=> Fits(c, q, p)
           /\ NothingElse(c, r) <=> NothingElse(c, q)
<1>1. Wanted(r, p) = Wanted(q, p)
  BY DEF Wanted
<1> QED
  BY <1>1 DEF Provider, Fits, AsksFor, NothingElse

\* CMake takes over what it is asked for, and keeps no more than it had.
LEMMA ConfiguredFits ==
    ASSUME NEW old, NEW r, NEW p, NEW names
    PROVE  /\ Fits(Configured(old, r, p, names), r, p)
           /\ \A k \in PlainKeys : r.defs[k] = Absent /\ (k \in names \/ old.vars[k] = Absent)
                 => Configured(old, r, p, names).vars[k] = Absent
<1>1. \A k \in PlainKeys : k \in CacheKeys /\ (r.defs[k] = Absent => Wanted(r, p)[k] = Absent)
  BY KeyFacts DEF Wanted, PlainKeys
<1> QED
  BY <1>1 DEF Fits, AsksFor, Configured

\* What Decide finds in a marker it trusts is what the cache holds.
LEMMA TrustedMarker ==
    ASSUME OneTypePerDir, NEW s, NEW a, NEW c, NEW cuts,
           Typed(a), Typed(c), Agreed(s, a, c, cuts), a.pc = "decide",
           s.marker[Dir(a.inv)].made, s.marker[Dir(a.inv)] = Resolved(a.inv, a.prov)
    PROVE  /\ Fits(s.cache[Dir(a.inv)], a.inv, a.prov)
           /\ Dir(a.inv) \notin cuts => NothingElse(s.cache[Dir(a.inv)], a.inv)
<1> DEFINE d == Dir(a.inv)
<1>1. a.inv \in Requests /\ a.inv \in Accepted /\ d \in Dirs
  BY RequestFacts DEF Typed, Accepted
<1>2. s.marker[d].whole
  BY DEF Resolved
<1>3. CASE c.pc = "mark" /\ Dir(c.inv) = d
  <2>1. a.inv.type = c.inv.type /\ a.inv.defs = c.inv.defs /\ a.inv.env = c.inv.env
    BY <1>3 DEF Agreed, Apart
  <2>2. /\ a.prov = Provider(a.inv, tree) /\ c.prov = Provider(c.inv, tree)
        /\ Fits(s.cache[d], c.inv, c.prov)
        /\ d \notin cuts => NothingElse(s.cache[d], c.inv)
    BY <1>3 DEF Agreed, Sound, Ready
  <2> QED
    BY <2>1, <2>2, SameSettings
<1>4. CASE ~(c.pc = "mark" /\ Dir(c.inv) = d)
  <2>1. PICK r \in Accepted, p \in Providers \cup {Absent} :
           /\ Dir(r) = d /\ s.marker[d] = Resolved(r, p)
           /\ Fits(s.cache[d], r, p)
           /\ d \notin cuts => NothingElse(s.cache[d], r)
    BY <1>1, <1>2, <1>4 DEF Agreed, Told
  <2>2. r.type = a.inv.type /\ r.defs = a.inv.defs /\ r.env = a.inv.env /\ p = a.prov
    BY <1>1, <2>1 DEF OneTypePerDir, Resolved
  <2> QED
    BY <2>1, <2>2, SameSettings
<1> QED
  BY <1>3, <1>4

\* What ReadDropped finds in the marker is what the cache has and the request
\* does not, unless the marker had been cut short.
LEMMA TrustedNames ==
    ASSUME NEW s, NEW a, NEW c, NEW cuts,
           Typed(a), Typed(c), Agreed(s, a, c, cuts), a.pc = "unset", Dir(a.inv) \notin cuts,
           NEW k \in PlainKeys, a.inv.defs[k] = Absent,
           k \notin Dropped(s.marker[Dir(a.inv)], a.inv)
    PROVE  s.cache[Dir(a.inv)].vars[k] = Absent
<1> DEFINE d == Dir(a.inv)
<1>1. a.inv \in Requests /\ d \in Dirs /\ k \in Keys /\ k \in CacheKeys
  BY RequestFacts, KeyFacts DEF Typed, PlainKeys
<1>2. s.marker[d].defs[k] = Absent
  BY <1>1 DEF Dropped
<1>3. CASE c.pc \in {"mark", "write"} /\ Dir(c.inv) = d
  <2>1. a.inv.defs = c.inv.defs
    BY <1>3 DEF Agreed, Apart
  <2>2. NothingElse(s.cache[d], c.inv)
    BY <1>3 DEF Agreed, Sound, Ready
  <2> QED
    BY <2>1, <2>2 DEF NothingElse, PlainKeys
<1>4. CASE ~(c.pc \in {"mark", "write"} /\ Dir(c.inv) = d)
  <2>1. CASE ~s.marker[d].made
    BY <1>1, <1>4, <2>1 DEF Agreed, Told, NoCache
  <2>2. CASE s.marker[d].made
    <3>1. PICK r \in Accepted, p \in Providers \cup {Absent} :
             s.marker[d] = Resolved(r, p) /\ NothingElse(s.cache[d], r)
      BY <1>1, <1>4, <2>2 DEF Agreed, Told
    <3>2. r.defs[k] = Absent
      BY <1>2, <3>1 DEF Resolved
    <3> QED
      BY <3>1, <3>2 DEF NothingElse, PlainKeys
  <2> QED
    BY <2>1, <2>2
<1> QED
  BY <1>3, <1>4

LEMMA AgreedStep ==
    ASSUME OneTypePerDir, {"fail_saves", "unopened"} \cap Mishaps = {},
           NEW s, NEW a, NEW t, NEW b, NEW c, NEW cuts, NEW left,
           DiskTyped(s), DiskTyped(t), Typed(a), Typed(b), Typed(c),
           StepBeside(s, a, t, b, c, cuts, left), Agreed(s, a, c, cuts)
    PROVE  Agreed(t, b, c, left)
<1> DEFINE d0 == Dir(a.inv)
<1>a. Apart(b, c)
  BY ApartStep DEF Agreed
<1>r. /\ a.pc # "idle" => a.inv \in Requests /\ d0 \in Dirs
      /\ c.pc # "idle" => c.inv \in Requests /\ Dir(c.inv) \in Dirs
      /\ a.pc \notin {"idle", "refused"} => a.inv \in Accepted
      /\ a.prov \in Providers \cup {Absent}
  BY RequestFacts DEF Typed, Accepted
<1>t. s.cache \in [Dirs -> Caches] /\ s.marker \in [Dirs -> Markers]
  BY DEF DiskTyped
\* The directories with a cut marker: what the step adds to them, and keeps.
<1>l. \A d \in Dirs : /\ d \in left => t.marker[d].made
                      /\ d \in cuts /\ t.marker[d].made => d \in left
                      /\ t.marker[d].made /\ ~t.marker[d].whole
                            => \/ d \in left
                               \/ b.pc = "write" /\ Dir(b.inv) = d
                               \/ c.pc = "write" /\ Dir(c.inv) = d
  BY DEF StepBeside, Cut
<1>m. \A d \in Dirs : d \in cuts => s.marker[d].made
  BY DEF Agreed, Told
\* The other process, where the step does not touch its directory's cache.
<1>c. ASSUME c.pc # "idle" => t.cache[Dir(c.inv)] = s.cache[Dir(c.inv)]
                              /\ (Dir(c.inv) \in cuts => t.marker[Dir(c.inv)].made)
      PROVE  Sound(t, c, left)
  BY <1>c, <1>l, <1>r DEF Agreed, Sound, Ready, Settled
\* A directory whose cache and marker the step does not touch.
<1>d. ASSUME NEW d \in Dirs, t.cache[d] = s.cache[d], t.marker[d] = s.marker[d],
             a.pc = "mark" => d # d0
      PROVE  Told(t, b, c, left, d)
  <2>1. ~t.marker[d].made => t.cache[d] = NoCache \/ (c.pc = "mark" /\ Dir(c.inv) = d)
    BY <1>d DEF Agreed, Told
  <2>2. t.marker[d].made /\ t.marker[d].whole =>
          \/ c.pc = "mark" /\ Dir(c.inv) = d
          \/ \E r \in Accepted, p \in Providers \cup {Absent} :
                /\ Dir(r) = d /\ t.marker[d] = Resolved(r, p)
                /\ Fits(t.cache[d], r, p)
                /\ d \notin left => NothingElse(t.cache[d], r)
    BY <1>d, <1>l DEF Agreed, Told
  <2> QED
    BY <1>l, <2>1, <2>2 DEF Told
<1>q. ASSUME t.cache = s.cache, t.marker = s.marker, a.pc # "mark"
      PROVE  Sound(t, c, left) /\ \A d \in Dirs : Told(t, b, c, left, d)
  BY <1>q, <1>c, <1>d, <1>m, <1>r
\* The moving process itself, where it stays as it was or has nothing to hold on to.
<1>s. ASSUME t.cache = s.cache, d0 \in cuts => t.marker[d0].made,
             b.inv = a.inv, b.prov = a.prov, Ready(a), Ready(b)
      PROVE  Sound(t, b, left)
  BY <1>s, <1>l, <1>r DEF Agreed, Sound, Ready, Settled
<1>n. ASSUME b.pc \in {"idle", "refused", "clean", "resolve"} PROVE Sound(t, b, left)
  BY <1>n DEF Sound, Ready, Settled
<1>1. CASE Invokes(s, a, t, b)
  BY <1>1, <1>a, <1>q, <1>n DEF Invokes, Agreed
<1>12. CASE Refuses(s, a, t, b)
  BY <1>12, <1>a, <1>q, <1>n DEF Refuses, Ended, Agreed
<1>13. CASE MissesMarker(s, a, t, b)
  BY <1>13 DEF MissesMarker
<1>2. CASE Cleans(s, a, t, b)
  <2>1. c.pc # "idle" => Dir(c.inv) # d0
    BY <1>2 DEF Cleans, Agreed, Apart
  <2>2. \A d \in Dirs : d # d0 => t.cache[d] = s.cache[d] /\ t.marker[d] = s.marker[d]
    BY <1>2, <1>t DEF Cleans
  <2>3. t.cache[d0] = NoCache /\ ~t.marker[d0].made
    BY <1>2, <1>r, <1>t DEF Cleans, NoMarker
  <2>4. Sound(t, c, left)
    BY <1>c, <1>m, <1>r, <2>1, <2>2
  <2>5. Told(t, b, c, left, d0)
    BY <1>2, <1>r, <1>l, <2>3 DEF Cleans, Told
  <2>6. \A d \in Dirs : Told(t, b, c, left, d)
    BY <1>2, <1>d, <2>2, <2>5 DEF Cleans
  <2> QED
    BY <1>2, <1>a, <1>n, <2>4, <2>6 DEF Cleans, Goes, Agreed
<1>3. CASE Resolves(s, a, t, b)
  <2>1. Sound(t, b, left)
    BY <1>3 DEF Resolves, Sound, Ready, Settled
  <2> QED
    BY <1>3, <1>a, <1>q, <2>1 DEF Resolves, Agreed
<1>4. CASE Decides(s, a, t, b)
  <2>1. /\ b.inv = a.inv /\ b.prov = a.prov /\ b.prov = Provider(b.inv, tree)
        /\ b.pc \in {"unset", "link"}
    BY <1>4 DEF Decides, Goes, Agreed, Sound
  <2>2. ASSUME b.pc = "link"
        PROVE  /\ Fits(t.cache[d0], b.inv, b.prov)
               /\ d0 \notin left => NothingElse(t.cache[d0], b.inv)
    <3>1. s.marker[d0].made /\ s.marker[d0] = Resolved(a.inv, a.prov) /\ a.pc = "decide" /\ t = s
      BY <1>4, <2>2 DEF Decides, Goes
    <3>2. /\ Fits(s.cache[d0], a.inv, a.prov)
          /\ d0 \notin cuts => NothingElse(s.cache[d0], a.inv)
      BY <3>1, TrustedMarker
    <3>3. d0 \in cuts => d0 \in left
      BY <1>r, <1>l, <3>1
    <3> QED
      BY <2>1, <3>1, <3>2, <3>3
  <2>3. Sound(t, b, left)
    BY <2>1, <2>2 DEF Sound, Ready, Settled
  <2> QED
    BY <1>4, <1>a, <1>q, <2>3 DEF Decides, Agreed
<1>5. CASE ReadsDropped(s, a, t, b)
  <2>1. b.inv = a.inv /\ b.pc = "configure" /\ b.prov = Provider(b.inv, tree) /\ t = s
    BY <1>5 DEF ReadsDropped, Agreed, Sound
  <2>2. d0 \in cuts => d0 \in left
    BY <1>5, <1>r, <1>l, <1>m DEF ReadsDropped
  <2>3. d0 \notin left => \A k \in PlainKeys :
           a.inv.defs[k] = Absent /\ k \notin b.unset => s.cache[d0].vars[k] = Absent
    BY <1>5, <2>2, TrustedNames DEF ReadsDropped
  <2>4. Sound(t, b, left)
    BY <2>1, <2>3 DEF Sound, Ready, Settled
  <2> QED
    BY <1>5, <1>a, <1>q, <2>4 DEF ReadsDropped, Agreed
<1>6. CASE Configures(s, a, t, b)
  <2> DEFINE new == Configured(s.cache[d0], a.inv, a.prov, a.unset)
  <2>1. b.pc = "mark" /\ b.inv = a.inv /\ b.prov = a.prov /\ b.prov = Provider(b.inv, tree)
        /\ a.pc = "configure"
    BY <1>6 DEF Configures, Goes, Agreed, Sound
  <2>2. /\ t.marker = s.marker
        /\ \A d \in Dirs : d # d0 => t.cache[d] = s.cache[d]
        /\ d0 \in Dirs /\ t.cache[d0] = new
    BY <1>6, <1>r, <1>t, <2>1 DEF Configures, AfterConfigure
  <2>3. \A d \in Dirs : d \in cuts => d \in left
    BY <1>l, <1>m, <2>2
  <2>4. \A k \in PlainKeys :
           a.inv.defs[k] = Absent /\ (k \in a.unset \/ s.cache[d0].vars[k] = Absent)
              => new.vars[k] = Absent
    BY ConfiguredFits
  <2>5. d0 \notin left => NothingElse(new, a.inv)
    BY <2>1, <2>2, <2>3, <2>4 DEF Agreed, Sound, NothingElse, PlainKeys
  <2>6. Fits(new, a.inv, a.prov)
    BY ConfiguredFits
  <2>7. Sound(t, b, left)
    BY <2>1, <2>2, <2>5, <2>6 DEF Sound
  <2>8. Sound(t, c, left)
    <3>1. CASE c.pc = "idle" \/ Dir(c.inv) # d0
      BY <1>c, <1>m, <1>r, <2>2, <3>1
    <3>2. CASE c.pc # "idle" /\ Dir(c.inv) = d0
      <4>1. a.inv.type = c.inv.type /\ a.inv.defs = c.inv.defs /\ a.inv.env = c.inv.env
        BY <2>1, <3>2 DEF Agreed, Apart
      <4>2. Ready(c) => c.prov = a.prov
        BY <2>1, <4>1, SameSettings DEF Agreed, Sound, Ready, Settled
      <4>3. /\ c.pc \notin {"idle", "refused", "clean", "resolve"} => c.prov = Provider(c.inv, tree)
            /\ Ready(c) => Fits(new, c.inv, c.prov)
            /\ Ready(c) /\ d0 \notin left => NothingElse(new, c.inv)
        BY <2>5, <2>6, <4>1, <4>2, SameSettings DEF Agreed, Sound
      <4>4. d0 \notin left => \A k \in PlainKeys : c.inv.defs[k] = Absent => new.vars[k] = Absent
        BY <2>5, <4>1 DEF NothingElse, PlainKeys
      <4> QED
        BY <2>2, <3>2, <4>3, <4>4 DEF Sound
    <3> QED
      BY <3>1, <3>2
  <2>9. Told(t, b, c, left, d0)
    BY <1>l, <2>1, <2>2 DEF Told
  <2> QED
    BY <1>a, <1>d, <2>1, <2>2, <2>7, <2>8, <2>9 DEF Agreed
<1>7. CASE FailsToConfigure(s, a, t, b)
  BY <1>7, <1>a, <1>q, <1>n DEF FailsToConfigure, Ended, Agreed
<1>8. CASE OpensMarker(s, a, t, b)
  <2>1. a.pc = "mark" /\ b.pc = "write" /\ b.inv = a.inv /\ b.prov = a.prov /\ t.cache = s.cache
    BY <1>8 DEF OpensMarker, Goes
  <2>2. /\ \A d \in Dirs : d # d0 => t.marker[d] = s.marker[d]
        /\ d0 \in Dirs /\ t.marker[d0].made /\ ~t.marker[d0].whole
    BY <1>8, <1>r, <1>t, <2>1 DEF OpensMarker, Torn
  <2>3. Sound(t, c, left) /\ Sound(t, b, left)
    BY <1>c, <1>s, <1>m, <1>r, <2>1, <2>2 DEF Ready
  <2>4. Told(t, b, c, left, d0)
    BY <1>l, <2>2 DEF Told
  <2> QED
    BY <1>a, <1>d, <2>1, <2>2, <2>3, <2>4 DEF Agreed
<1>9. CASE WritesMarker(s, a, t, b)
  <2>1. a.pc = "write" /\ b.pc = "link" /\ b.inv = a.inv /\ b.prov = a.prov /\ t.cache = s.cache
    BY <1>9 DEF WritesMarker, Goes
  <2>2. /\ \A d \in Dirs : d # d0 => t.marker[d] = s.marker[d]
        /\ d0 \in Dirs /\ t.marker[d0].made
        /\ t.marker[d0].whole => t.marker[d0] = Resolved(a.inv, a.prov)
    <3>1. Resolved(a.inv, a.prov).made /\ \A n : Torn(a.inv, n).made /\ ~Torn(a.inv, n).whole
      BY DEF Resolved, Torn
    <3>2. \/ t.marker = [s.marker EXCEPT ![d0] = Resolved(a.inv, a.prov)]
          \/ \E n : t.marker = [s.marker EXCEPT ![d0] = Torn(a.inv, n)]
      BY <1>9 DEF WritesMarker
    <3>3. CASE t.marker = [s.marker EXCEPT ![d0] = Resolved(a.inv, a.prov)]
      BY <1>r, <1>t, <2>1, <3>1, <3>3
    <3>4. ASSUME NEW n, t.marker = [s.marker EXCEPT ![d0] = Torn(a.inv, n)]
          PROVE  /\ \A d \in Dirs : d # d0 => t.marker[d] = s.marker[d]
                 /\ d0 \in Dirs /\ t.marker[d0].made /\ ~t.marker[d0].whole
      BY <1>r, <1>t, <2>1, <3>1, <3>4
    <3> QED
      BY <3>2, <3>3, <3>4
  <2>3. Sound(t, c, left) /\ Sound(t, b, left)
    BY <1>c, <1>s, <1>m, <1>r, <2>1, <2>2 DEF Ready, Settled
  <2>4. Fits(t.cache[d0], a.inv, a.prov) /\ (d0 \notin left => NothingElse(t.cache[d0], a.inv))
    BY <2>1, <2>3 DEF Sound, Ready, Settled
  <2>5. Told(t, b, c, left, d0)
    BY <1>l, <1>r, <2>1, <2>2, <2>4 DEF Told
  <2> QED
    BY <1>a, <1>d, <2>1, <2>2, <2>3, <2>5 DEF Agreed
<1>10. CASE LooksAtLink(s, a, t, b) \/ ChangesLink(s, a, t, b)
  <2>1. /\ t.cache = s.cache /\ t.marker = s.marker /\ b.inv = a.inv /\ b.prov = a.prov
        /\ a.pc # "idle" /\ a.pc # "mark" /\ Ready(a) /\ Ready(b)
    BY <1>10 DEF LooksAtLink, ChangesLink, Goes, Ready, Settled
  <2> QED
    BY <1>a, <1>q, <1>s, <1>m, <1>r, <2>1 DEF Agreed
<1>11. CASE Builds(s, a, t, b)
  <2>1. t.cache = s.cache /\ t.marker = s.marker /\ a.pc \in {"build", "resolve_exe", "running"}
    BY <1>11 DEF Builds
  <2>2. CASE Ended(b)
    BY <1>a, <1>q, <1>n, <2>1, <2>2 DEF Ended, Agreed
  <2>3. CASE ~Ended(b)
    <3>1. b.inv = a.inv /\ b.prov = a.prov /\ b.pc \in {"resolve_exe", "running"}
      BY <1>11, <2>3 DEF Builds
    <3>2. b.prov = Provider(b.inv, tree)
      BY <2>1, <3>1 DEF Agreed, Sound
    <3>3. Sound(t, b, left)
      BY <3>1, <3>2 DEF Sound, Ready, Settled
    <3> QED
      BY <1>a, <1>q, <2>1, <3>3 DEF Agreed
  <2> QED
    BY <2>2, <2>3
<1> QED
  BY <1>1, <1>2, <1>3, <1>4, <1>5, <1>6, <1>7, <1>8, <1>9, <1>10, <1>11,
     <1>12, <1>13 DEF StepBeside, Moves

LEMMA AgreedSame ==
    ASSUME NEW s, NEW a, NEW b, NEW cuts
    PROVE  Agreed(s, a, b, cuts) => Agreed(s, b, a, cuts)
BY DEF Agreed, Apart, Told

LEMMA AgreedInvariant ==
    ASSUME OneTypePerDir, {"fail_saves", "unopened"} \cap Mishaps = {}
    PROVE  TwoSpec => []Agreed(Disk, This, That, cut)
<1>1. TwoInit => Agreed(Disk, This, That, cut)
  <2> SUFFICES ASSUME TwoInit PROVE Agreed(Disk, This, That, cut)
    OBVIOUS
  <2>1. /\ This.pc = "idle" /\ That.pc = "idle" /\ cut = {}
        /\ Disk.cache = [d \in Dirs |-> NoCache] /\ Disk.marker = [d \in Dirs |-> NoMarker]
    BY DEF TwoInit, Init, Other!Init, Disk, This, That
  <2>2. ~NoMarker.made
    BY DEF NoMarker
  <2> QED
    BY <2>1, <2>2 DEF Agreed, Apart, Sound, Ready, Settled, Told
<1>2. BothTyped /\ BothTyped' /\ Agreed(Disk, This, That, cut) /\ [TwoNext]_allVars
         => Agreed(Disk, This, That, cut)'
  <2> SUFFICES ASSUME BothTyped, BothTyped', Agreed(Disk, This, That, cut), [TwoNext]_allVars
               PROVE  Agreed(Disk, This, That, cut)'
    OBVIOUS
  <2>t. tree' = tree
    BY OneMoves
  <2>1. Agreed(Disk', This', That', cut')
    <3>1. CASE StepBeside(Disk, This, Disk', This', That, cut, cut') /\ That' = That
      BY <3>1, AgreedStep DEF BothTyped
    <3>2. CASE StepBeside(Disk, That, Disk', That', This, cut, cut') /\ This' = This
      <4>1. Agreed(Disk, That, This, cut)
        BY AgreedSame
      <4>2. Agreed(Disk', That', This, cut')
        BY <3>2, <4>1, AgreedStep DEF BothTyped
      <4> QED
        BY <3>2, <4>2, AgreedSame
    <3>3. CASE UNCHANGED <<Disk, This, That, cut>>
      BY <3>3
    <3> QED
      BY <3>1, <3>2, <3>3, OneMoves
  <2> QED
    BY <2>t, <2>1 DEF Agreed, Apart, Sound, Told, Fits, AsksFor, Wanted, NothingElse, Provider
<1> QED
  BY <1>1, <1>2, BothTypedInvariant, PTL DEF TwoSpec

\* Where a failed configure step leaves the cache alone, the marker can be
\* opened, and a directory has one build type, each of two builds at once is made
\* with what was asked of it, and with nothing more unless a marker had been cut
\* short.
THEOREM TwoBuildsMatch ==
    ASSUME OneTypePerDir, {"fail_saves", "unopened"} \cap Mishaps = {}
    PROVE  TwoSpec => []BuildsMatch
<1>1. Agreed(Disk, This, That, cut) => BuildsMatch
  <2> SUFFICES ASSUME Agreed(Disk, This, That, cut) PROVE BuildsMatch
    OBVIOUS
  <2>1. pc = "build" => Fits(cache[D], inv, prov) /\ (D \notin cut => NothingElse(cache[D], inv))
    BY DEF Agreed, Sound, Ready, Settled, Disk, This, D
  <2>2. pc2 = "build" => Fits(cache[Other!D], inv2, prov2)
                         /\ (Other!D \notin cut => NothingElse(cache[Other!D], inv2))
    BY SameOperators DEF Agreed, Sound, Ready, Settled, Disk, That, Other!D
  <2>3. \A r, p : Other!Wanted(r, p) = Wanted(r, p)
    BY DEF Other!Wanted, Wanted, Other!Keys, Keys, Other!CacheKeys, CacheKeys
  <2> QED
    BY <2>1, <2>2, <2>3
       DEF BuildsMatch, RequestedDefinesHold, BuildMatchesRequest, Other!RequestedDefinesHold,
           Other!BuildMatchesRequest, Fits, AsksFor, Other!AsksFor, NothingElse,
           Other!NothingElse,
           Other!CacheKeys, CacheKeys, Other!Keys, Keys
<1> QED
  BY <1>1, AgreedInvariant, PTL

-----------------------------------------------------------------------------
(* compile_commands.json between two builds. *)

LEMMA LinkedStep ==
    ASSUME Mishaps \subseteq {"torn", "unopened"},
           NEW s, NEW a, NEW t, NEW b, NEW c, NEW cuts, NEW left,
           DiskTyped(s), DiskTyped(t), Typed(a), Typed(b), Typed(c),
           StepBeside(s, a, t, b, c, cuts, left), Linked(s, a, c)
    PROVE  Linked(t, b, c)
<1> DEFINE d0 == Dir(a.inv)
<1>a. Apart(b, c)
  BY ApartStep DEF Linked
<1>r. /\ a.pc # "idle" => a.inv \in Requests /\ d0 \in Dirs
      /\ c.pc # "idle" => c.inv \in Requests /\ Dir(c.inv) \in Dirs
  BY RequestFacts DEF Typed
<1>t. /\ s.cache \in [Dirs -> Caches] /\ s.cc \in [Dirs -> BOOLEAN]
  BY DEF DiskTyped
\* The link a itself would write, where its directory is there.
<1>w. a.pc # "idle" /\ s.cc[d0] /\ s.link = Text(a.inv) => Leads(s) \/ AsGiven(s, a)
  BY <1>r, RequestFacts DEF Leads, AsGiven, Text, Texts
<1>d. a.pc # "idle" => Text(a.inv) \in Texts /\ Text(a.inv) # NoLink
  BY <1>r, RequestFacts, BuildDirAssumption DEF Text, Texts
\* A step that leaves caches and link alone, and does not come to its build.
<1>q. ASSUME t.cache = s.cache, t.cc = s.cc, t.link = s.link, ~PastLook(b),
             Ready(b) => s.cache[Dir(b.inv)].made
      PROVE  Linked(t, b, c)
  BY <1>a, <1>q DEF Linked
<1>1. CASE \/ Invokes(s, a, t, b) \/ Refuses(s, a, t, b)
           \/ Resolves(s, a, t, b) \/ ReadsDropped(s, a, t, b)
  <2>1. t = s /\ b.pc \in {"idle", "refused", "clean", "resolve", "decide", "configure"}
    BY <1>1 DEF Invokes, Refuses, Ended, Resolves, ReadsDropped
  <2> QED
    BY <1>q, <2>1 DEF PastLook, Ready, Settled
<1>2. CASE Cleans(s, a, t, b)
  <2>1. /\ a.pc = "clean" /\ b.pc = "resolve" /\ t.link = s.link
        /\ t.cache = [s.cache EXCEPT ![d0] = NoCache]
        /\ t.cc = [s.cc EXCEPT ![d0] = FALSE]
    BY <1>2 DEF Cleans, Goes
  <2>2. c.pc # "idle" => Dir(c.inv) # d0
    BY <2>1 DEF Linked, Apart
  <2>3. \A d \in Dirs : t.cache[d].made => t.cc[d]
    BY <1>r, <1>t, <2>1 DEF Linked, NoCache
  <2>4. Ready(c) => t.cache[Dir(c.inv)].made
    BY <1>r, <1>t, <2>1, <2>2 DEF Linked, Ready, Settled
  <2> QED
    BY <1>a, <2>1, <2>3, <2>4 DEF Linked, Ready, Settled, PastLook
<1>3. CASE Decides(s, a, t, b)
  <2>1. t = s /\ b.inv = a.inv /\ (b.pc = "unset" \/ (b.pc = "link" /\ s.cache[d0].made))
    BY <1>3 DEF Decides, Goes
  <2> QED
    BY <1>q, <2>1 DEF PastLook, Ready, Settled
<1>4. CASE Configures(s, a, t, b)
  <2>1. /\ a.pc = "configure" /\ b.pc = "mark" /\ b.inv = a.inv /\ t.link = s.link
        /\ t.cache = AfterConfigure(s, a)
        /\ t.cc = [s.cc EXCEPT ![d0] = TRUE]
    BY <1>4 DEF Configures, Goes
  <2>2. d0 \in Dirs /\ t.cache[d0].made /\ \A d \in Dirs : d # d0 => t.cache[d] = s.cache[d]
    BY <1>r, <1>t, <2>1 DEF AfterConfigure, Configured
  <2>3. t.cc[d0] /\ \A d \in Dirs : d # d0 => t.cc[d] = s.cc[d]
    BY <1>r, <1>t, <2>1
  <2>4. \A d \in Dirs : t.cache[d].made => t.cc[d]
    BY <2>2, <2>3 DEF Linked
  <2>5. Ready(c) => t.cache[Dir(c.inv)].made
    BY <1>r, <2>2 DEF Linked, Ready, Settled
  <2> QED
    BY <1>a, <2>1, <2>2, <2>4, <2>5 DEF Linked, Ready, Settled, PastLook
<1>5. CASE FailsToConfigure(s, a, t, b) \/ Builds(s, a, t, b)
  <2>1. /\ t.cache = s.cache /\ t.cc = s.cc /\ t.link = s.link
        /\ b.pc \in {"idle", "resolve_exe", "running"}
    BY <1>5 DEF FailsToConfigure, Builds, Ended
  <2> QED
    BY <1>q, <2>1 DEF PastLook, Ready, Settled
<1>6. CASE OpensMarker(s, a, t, b) \/ MissesMarker(s, a, t, b) \/ WritesMarker(s, a, t, b)
  <2>1. /\ t.cache = s.cache /\ t.cc = s.cc /\ t.link = s.link
        /\ a.pc \in {"mark", "write"} /\ b.pc \in {"write", "link"} /\ b.inv = a.inv
    BY <1>6 DEF OpensMarker, MissesMarker, WritesMarker, Goes
  <2> QED
    BY <1>q, <2>1 DEF Linked, PastLook, Ready, Settled
<1>7. CASE LooksAtLink(s, a, t, b)
  <2>1. /\ t = s /\ a.pc = "link" /\ b.inv = a.inv /\ b.pc \in {"unlink", "build"}
        /\ b.pc = "build" /\ a.inv.type = "Debug" => s.link = Text(a.inv) \/ Leads(s)
    BY <1>7 DEF LooksAtLink, Goes
  <2>2. d0 \in Dirs /\ s.cc[d0] /\ s.cache[d0].made
    BY <1>r, <2>1 DEF Linked, Ready, Settled
  <2>3. Leads(s) => s.link # NoLink
    BY BuildDirAssumption DEF Leads
  <2>4. b.pc = "build" /\ a.inv.type = "Debug" => s.link # NoLink /\ (Leads(s) \/ AsGiven(s, b))
    BY <1>d, <1>w, <2>1, <2>2, <2>3 DEF AsGiven
  <2> QED
    BY <1>a, <2>1, <2>2, <2>4 DEF Linked, PastLook, Ready, Settled
<1>8. CASE ChangesLink(s, a, t, b)
  <2>1. /\ t.cache = s.cache /\ t.cc = s.cc /\ b.inv = a.inv
        /\ \/ a.pc = "unlink" /\ b.pc = "relink" /\ t.link = NoLink
           \/ a.pc = "relink" /\ b.pc = "build" /\ s.link = NoLink /\ t.link = Text(a.inv)
           \/ a.pc = "relink" /\ b.pc = "build" /\ s.link # NoLink /\ t.link = s.link
    BY <1>8 DEF ChangesLink, Goes
  <2>2. d0 \in Dirs /\ s.cc[d0] /\ s.cache[d0].made
    BY <1>r, <2>1 DEF Linked, Ready, Settled
  <2>3. t.link = Text(a.inv) => Leads(t) \/ AsGiven(t, b)
    BY <1>d, <2>1, <2>2 DEF Leads, AsGiven, Text
  <2>4. t.link = s.link => /\ Leads(s) => Leads(t)
                           /\ AsGiven(s, a) => AsGiven(t, b)
                           /\ AsGiven(s, c) => AsGiven(t, c)
    BY <2>1 DEF Leads, AsGiven
  <2>5. /\ \A d \in Dirs : t.cache[d].made => t.cc[d]
        /\ Ready(b) => t.cache[Dir(b.inv)].made
        /\ Ready(c) => t.cache[Dir(c.inv)].made
    BY <2>1, <2>2 DEF Linked
  <2> QED
    BY <1>a, <1>d, <2>1, <2>3, <2>4, <2>5 DEF Linked, PastLook
<1> QED
  BY <1>1, <1>2, <1>3, <1>4, <1>5, <1>6, <1>7, <1>8 DEF StepBeside, Moves

LEMMA LinkedSame ==
    ASSUME NEW s, NEW a, NEW b
    PROVE  Linked(s, a, b) => Linked(s, b, a)
BY DEF Linked, Apart

\* Where the symlink can be created and CMake leaves nothing half-done, the
\* link of two Debug builds that have both come to their build can be opened,
\* in whatever order they looked at it, removed it and created it; or it is
\* the one that one of the two writes for a relative --project.
THEOREM TwoLinksSettle ==
    ASSUME Mishaps \subseteq {"torn", "unopened"}
    PROVE  TwoSpec => []LinkSettles
<1>1. TwoInit => Linked(Disk, This, That)
  <2> SUFFICES ASSUME TwoInit PROVE Linked(Disk, This, That)
    OBVIOUS
  <2>1. /\ This.pc = "idle" /\ That.pc = "idle" 
        /\ Disk.cache = [d \in Dirs |-> NoCache]
    BY DEF TwoInit, Init, Other!Init, Disk, This, That
  <2> QED
    BY <2>1 DEF Linked, Apart, Ready, Settled, PastLook, NoCache
<1>2. BothTyped /\ BothTyped' /\ Linked(Disk, This, That) /\ [TwoNext]_allVars
         => Linked(Disk, This, That)'
  <2> SUFFICES ASSUME BothTyped, BothTyped', Linked(Disk, This, That), [TwoNext]_allVars
               PROVE  Linked(Disk', This', That')
    OBVIOUS
  <2>1. CASE StepBeside(Disk, This, Disk', This', That, cut, cut') /\ That' = That
    BY <2>1, LinkedStep DEF BothTyped
  <2>2. CASE StepBeside(Disk, That, Disk', That', This, cut, cut') /\ This' = This
    <3>1. Linked(Disk, That, This)
      BY LinkedSame
    <3>2. Linked(Disk', That', This)
      BY <2>2, <3>1, LinkedStep DEF BothTyped
    <3> QED
      BY <2>2, <3>2, LinkedSame
  <2>3. CASE UNCHANGED <<Disk, This, That, cut>>
    BY <2>3
  <2> QED
    BY <2>1, <2>2, <2>3, OneMoves
<1>3. Linked(Disk, This, That) => LinkSettles
  <2> SUFFICES ASSUME Linked(Disk, This, That), pc = "build", pc2 = "build",
                      inv.type = "Debug", inv2.type = "Debug"
               PROVE  \/ Followed(link)
                      \/ \E r \in {inv, inv2} : r.path = "relative" /\ link = Text(r)
    BY DEF LinkSettles
  <2>1. Leads(Disk) \/ AsGiven(Disk, This) \/ AsGiven(Disk, That)
    BY DEF Linked, PastLook, This, That
  <2> QED
    BY <2>1 DEF Leads, AsGiven, Followed, Disk, This, That
<1> QED
  BY <1>1, <1>2, <1>3, BothTypedInvariant, PTL DEF TwoSpec
=============================================================================
