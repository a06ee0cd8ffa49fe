------------------------------ MODULE TwoBuilds ------------------------------
(***************************************************************************)
(* Two Baldr processes at work in one project: the one of BuildDir, and an  *)
(* Other one with a state of its own over the same tree, build directories  *)
(* and compile_commands.json.  Nothing in the code locks any of these: each *)
(* looks at what the other is about to change.                               *)
(*                                                                           *)
(* Two invocations that overlap have build directories of their own, or ask  *)
(* for the same in one of them without `--clean`; what was asked for before  *)
(* may differ.  The project's own files stay as they are, and neither dies:   *)
(* what a crash leaves behind is BuildDir's.                                 *)
(***************************************************************************)
EXTENDS BuildDir

VARIABLES
    pc2, inv2, prov2, unset2, fresh2, launched2,   \* the other process
    cut       \* the directories whose marker a process has left cut short

mine == <<pc, locals>>
others == <<pc2, inv2, prov2, unset2, fresh2, launched2>>
allVars == <<vars, others, cut>>

Other == INSTANCE BuildDir WITH
            pc <- pc2, inv <- inv2, prov <- prov2, unset <- unset2,
            fresh <- fresh2, launched <- launched2

\* compile_commands.json is no file of the user's own, which nobody would touch.
TwoInit == Init /\ Other!Init /\ link = NoLink /\ cut = {}

\* Whether r may be asked for while a process is at step p with request s.
Beside(r, p, s) ==
    p # "idle" /\ Dir(r) = Dir(s) => ~r.clean /\ r = [s EXCEPT !.run = r.run, !.path = r.path]

Mine ==
    /\ \/ \E r \in Requests : Beside(r, pc2, inv2) /\ Invoke(r)
       \/ Advance
    /\ UNCHANGED others

Others ==
    /\ \/ \E r \in Requests : Beside(r, pc, inv) /\ Other!Invoke(r)
       \/ Other!Advance
    /\ UNCHANGED mine

\* A write that stopped early leaves the marker as it is until it is removed.
Cuts(d) ==
    /\ marker[d].made
    /\ ~marker[d].whole
    /\ ~(pc = "write" /\ D = d)
    /\ ~(pc2 = "write" /\ Other!D = d)

TwoNext ==
    /\ Mine \/ Others
    /\ cut' = {d \in Dirs : marker'[d].made /\ (d \in cut \/ Cuts(d)')}

TwoSpec == TwoInit /\ [][TwoNext]_allVars

-----------------------------------------------------------------------------
(* Properties. *)

\* Every variable has its type.
TwoTypeOK == TypeOK /\ Other!TypeOK /\ cut \in SUBSET Dirs

\* Each process builds with what it was asked for for as long as its build
\* lasts, though the other may have looked at the cache and the marker, or
\* configured, at any moment in between; and nothing that was not asked for
\* is left in the cache, unless a marker had been cut short.
BuildsMatch ==
    /\ RequestedDefinesHold /\ Other!RequestedDefinesHold
    /\ pc = "build" /\ D \notin cut => BuildMatchesRequest
    /\ pc2 = "build" /\ Other!D \notin cut => Other!BuildMatchesRequest

\* Where two Debug builds compete for the one compile_commands.json, the link
\* can be opened once both have come to their build, whoever looked, removed
\* and created it in between (link_compile_commands), unless it is the one that
\* one of the two writes for a relative --project.
LinkSettles ==
    pc = "build" /\ pc2 = "build" /\ {inv.type, inv2.type} = {"Debug"} =>
        \/ Followed(link)
        \/ \E r \in {inv, inv2} : r.path = "relative" /\ link = Text(r)
=============================================================================
