---------------------------- MODULE BuildPromise ----------------------------
(***************************************************************************)
(* What the builder promises of its build directories, whatever files it     *)
(* keeps there to do so: each directory is configured with the settings of   *)
(* one request as a whole, or with nothing; a build starts only when its     *)
(* directory is configured with what it was asked for; and an invocation     *)
(* leaves every other directory alone.                                       *)
(***************************************************************************)
CONSTANTS
    Dirs,      \* the build directories
    Tasks,     \* what may be asked for: a dir and its settings
    Nothing    \* no settings, no task

VARIABLES
    with,      \* [Dirs -> the settings a directory is configured with]
    task,      \* the task of the invocation that runs
    phase      \* "idle", "preparing" or "building"

pvars == <<with, task, phase>>

Init ==
    /\ with = [d \in Dirs |-> Nothing]
    /\ task = Nothing
    /\ phase = "idle"

Ask ==
    /\ phase = "idle"
    /\ phase' = "preparing"
    /\ task' \in Tasks
    /\ UNCHANGED with

\* The directory is given settings, all at once, or emptied.
Settle(settings) ==
    /\ phase = "preparing"
    /\ with' = [with EXCEPT ![task.dir] = settings]
    /\ UNCHANGED <<task, phase>>

Build ==
    /\ phase = "preparing"
    /\ with[task.dir] = task.settings
    /\ phase' = "building"
    /\ UNCHANGED <<with, task>>

End ==
    /\ phase # "idle"
    /\ phase' = "idle"
    /\ task' = Nothing
    /\ UNCHANGED with

Next == Ask \/ Settle(Nothing) \/ Settle(task.settings) \/ Build \/ End

Spec == Init /\ [][Next]_pvars
=============================================================================
