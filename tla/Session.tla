------------------------------- MODULE Session -------------------------------
(***************************************************************************)
(* One Baldr process from the moment main.cpp has installed its SIGINT      *)
(* guard: the children it starts one after the other (utl::command,         *)
(* baldr::run_streamed, builder::build and builder::run), the handler that  *)
(* counts Ctrl-C and force-kills the child it watches (signal.hpp), and how *)
(* the process ends (entrypoint).                                           *)
(*                                                                          *)
(* A handler runs between any two stores of the main thread and, once its   *)
(* signal is pending, before the main thread's next step.  The kernel's     *)
(* process table is external: a pid that was reaped may be given to a       *)
(* stranger.                                                                *)
(***************************************************************************)
EXTENDS Integers, Sequences, FiniteSets

CONSTANTS
    Pids,             \* process ids, all positive
    Plan,             \* the children of the invocation, if each of them succeeds
    ForceKillAfter,   \* signal_handler::ForceKillAfter
    MaxCount,         \* deliveries are counted up to here; only counts
                      \* below ForceKillAfter can be told from each other
    StdThrows         \* whether a std:: exception may come: from handling a line of
                      \* output, or from the file system between two children

ASSUME SessionAssumption ==
    /\ Pids \subseteq Nat \ {0}
    /\ Plan \in Seq([interactive : BOOLEAN, ignored : BOOLEAN])
    /\ Len(Plan) > 0
    /\ ForceKillAfter \in Nat \ {0}
    /\ MaxCount \in Nat /\ MaxCount >= ForceKillAfter
    /\ StdThrows \in BOOLEAN

VARIABLES
    pc,        \* the main thread's next step
    job,       \* the child of Plan it is at
    pid,       \* command::m_pid, 0 before the first fork
    thrown,    \* a std:: exception that left a child behind is on its way
    h,         \* signal_handler's statics for SIGINT
    pending,   \* a SIGINT waits for its handler
    proc,      \* [Pids -> what the kernel has there]
    status,    \* how the current child ended
    told,      \* the current child has been sent a SIGINT
    slave,     \* the current child's end of the pty: nobody has opened it yet, the child
               \* has, or a process it started holds it open
    seen,      \* deliveries since the current child was forked, until it was reaped
    shot,      \* the pid the last SIGKILL went to, 0 for none
    how        \* how Baldr ended

main == <<pc, job, pid, thrown, how>>
kernel == <<proc, status, told, slave>>
history == <<seen, shot>>
vars == <<pc, job, pid, thrown, h, pending, proc, status, told, slave, seen, shot, how>>

Ours == {"starting", "running", "zombie"}   \* a child that is not reaped
Statuses == {"none", "ok", "fail", "sigint", "sigkill", "exec_failed"}
Steps == {"spawn", "exec_read", "arm_target", "arm_after", "arm_action", "poll",
          "wait", "disarm_action", "disarm_after", "disarm_target", "done",
          "caught", "check", "returning", "exited"}

\* The steps from the fork of a child until it is reaped.
Attending == {"exec_read", "arm_target", "arm_after", "arm_action", "poll", "wait"}

Child == Plan[job]

-----------------------------------------------------------------------------
(* utl::signal_handler *)

Bump(n) == IF n < MaxCount THEN n + 1 ELSE n

\* Mutant of Counted: the count of deliveries runs past its type.
CountedUnbounded(s) == [s EXCEPT !.flags = s.flags + 1]

\* handle counts the delivery.
Counted(s) == [s EXCEPT !.flags = Bump(s.flags)]

\* Mutant of Fires: the threshold is met by one delivery only.
FiresOnce(s) == /\ s.after > 0 /\ s.flags = s.after
                /\ s.action = "kill_pid" /\ s.target > 0

\* Whether handle and dispatch then come to kill(target, SIGKILL).
Fires(s) == /\ s.after > 0 /\ s.flags >= s.after
            /\ s.action = "kill_pid" /\ s.target > 0

Init ==
    /\ pc = "spawn"
    /\ job = 1
    /\ pid = 0
    /\ thrown = FALSE
    /\ h = [flags |-> 0, target |-> 0, after |-> 0, action |-> "none"]
    /\ pending = FALSE
    /\ proc \in [Pids -> {"free", "other"}]
    /\ \E p \in Pids : proc[p] = "free"
    /\ status = "none"
    /\ told = FALSE
    /\ slave = "unopened"
    /\ seen = 0
    /\ shot = 0
    /\ how = "none"

\* kill(t, SIGKILL): a process that has ended already is not hurt by it.
Kill(t) ==
    /\ shot' = t
    /\ proc' = CASE proc[t] \in {"starting", "running"} -> [proc EXCEPT ![t] = "zombie"]
                 [] proc[t] = "other" -> [proc EXCEPT ![t] = "free"]
                 [] OTHER -> proc
    /\ status' = IF proc[t] \in {"starting", "running"} THEN "sigkill" ELSE status

\* signal_handler::handle runs.
HandleSignal ==
    /\ pending
    /\ pending' = FALSE
    /\ h' = Counted(h)
    /\ IF Fires(Counted(h)) THEN Kill(h.target) ELSE UNCHANGED <<proc, status, shot>>
    /\ seen' = IF pc \in Attending THEN Bump(seen) ELSE seen
    /\ UNCHANGED <<main, told, slave>>

\* Ctrl-C on Baldr's terminal: Baldr's process group gets SIGINT.  A child
\* that is not interactive has left the group (setsid); one that has not come
\* to execvp runs Baldr's own handler.  A SIGINT already pending swallows it.
CtrlC ==
    /\ pc # "exited"
    /\ pending' = TRUE
    /\ told' = (told \/ (pid \in Pids /\ proc[pid] = "running" /\ Child.interactive))
    /\ UNCHANGED <<main, h, proc, status, slave, history>>

-----------------------------------------------------------------------------
(* The children and the kernel. *)

\* Between fork and execvp: the child sets itself up, opening its end of the
\* pty if it streams, and execs, or reports the errno of what failed over the
\* error pipe.
ChildExecs ==
    /\ pid \in Pids
    /\ proc[pid] = "starting"
    /\ \/ proc' = [proc EXCEPT ![pid] = "running"] /\ UNCHANGED status
       \/ proc' = [proc EXCEPT ![pid] = "zombie"] /\ status' = "exec_failed"
    /\ slave' = IF Child.interactive THEN slave ELSE "opened"
    /\ UNCHANGED <<main, h, pending, told, history>>

\* setsid fails: its errno goes over the pipe before the pty is opened.
ChildKeepsSession ==
    /\ pid \in Pids
    /\ proc[pid] = "starting"
    /\ ~Child.interactive
    /\ proc' = [proc EXCEPT ![pid] = "zombie"]
    /\ status' = "exec_failed"
    /\ UNCHANGED <<main, h, pending, told, slave, history>>

\* It cannot open its end of the pty: redirect_child throws in the child, a
\* copy of Baldr, which ends as entrypoint ends: with EXIT_FAILURE, or by
\* SIGINT if one was counted before the fork or came before setsid.  Nobody
\* has opened that end then, nor ever will.
ChildThrows ==
    /\ pid \in Pids
    /\ proc[pid] = "starting"
    /\ ~Child.interactive
    /\ proc' = [proc EXCEPT ![pid] = "zombie"]
    /\ status' \in {"fail"} \cup (IF h.flags > 0 \/ pending THEN {"sigint"} ELSE {})
    /\ UNCHANGED <<main, h, pending, told, slave, history>>

\* The child ends by itself, or because it was told to; nothing says it must.
ChildEnds ==
    /\ pid \in Pids
    /\ proc[pid] = "running"
    /\ proc' = [proc EXCEPT ![pid] = "zombie"]
    /\ status' \in {"ok", "fail"} \cup (IF told THEN {"sigint"} ELSE {})
    /\ UNCHANGED <<main, h, pending, told, slave, history>>

\* A child that streams starts a process that will not end with it: one that
\* has left its session, or ignores the SIGHUP that follows its end.
Grandchild ==
    /\ pid \in Pids
    /\ proc[pid] = "running"
    /\ ~Child.interactive
    /\ slave' = "held"
    /\ UNCHANGED <<main, h, pending, proc, status, told, history>>

\* All such processes have ended or closed that terminal.
GrandchildEnds ==
    /\ slave = "held"
    /\ slave' = "opened"
    /\ UNCHANGED <<main, h, pending, proc, status, told, history>>

\* Some other process takes a free pid, or ends.  One pid is always left.
Strangers ==
    /\ \E p \in Pids :
        \/ /\ proc[p] = "free"
           /\ \E q \in Pids \ {p} : proc[q] = "free"
           /\ proc' = [proc EXCEPT ![p] = "other"]
        \/ proc[p] = "other" /\ proc' = [proc EXCEPT ![p] = "free"]
    /\ UNCHANGED <<main, h, pending, status, told, slave, history>>

World ==
    \/ ChildExecs \/ ChildKeepsSession \/ ChildThrows \/ ChildEnds
    \/ Grandchild \/ GrandchildEnds \/ Strangers

-----------------------------------------------------------------------------
(* utl::command, run_streamed and builder::run. *)

Goto(from, to) == pc = from /\ pc' = to

\* command::run up to fork; the pty, the pipe or fork itself may fail.
Fork ==
    /\ Goto("spawn", "exec_read")
    /\ \E p \in Pids :
        /\ proc[p] = "free"
        /\ proc' = [proc EXCEPT ![p] = "starting"]
        /\ pid' = p
    /\ status' = "none"
    /\ told' = FALSE
    /\ slave' = "unopened"
    /\ seen' = 0
    /\ UNCHANGED <<job, thrown, how, h, pending, shot>>

\* A nova::exception before the child is there: from utl::command, or from the
\* builder, which finds no executable, say.
SpawnFails ==
    /\ Goto("spawn", "caught")
    /\ UNCHANGED <<job, pid, thrown, how, h, pending, kernel, history>>

\* A filesystem_error before the child is there: from remove_all, from
\* create_directories or from relative.  entrypoint catches nova::exception
\* only, so Baldr ends without its last look at the count of SIGINTs.
FilesystemThrows ==
    /\ StdThrows
    /\ Goto("spawn", "exited")
    /\ how' = "uncaught"
    /\ UNCHANGED <<job, pid, thrown, h, pending, kernel, history>>

\* command::run: the error pipe is read until the child's end is closed.
ReadErrorPipe ==
    /\ Goto("exec_read", "arm_target")
    /\ proc[pid] # "starting"
    /\ UNCHANGED <<job, pid, thrown, how, h, pending, kernel, history>>

\* scoped_watch's constructor: the three stores of escalate, in their order.
ArmTarget ==
    /\ Goto("arm_target", "arm_after")
    /\ h' = [h EXCEPT !.target = pid]
    /\ UNCHANGED <<job, pid, thrown, how, pending, kernel, history>>

ArmAfter ==
    /\ Goto("arm_after", "arm_action")
    /\ h' = [h EXCEPT !.after = ForceKillAfter]
    /\ UNCHANGED <<job, pid, thrown, how, pending, kernel, history>>

ArmAction ==
    /\ Goto("arm_action", IF Child.interactive THEN "wait" ELSE "poll")
    /\ h' = [h EXCEPT !.action = "kill_pid"]
    /\ UNCHANGED <<job, pid, thrown, how, pending, kernel, history>>

\* run_streamed's poll loop ends: read fails (EIO) once the other end of the
\* pty, which was open, is closed.  Where it was never opened, read blocks.
PollEof ==
    /\ Goto("poll", "wait")
    /\ proc[pid] = "zombie"
    /\ slave = "opened"
    /\ UNCHANGED <<job, pid, thrown, how, h, pending, kernel, history>>

\* The same while the child lives, as it closed its terminal; wait() closes
\* the master, which hangs the child up.
PollEofEarly ==
    /\ Goto("poll", "wait")
    /\ proc[pid] = "running"
    /\ slave = "opened"
    /\ \/ UNCHANGED <<proc, status>>
       \/ proc' = [proc EXCEPT ![pid] = "zombie"] /\ status' = "fail"
    /\ UNCHANGED <<job, pid, thrown, how, h, pending, told, slave, history>>

\* line_reader, classify or log_output throws, which is a std:: exception: the
\* stack unwinds, past scoped_watch's destructor.  (Where NOVA_MAIN has no
\* handler either the process may end here at once, as it does at Terminate.)
PollThrows ==
    /\ StdThrows
    /\ slave # "unopened"
    /\ Goto("poll", "disarm_action")
    /\ thrown' = TRUE
    /\ UNCHANGED <<job, pid, how, h, pending, kernel, history>>

\* Mutant of Reap: watch() without unwatch().
ReapStayingArmed ==
    /\ Goto("wait", "done")
    /\ proc[pid] = "zombie"
    /\ proc' = [proc EXCEPT ![pid] = "free"]
    /\ UNCHANGED <<job, pid, thrown, how, h, pending, status, told, slave, history>>

\* Mutant of Reap: a child whose execvp failed is not waited for.
ReapUnlessExecFailed ==
    /\ Goto("wait", "disarm_action")
    /\ proc[pid] = "zombie"
    /\ proc' = IF status = "exec_failed" THEN proc ELSE [proc EXCEPT ![pid] = "free"]
    /\ UNCHANGED <<job, pid, thrown, how, h, pending, status, told, slave, history>>

\* command::wait: wait4 reaps the child.
Reap ==
    /\ Goto("wait", "disarm_action")
    /\ proc[pid] = "zombie"
    /\ proc' = [proc EXCEPT ![pid] = "free"]
    /\ UNCHANGED <<job, pid, thrown, how, h, pending, status, told, slave, history>>

\* scoped_watch's destructor: the three stores of disarm, in their order.
DisarmAction ==
    /\ Goto("disarm_action", "disarm_after")
    /\ h' = [h EXCEPT !.action = "none"]
    /\ UNCHANGED <<job, pid, thrown, how, pending, kernel, history>>

DisarmAfter ==
    /\ Goto("disarm_after", "disarm_target")
    /\ h' = [h EXCEPT !.after = 0]
    /\ UNCHANGED <<job, pid, thrown, how, pending, kernel, history>>

DisarmTarget ==
    /\ Goto("disarm_target", "done")
    /\ h' = [h EXCEPT !.target = -1]
    /\ UNCHANGED <<job, pid, thrown, how, pending, kernel, history>>

\* builder::build and builder::run look at the status; only `make clean`'s is
\* ignored.
Failed == status # "ok" /\ ~Child.ignored

ChildDone ==
    /\ pc = "done"
    /\ ~thrown
    /\ IF Failed THEN pc' = "caught" /\ UNCHANGED job
       ELSE IF job < Len(Plan) THEN pc' = "spawn" /\ job' = job + 1
       ELSE pc' = "check" /\ UNCHANGED job
    /\ UNCHANGED <<pid, thrown, how, h, pending, kernel, history>>

-----------------------------------------------------------------------------
(* entrypoint *)

\* A std:: exception: the catch is for nova::exception only, so the process
\* ends past it and past the last look at the count.
Terminate ==
    /\ thrown
    /\ Goto("done", "exited")
    /\ how' = "uncaught"
    /\ UNCHANGED <<job, pid, thrown, h, pending, kernel, history>>

\* Mutant of Catch: what the child died of decides.
CatchByStatus ==
    /\ Goto("caught", "check")
    /\ how' = IF status # "sigint" THEN "failure_logged" ELSE "failure"
    /\ UNCHANGED <<job, pid, thrown, h, pending, kernel, history>>

\* catch: the failure is logged if there was no SIGINT; result is a failure.
Catch ==
    /\ Goto("caught", "check")
    /\ how' = IF h.flags = 0 THEN "failure_logged" ELSE "failure"
    /\ UNCHANGED <<job, pid, thrown, h, pending, kernel, history>>

\* Mutant of CheckTriggered: only a failure is looked at for a SIGINT.
CheckTriggeredOnFailure ==
    /\ pc = "check"
    /\ IF h.flags > 0 /\ how # "none"
       THEN pc' = "exited" /\ how' = "sigint"
       ELSE pc' = "returning" /\ UNCHANGED how
    /\ UNCHANGED <<job, pid, thrown, h, pending, kernel, history>>

\* triggered(SIGINT): reraise_default, or on to the guard's destructor.
CheckTriggered ==
    /\ pc = "check"
    /\ IF h.flags > 0
       THEN pc' = "exited" /\ how' = "sigint"
       ELSE pc' = "returning" /\ UNCHANGED how
    /\ UNCHANGED <<job, pid, thrown, h, pending, kernel, history>>

\* ~signal_guard, and main returns.
Return ==
    /\ Goto("returning", "exited")
    /\ how' = IF how = "none" THEN "success" ELSE how
    /\ UNCHANGED <<job, pid, thrown, h, pending, kernel, history>>

-----------------------------------------------------------------------------
\* Steps that happen whatever the child does.
Main ==
    /\ ~pending
    /\ \/ Fork \/ ReadErrorPipe
       \/ ArmTarget \/ ArmAfter \/ ArmAction
       \/ PollEof \/ Reap
       \/ DisarmAction \/ DisarmAfter \/ DisarmTarget
       \/ ChildDone \/ Terminate \/ Catch \/ CheckTriggered \/ Return

\* Steps that may happen or not.
MainByChance == ~pending /\ (SpawnFails \/ FilesystemThrows \/ PollEofEarly \/ PollThrows)

Next ==
    \/ HandleSignal \/ CtrlC
    \/ World
    \/ Main \/ MainByChance

Spec == Init /\ [][Next]_vars

\* The main thread runs on between deliveries, a forked child comes to its
\* execvp, a pending signal is handled, and the user keeps pressing Ctrl-C.
\* Children need not end.
FairSpec ==
    /\ Spec
    /\ SF_vars(Main)
    /\ WF_vars(ChildExecs)
    /\ WF_vars(HandleSignal)
    /\ WF_vars(CtrlC)

-----------------------------------------------------------------------------
(* Properties. *)

\* Every variable has its type.
TypeOK ==
    /\ pc \in Steps
    /\ job \in 1..Len(Plan)
    /\ pid \in Pids \cup {0}
    /\ thrown \in BOOLEAN
    /\ h \in [flags : 0..MaxCount, target : Pids \cup {0, -1},
             after : {0, ForceKillAfter}, action : {"none", "kill_pid"}]
    /\ pending \in BOOLEAN
    /\ proc \in [Pids -> Ours \cup {"free", "other"}]
    /\ status \in Statuses
    /\ told \in BOOLEAN
    /\ slave \in {"unopened", "opened", "held"}
    /\ seen \in 0..MaxCount
    /\ shot \in Pids \cup {0}
    /\ how \in {"none", "success", "failure", "failure_logged", "sigint", "uncaught"}

\* The next delivery beyond the threshold would send a SIGKILL.
Armed == h.after > 0 /\ h.action = "kill_pid" /\ h.target > 0

\* Whatever mixture of stores of escalate and disarm a handler meets, the pid
\* it would kill is that of the current child, and the kernel still keeps the
\* pid for it, but for the step between wait4 and disarm's first store.
WatchIsOurs ==
    Armed => /\ h.target = pid
             /\ proc[pid] \in Ours \/ pc = "disarm_action"

\* The inductive invariant behind it: how far each of the handler's statics is
\* set at each step of the main thread, and that a child that is attended to
\* has not been reaped.
WatchFollowsSteps ==
    /\ h.target = IF pc \in {"arm_after", "arm_action", "poll", "wait",
                             "disarm_action", "disarm_after", "disarm_target"}
                  THEN pid ELSE IF h.target = 0 THEN 0 ELSE -1
    /\ h.after = IF pc \in {"arm_action", "poll", "wait", "disarm_action", "disarm_after"}
                 THEN ForceKillAfter ELSE 0
    /\ h.action = IF pc \in {"poll", "wait", "disarm_action"} THEN "kill_pid" ELSE "none"
    /\ pc \in Attending \cup {"disarm_action", "disarm_after", "disarm_target"} => pid \in Pids
    /\ pc \in Attending => proc[pid] \in Ours

\* The inductive invariant behind NoOrphan: only the current child may be
\* waiting to be reaped, and only while it is attended to or was abandoned.
OnlyChild ==
    /\ \A p \in Pids : proc[p] \in Ours => p = pid /\ (pc \in Attending \/ thrown)
    /\ thrown => pc \in {"disarm_action", "disarm_after", "disarm_target", "done", "exited"}

\* When Baldr has ended it has waited for every child it forked, also for
\* those whose execvp failed; only an exception on the way abandons one.
NoOrphan == pc = "exited" /\ ~thrown => \A p \in Pids : proc[p] \notin Ours

\* A failure is never logged for a child that ended of the user's Ctrl-C or
\* of the force-kill, nor for one that failed while Ctrl-C was pressed.
NoFailureForInterrupt ==
    how = "failure_logged" => seen = 0 /\ status \notin {"sigint", "sigkill"}

\* The inductive invariant behind it: whatever an interrupt has done to the
\* child is known, or will be before the next step of the main thread; and a
\* child that Baldr has abandoned is one that Ctrl-C does not reach.
InterruptIsKnown ==
    /\ told \/ status \in {"sigint", "sigkill"} => pending \/ h.flags > 0
    /\ seen > 0 => h.flags > 0
    /\ pc \in {"arm_target", "arm_after", "arm_action", "poll", "wait"} => proc[pid] # "starting"
    /\ pc = "poll" => ~Child.interactive
    /\ pid \in Pids /\ proc[pid] \in Ours =>
           /\ pc \notin Attending => ~Child.interactive /\ proc[pid] # "starting"
           /\ told => Child.interactive /\ proc[pid] # "starting"
    /\ how = "failure_logged" => pc \in {"check", "returning", "exited"}
    /\ NoFailureForInterrupt

\* No process holds a child's terminal for ever: SIGKILL goes to the child
\* only, so that no number of presses ends a run_streamed that still reads.
LetGo == []<>(slave # "held")

\* Every child that streams comes to open its end of the pty: reading from the
\* other end of one that was never opened lasts for ever.
Opens == [](pc = "poll" => slave # "unopened")

\* Once a Ctrl-C is counted before entrypoint's last look at the count, Baldr
\* ends with the signal's exit status, whatever its children do, or by a std::
\* exception, which entrypoint does not catch; unless it hangs on a terminal
\* that nobody has opened or somebody never lets go of.
InterruptIsReported ==
    LetGo /\ Opens =>
        (h.flags > 0 /\ pc \notin {"returning", "exited"} ~> how \in {"sigint", "uncaught"})

\* Baldr never hangs on a child that does not end, if Ctrl-C is pressed often
\* enough; it hangs only on such a terminal.
Exits == LetGo /\ Opens => <>(pc = "exited")

\* Baldr never hangs (user-guide.adoc: the third Ctrl-C is there so that it
\* never hangs indefinitely): whatever becomes of the children's terminals, it
\* ends, if Ctrl-C is pressed often enough.
NeverHangs == <>(pc = "exited")

\* signal_handler, store by store, does what AtomicWatch promises: a watch
\* begins and ends at one instant.
Watch == INSTANCE AtomicWatch WITH
            watched <- IF Armed THEN h.target ELSE 0, count <- h.flags
WatchSpec == Watch!Spec

=============================================================================
