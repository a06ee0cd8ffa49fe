---------------------------- MODULE SessionProofs ----------------------------
(***************************************************************************)
(* Theorems about Session, for every plan of children, every set of process *)
(* ids, every threshold and any number of signals.                          *)
(***************************************************************************)
EXTENDS Session, TLAPS

LEMMA PidFacts == \A p \in Pids : p \in Int /\ p > 0
BY SessionAssumption

LEMMA BumpType == ASSUME NEW n \in 0..MaxCount PROVE Bump(n) \in 0..MaxCount /\ Bump(n) >= n
BY SessionAssumption DEF Bump

LEMMA CountedFacts ==
    ASSUME TypeOK
    PROVE  /\ Counted(h).flags = Bump(h.flags)
           /\ Counted(h).target = h.target
           /\ Counted(h).after = h.after
           /\ Counted(h).action = h.action
           /\ Counted(h) \in [flags : 0..MaxCount, target : Pids \cup {0, -1},
                               after : {0, ForceKillAfter}, action : {"none", "kill_pid"}]
BY BumpType DEF TypeOK, Counted

LEMMA KillTyped ==
    ASSUME TypeOK, NEW t \in Pids, Kill(t)
    PROVE  /\ proc' \in [Pids -> Ours \cup {"free", "other"}]
           /\ status' \in Statuses
           /\ shot' \in Pids \cup {0}
           /\ \A p \in Pids : proc'[p] \in Ours <=> proc[p] \in Ours
<1> USE DEF TypeOK, Ours, Statuses
<1>1. CASE proc[t] \in {"starting", "running"}
  <2>1. proc' = [proc EXCEPT ![t] = "zombie"] /\ status' = "sigkill" /\ shot' = t
    BY <1>1 DEF Kill
  <2> QED
    BY <1>1, <2>1
<1>2. CASE proc[t] = "other"
  <2>1. proc' = [proc EXCEPT ![t] = "free"] /\ status' = status /\ shot' = t
    BY <1>2 DEF Kill
  <2> QED
    BY <1>2, <2>1
<1>3. CASE proc[t] \notin {"starting", "running", "other"}
  <2>1. proc' = proc /\ status' = status /\ shot' = t
    BY <1>3 DEF Kill
  <2> QED
    BY <1>3, <2>1
<1> QED
  BY <1>1, <1>2, <1>3

-----------------------------------------------------------------------------
LEMMA RangeFacts == 0 \in 0..MaxCount /\ 1 \in 1..Len(Plan)
<1>1. Len(Plan) \in Nat
  BY SessionAssumption
<1> QED
  BY <1>1, SessionAssumption

LEMMA TypeInit == Init => TypeOK
<1> SUFFICES ASSUME Init PROVE TypeOK
  OBVIOUS
<1>1. proc \in [Pids -> Ours \cup {"free", "other"}]
  BY DEF Init, Ours
<1>2. h \in [flags : 0..MaxCount, target : Pids \cup {0, -1},
             after : {0, ForceKillAfter}, action : {"none", "kill_pid"}]
  BY RangeFacts DEF Init
<1> QED
  BY <1>1, <1>2, RangeFacts DEF Init, TypeOK, Steps, Statuses

LEMMA TypeStep == TypeOK /\ [Next]_vars => TypeOK'
<1> SUFFICES ASSUME TypeOK, [Next]_vars PROVE TypeOK'
  OBVIOUS
<1>1. CASE HandleSignal
  <2>1. h' \in [flags : 0..MaxCount, target : Pids \cup {0, -1},
                after : {0, ForceKillAfter}, action : {"none", "kill_pid"}]
    BY <1>1, CountedFacts DEF HandleSignal
  <2>2. seen' \in 0..MaxCount
    BY <1>1, BumpType DEF HandleSignal, TypeOK
  <2>3. CASE Fires(Counted(h))
    <3>1. h.target \in Pids /\ Kill(h.target)
      BY <1>1, <2>3, CountedFacts DEF HandleSignal, Fires, TypeOK
    <3> QED
      BY <1>1, <2>1, <2>2, <3>1, KillTyped DEF HandleSignal, main, TypeOK
  <2>4. CASE ~Fires(Counted(h))
    BY <1>1, <2>1, <2>2, <2>4 DEF HandleSignal, main, TypeOK
  <2> QED
    BY <2>3, <2>4
<1>2. CASE CtrlC
  BY <1>2 DEF CtrlC, main, history, TypeOK
<1>3. CASE ChildExecs \/ ChildKeepsSession \/ ChildThrows
  BY <1>3 DEF ChildExecs, ChildKeepsSession, ChildThrows, main, history, TypeOK, Ours, Statuses
<1>9. CASE Grandchild \/ GrandchildEnds
  BY <1>9 DEF Grandchild, GrandchildEnds, main, history, TypeOK
<1>4. CASE ChildEnds
  BY <1>4 DEF ChildEnds, main, history, TypeOK, Ours, Statuses
<1>5. CASE Strangers
  BY <1>5 DEF Strangers, main, history, TypeOK
<1>6. CASE Main
  <2> USE DEF TypeOK, Goto, Steps, kernel, history
  <2>1. CASE Fork
    <3>1. PICK p \in Pids : proc' = [proc EXCEPT ![p] = "starting"] /\ pid' = p
      BY <2>1 DEF Fork
    <3>2. proc' \in [Pids -> Ours \cup {"free", "other"}]
      BY <3>1 DEF Ours
    <3> QED
      BY <2>1, <3>1, <3>2, RangeFacts DEF Fork, Statuses
  <2>2. CASE ReadErrorPipe \/ PollEof
    BY <2>2 DEF ReadErrorPipe, PollEof
  <2>3. CASE ArmTarget \/ ArmAfter \/ ArmAction
    <3>1. CASE ArmTarget
      BY <3>1 DEF ArmTarget
    <3>2. CASE ArmAfter
      BY <3>2 DEF ArmAfter
    <3>3. CASE ArmAction
      BY <3>3 DEF ArmAction
    <3> QED
      BY <2>3, <3>1, <3>2, <3>3
  <2>4. CASE Reap
    <3>1. proc' \in [Pids -> Ours \cup {"free", "other"}]
      BY <2>4 DEF Reap
    <3> QED
      BY <2>4, <3>1 DEF Reap
  <2>5. CASE DisarmAction \/ DisarmAfter \/ DisarmTarget
    BY <2>5 DEF DisarmAction, DisarmAfter, DisarmTarget
  <2>6. CASE ChildDone
    BY <2>6, SessionAssumption DEF ChildDone
  <2>7. CASE Terminate \/ Catch \/ CheckTriggered \/ Return
    BY <2>7 DEF Terminate, Catch, CheckTriggered, Return
  <2> QED
    BY <1>6, <2>1, <2>2, <2>3, <2>4, <2>5, <2>6, <2>7 DEF Main
<1>7. CASE MainByChance
  <2> USE DEF TypeOK, Goto, Steps, kernel, history, Statuses
  <2>1. CASE SpawnFails \/ FilesystemThrows
    BY <2>1 DEF SpawnFails, FilesystemThrows
  <2>2. CASE PollEofEarly
    <3>1. proc' \in [Pids -> Ours \cup {"free", "other"}] /\ status' \in Statuses
      BY <2>2 DEF PollEofEarly, Ours
    <3> QED
      BY <2>2, <3>1 DEF PollEofEarly
  <2>3. CASE PollThrows
    BY <2>3 DEF PollThrows
  <2> QED
    BY <1>7, <2>1, <2>2, <2>3 DEF MainByChance
<1>8. CASE UNCHANGED vars
  BY <1>8 DEF vars, TypeOK
<1> QED
  BY <1>1, <1>2, <1>3, <1>4, <1>5, <1>6, <1>7, <1>8, <1>9 DEF Next, World

\* Session's variables keep their types.
THEOREM TypeCorrect == Spec => []TypeOK
BY TypeInit, TypeStep, PTL DEF Spec

-----------------------------------------------------------------------------
(* What a handler may meet. *)

\* The second half of WatchFollowsSteps: the child that is attended to.
LEMMA ChildKept ==
    ASSUME TypeOK, WatchFollowsSteps,
           HandleSignal \/ CtrlC \/ World
    PROVE  pc \in Attending => proc'[pid] \in Ours
<1>1. CASE HandleSignal
  <2>1. Fires(Counted(h)) => h.target \in Pids /\ Kill(h.target)
    BY <1>1, CountedFacts DEF HandleSignal, Fires, TypeOK
  <2> QED
    BY <1>1, <2>1, KillTyped DEF HandleSignal, WatchFollowsSteps
<1>2. CASE CtrlC
  BY <1>2 DEF CtrlC, WatchFollowsSteps
<1>3. CASE ChildExecs \/ ChildKeepsSession \/ ChildThrows \/ ChildEnds
  BY <1>3 DEF ChildExecs, ChildKeepsSession, ChildThrows, ChildEnds, WatchFollowsSteps, TypeOK, Ours
<1>4. CASE Grandchild \/ GrandchildEnds
  BY <1>4 DEF Grandchild, GrandchildEnds, WatchFollowsSteps
<1>5. CASE Strangers
  BY <1>5 DEF Strangers, WatchFollowsSteps, TypeOK, Ours
<1> QED
  BY <1>1, <1>2, <1>3, <1>4, <1>5 DEF World

LEMMA WatchStep == TypeOK /\ WatchFollowsSteps /\ [Next]_vars => WatchFollowsSteps'
<1> SUFFICES ASSUME TypeOK, WatchFollowsSteps, [Next]_vars PROVE WatchFollowsSteps'
  OBVIOUS
<1>1. CASE HandleSignal \/ CtrlC \/ World
  <2>1. /\ pc' = pc /\ pid' = pid
        /\ h'.target = h.target /\ h'.after = h.after /\ h'.action = h.action
    BY <1>1, CountedFacts DEF HandleSignal, CtrlC, World, ChildExecs, ChildKeepsSession, ChildThrows,
                              ChildEnds, Grandchild, GrandchildEnds, Strangers, main
  <2>2. pc \in Attending => proc'[pid] \in Ours
    BY <1>1, ChildKept
  <2> QED
    BY <2>1, <2>2 DEF WatchFollowsSteps
<1>2. CASE Main
  <2> USE DEF WatchFollowsSteps, Goto, kernel, history, Attending
  <2>1. CASE Fork
    BY <2>1 DEF Fork, TypeOK, Ours
  <2>2. CASE ReadErrorPipe \/ PollEof
    BY <2>2 DEF ReadErrorPipe, PollEof
  <2>3. CASE ArmTarget
    BY <2>3 DEF ArmTarget, TypeOK
  <2>4. CASE ArmAfter
    BY <2>4 DEF ArmAfter, TypeOK
  <2>5. CASE ArmAction
    BY <2>5 DEF ArmAction, TypeOK
  <2>6. CASE Reap
    BY <2>6 DEF Reap
  <2>7. CASE DisarmAction
    BY <2>7 DEF DisarmAction, TypeOK
  <2>8. CASE DisarmAfter
    BY <2>8 DEF DisarmAfter, TypeOK
  <2>9. CASE DisarmTarget
    BY <2>9 DEF DisarmTarget, TypeOK
  <2>10. CASE ChildDone
    BY <2>10 DEF ChildDone
  <2>11. CASE Terminate \/ Catch \/ CheckTriggered \/ Return
    BY <2>11 DEF Terminate, Catch, CheckTriggered, Return
  <2> QED
    BY <1>2, <2>1, <2>2, <2>3, <2>4, <2>5, <2>6, <2>7, <2>8, <2>9, <2>10, <2>11 DEF Main
<1>3. CASE MainByChance
  <2> USE DEF WatchFollowsSteps, Goto, kernel, history, Attending
  <2>1. CASE SpawnFails \/ FilesystemThrows \/ PollThrows
    BY <2>1 DEF SpawnFails, FilesystemThrows, PollThrows
  <2>2. CASE PollEofEarly
    BY <2>2 DEF PollEofEarly, TypeOK, Ours
  <2> QED
    BY <1>3, <2>1, <2>2 DEF MainByChance
<1>4. CASE UNCHANGED vars
  BY <1>4 DEF vars, WatchFollowsSteps
<1> QED
  BY <1>1, <1>2, <1>3, <1>4 DEF Next

LEMMA WatchInit == Init => WatchFollowsSteps
BY DEF Init, WatchFollowsSteps, Attending

\* At every step of the main thread the handler's statics are set as far as
\* the stores of escalate and disarm have come, and a child that is attended to
\* has not been reaped.
THEOREM Statics == Spec => []WatchFollowsSteps
BY WatchInit, WatchStep, TypeCorrect, PTL DEF Spec

\* Whenever a SIGINT comes, between whichever two stores of the main thread,
\* the handler can only kill the current child; the one step at which the
\* kernel may already have given that pid away is the one after wait4.
THEOREM WatchIsOfTheChild == Spec => []WatchIsOurs
<1>1. WatchFollowsSteps => WatchIsOurs
  BY DEF WatchFollowsSteps, WatchIsOurs, Armed, Attending
<1> QED
  BY <1>1, Statics, PTL

-----------------------------------------------------------------------------
(* Refinement. *)

LEMMA WatchArmed ==
    ASSUME TypeOK, WatchFollowsSteps
    PROVE  /\ Armed <=> pc \in {"poll", "wait", "disarm_action"}
           /\ Armed => h.target = pid /\ pid \in Pids /\ h.after = ForceKillAfter
<1>1. CASE pc \in {"poll", "wait", "disarm_action"}
  <2>1. h.target = pid /\ pid \in Pids /\ h.after = ForceKillAfter /\ h.action = "kill_pid"
    BY <1>1 DEF WatchFollowsSteps, Attending
  <2>2. h.after > 0 /\ h.target > 0
    BY <2>1, PidFacts, SessionAssumption
  <2> QED
    BY <1>1, <2>1, <2>2 DEF Armed
<1>2. CASE pc \notin {"poll", "wait", "disarm_action"}
  BY <1>2 DEF WatchFollowsSteps, Armed
<1> QED
  BY <1>1, <1>2

\* Every step of Session is a step of AtomicWatch or leaves its variables.
LEMMA WatchRefines ==
    TypeOK /\ WatchFollowsSteps /\ WatchFollowsSteps' /\ TypeOK' /\ [Next]_vars
        => [Watch!Next]_(Watch!wvars)
<1> SUFFICES ASSUME TypeOK, WatchFollowsSteps, WatchFollowsSteps', TypeOK', [Next]_vars
             PROVE  [Watch!Next]_(Watch!wvars)
  OBVIOUS
<1> DEFINE w == IF Armed THEN h.target ELSE 0
<1>a. /\ Armed <=> pc \in {"poll", "wait", "disarm_action"}
      /\ Armed => h.target = pid /\ pid \in Pids /\ h.after = ForceKillAfter
  BY WatchArmed
<1>b. Armed' <=> pc' \in {"poll", "wait", "disarm_action"}
  <2>1. CASE pc' \in {"poll", "wait", "disarm_action"}
    <3>1. /\ h'.target = pid' /\ pid' \in Pids
          /\ h'.after = ForceKillAfter /\ h'.action = "kill_pid"
      BY <2>1 DEF WatchFollowsSteps, Attending
    <3>2. h'.after > 0 /\ h'.target > 0
      BY <3>1, PidFacts, SessionAssumption
    <3> QED
      BY <2>1, <3>1, <3>2 DEF Armed
  <2>2. CASE pc' \notin {"poll", "wait", "disarm_action"}
    BY <2>2 DEF WatchFollowsSteps, Armed
  <2> QED
    BY <2>1, <2>2
<1>s. ASSUME w' = w, h'.flags = h.flags, shot' = shot PROVE UNCHANGED Watch!wvars
  BY <1>s DEF Watch!wvars
<1>1. CASE HandleSignal
  <2>1. Armed' = Armed /\ w' = w /\ h'.flags = Bump(h.flags)
    BY <1>1, CountedFacts DEF HandleSignal, Armed
  <2>2. Fires(Counted(h)) <=> Armed /\ Bump(h.flags) >= ForceKillAfter
    BY <1>a, CountedFacts DEF Fires, Armed
  <2>3. shot' = IF w # 0 /\ h'.flags >= ForceKillAfter THEN w ELSE shot
    <3>1. Armed => w # 0
      BY PidFacts, <1>a
    <3> QED
      BY <1>1, <2>1, <2>2, <3>1 DEF HandleSignal, Kill
  <2> QED
    BY <2>1, <2>3 DEF Watch!Next, Watch!Deliver, Bump
<1>2. CASE CtrlC \/ World
  BY <1>2, <1>s DEF CtrlC, World, ChildExecs, ChildKeepsSession, ChildThrows,
                    ChildEnds, Grandchild, GrandchildEnds, Strangers, main, history, Armed
<1>3. CASE ArmAction
  <2>1. w = 0 /\ w' = pid /\ pid \in Pids /\ h'.flags = h.flags /\ shot' = shot
    BY <1>3, <1>a, <1>b DEF ArmAction, Goto, history, TypeOK, WatchFollowsSteps, Attending
  <2> QED
    BY <2>1 DEF Watch!Next, Watch!Arm
<1>4. CASE DisarmAction
  <2>1. w' = 0 /\ h'.flags = h.flags /\ shot' = shot
    BY <1>4, <1>b DEF DisarmAction, Goto, history, TypeOK
  <2> QED
    BY <2>1 DEF Watch!Next, Watch!Disarm
<1>5. CASE ArmTarget \/ ArmAfter \/ DisarmAfter \/ DisarmTarget
  <2>1. ~Armed /\ ~Armed' /\ h'.flags = h.flags /\ shot' = shot
    BY <1>5, <1>a, <1>b DEF ArmTarget, ArmAfter, DisarmAfter, DisarmTarget, Goto, history, TypeOK
  <2> QED
    BY <1>s, <2>1
<1>6. CASE Fork \/ ReadErrorPipe \/ PollEof \/ Reap \/ ChildDone \/ Terminate \/ Catch \/ CheckTriggered \/ Return
  BY <1>6, <1>s DEF Fork, ReadErrorPipe, PollEof, Reap, ChildDone, Terminate, Catch, CheckTriggered, Return,
                    history, Armed
<1>7. CASE MainByChance
  BY <1>7, <1>s DEF MainByChance, SpawnFails, FilesystemThrows, PollEofEarly, PollThrows, history, Armed
<1>8. CASE UNCHANGED vars
  BY <1>8, <1>s DEF vars, Armed
<1> QED
  BY <1>1, <1>2, <1>3, <1>4, <1>5, <1>6, <1>7, <1>8 DEF Next, Main

\* signal_handler's separate stores implement a watch that begins and ends at
\* one instant, wherever a signal comes between them.
THEOREM ImplementsAtomicWatch == Spec => WatchSpec
<1>1. Init => Watch!Init
  BY DEF Init, Watch!Init, Armed
<1> QED
  BY <1>1, WatchRefines, Statics, TypeCorrect, PTL DEF Spec, WatchSpec, Watch!Spec

-----------------------------------------------------------------------------
(* No child is left behind. *)

LEMMA OnlyChildStep ==
    TypeOK /\ WatchFollowsSteps /\ OnlyChild /\ [Next]_vars => OnlyChild'
<1> SUFFICES ASSUME TypeOK, WatchFollowsSteps, OnlyChild, [Next]_vars PROVE OnlyChild'
  OBVIOUS
<1>1. CASE HandleSignal
  <2>1. \A p \in Pids : proc'[p] \in Ours => proc[p] \in Ours
    BY <1>1, CountedFacts, KillTyped DEF HandleSignal, Fires, TypeOK
  <2> QED
    BY <1>1, <2>1 DEF HandleSignal, main, OnlyChild
<1>2. CASE CtrlC \/ World
  <2>1. \A p \in Pids : proc'[p] \in Ours => proc[p] \in Ours
    BY <1>2 DEF CtrlC, World, ChildExecs, ChildKeepsSession, ChildThrows,
                ChildEnds, Grandchild, GrandchildEnds, Strangers, TypeOK, Ours
  <2>2. UNCHANGED <<pc, pid, thrown>>
    BY <1>2 DEF CtrlC, World, ChildExecs, ChildKeepsSession, ChildThrows,
                ChildEnds, Grandchild, GrandchildEnds, Strangers, main
  <2> QED
    BY <2>1, <2>2 DEF OnlyChild
<1>3. CASE Main
  <2> USE DEF OnlyChild, Goto, kernel, history, Attending
  <2>1. CASE Fork
    BY <2>1 DEF Fork, TypeOK, Ours
  <2>2. CASE ReadErrorPipe \/ PollEof \/ ArmTarget \/ ArmAfter \/ ArmAction
    BY <2>2 DEF ReadErrorPipe, PollEof, ArmTarget, ArmAfter, ArmAction
  <2>3. CASE Reap
    BY <2>3 DEF Reap, TypeOK, Ours
  <2>4. CASE DisarmAction \/ DisarmAfter \/ DisarmTarget
    BY <2>4 DEF DisarmAction, DisarmAfter, DisarmTarget
  <2>5. CASE ChildDone
    BY <2>5 DEF ChildDone, Failed
  <2>6. CASE Terminate \/ Catch \/ CheckTriggered \/ Return
    BY <2>6 DEF Terminate, Catch, CheckTriggered, Return
  <2> QED
    BY <1>3, <2>1, <2>2, <2>3, <2>4, <2>5, <2>6 DEF Main
<1>4. CASE MainByChance
  <2> USE DEF OnlyChild, Goto, kernel, history, Attending
  <2>1. CASE SpawnFails \/ FilesystemThrows \/ PollThrows
    BY <2>1 DEF SpawnFails, FilesystemThrows, PollThrows
  <2>2. CASE PollEofEarly
    BY <2>2 DEF PollEofEarly, TypeOK, Ours
  <2> QED
    BY <1>4, <2>1, <2>2 DEF MainByChance
<1>5. CASE UNCHANGED vars
  BY <1>5 DEF vars, OnlyChild
<1> QED
  BY <1>1, <1>2, <1>3, <1>4, <1>5 DEF Next

\* At most the current child is unreaped, and only while it is attended to or
\* was abandoned by an exception.
THEOREM OnlyTheChild == Spec => []OnlyChild
<1>1. Init => OnlyChild
  BY DEF Init, OnlyChild, Ours
<1> QED
  BY <1>1, OnlyChildStep, Statics, TypeCorrect, PTL DEF Spec

\* Baldr does not end before it has reaped every child it forked, unless an
\* exception other than a child's own failure took it past the wait.
THEOREM ChildrenAreReaped == Spec => []NoOrphan
<1>1. OnlyChild => NoOrphan
  BY DEF OnlyChild, NoOrphan, Attending
<1> QED
  BY <1>1, OnlyTheChild, PTL

-----------------------------------------------------------------------------
(* What is logged of an interrupted child. *)

LEMMA CountsUp == ASSUME TypeOK PROVE Counted(h).flags > 0
BY SessionAssumption, CountedFacts DEF Bump, TypeOK

\* A delivery: it is counted, and hurts a child only where a watch is armed.
LEMMA KnownAtSignal ==
    TypeOK /\ WatchFollowsSteps /\ InterruptIsKnown /\ HandleSignal => InterruptIsKnown'
<1> SUFFICES ASSUME TypeOK, WatchFollowsSteps, InterruptIsKnown, HandleSignal PROVE InterruptIsKnown'
  OBVIOUS
<1>1. h'.flags > 0 /\ UNCHANGED <<pc, job, pid, how, told>>
  BY CountsUp DEF HandleSignal, main
<1>2. \A p \in Pids : /\ proc'[p] \in Ours <=> proc[p] \in Ours
                      /\ proc'[p] = "starting" => proc[p] = "starting"
  <2>1. CASE Fires(Counted(h))
    <3>1. h.target \in Pids /\ Kill(h.target)
      BY <2>1, CountedFacts DEF HandleSignal, Fires, TypeOK
    <3>2. \A p \in Pids : proc'[p] = "starting" => proc[p] = "starting"
      BY <3>1 DEF Kill, TypeOK
    <3> QED
      BY <3>1, <3>2, KillTyped
  <2>2. CASE ~Fires(Counted(h))
    BY <2>2 DEF HandleSignal
  <2> QED
    BY <2>1, <2>2
<1>3. how = "failure_logged" => seen' = seen /\ status' = status
  <2> SUFFICES ASSUME how = "failure_logged" PROVE seen' = seen /\ status' = status
    OBVIOUS
  <2>1. pc \in {"check", "returning", "exited"}
    BY DEF InterruptIsKnown
  <2>2. ~Fires(Counted(h))
    BY <2>1, WatchArmed, CountedFacts DEF Fires, Armed
  <2> QED
    BY <2>1, <2>2 DEF HandleSignal, Attending
<1>4. pc \in {"arm_target", "arm_after", "arm_action", "poll", "wait"} => pid \in Pids
  BY DEF WatchFollowsSteps, Attending
<1> QED
  BY <1>1, <1>2, <1>3, <1>4 DEF InterruptIsKnown, NoFailureForInterrupt, Child

\* The children and the kernel.
LEMMA KnownInWorld ==
    TypeOK /\ WatchFollowsSteps /\ InterruptIsKnown /\ (CtrlC \/ World) => InterruptIsKnown'
<1> SUFFICES ASSUME TypeOK, WatchFollowsSteps, InterruptIsKnown, CtrlC \/ World PROVE InterruptIsKnown'
  OBVIOUS
<1> USE DEF InterruptIsKnown, NoFailureForInterrupt, Child, Ours
<1>1. CASE CtrlC
  <2>1. UNCHANGED <<pc, job, pid, how, h, proc, status, seen>> /\ pending'
    BY <1>1 DEF CtrlC, main, history
  <2>2. told' = (told \/ (pid \in Pids /\ proc[pid] = "running" /\ Child.interactive))
    BY <1>1 DEF CtrlC
  <2> QED
    BY <2>1, <2>2
<1>2. CASE ChildExecs \/ ChildKeepsSession \/ ChildThrows \/ ChildEnds
  <2>1. /\ UNCHANGED <<pc, job, pid, how, h, pending, seen, told>>
        /\ pid \in Pids /\ proc[pid] \in {"starting", "running"}
        /\ proc'[pid] \in {"running", "zombie"}
    BY <1>2 DEF ChildExecs, ChildKeepsSession, ChildThrows, ChildEnds, main, history, TypeOK
  <2>2. status' \in {"sigint", "sigkill"} => pending \/ h.flags > 0
    BY <1>2 DEF ChildExecs, ChildKeepsSession, ChildThrows, ChildEnds
  <2>3. how = "failure_logged" => status' \notin {"sigint", "sigkill"}
    BY <1>2 DEF ChildExecs, ChildKeepsSession, ChildThrows, ChildEnds, Attending
  <2> QED
    BY <2>1, <2>2, <2>3
<1>3. CASE Grandchild \/ GrandchildEnds
  BY <1>3 DEF Grandchild, GrandchildEnds, main, history
<1>4. CASE Strangers
  <2>1. /\ UNCHANGED <<pc, job, pid, how, h, pending, status, told, seen>>
        /\ \A p \in Pids : proc[p] # proc'[p] => proc'[p] \in {"free", "other"}
    BY <1>4 DEF Strangers, main, history, TypeOK
  <2>2. pc \in {"arm_target", "arm_after", "arm_action", "poll", "wait"} => pid \in Pids
    BY DEF WatchFollowsSteps, Attending
  <2> QED
    BY <2>1, <2>2
<1> QED
  BY <1>1, <1>2, <1>3, <1>4 DEF World

\* The main thread, which runs when no SIGINT is pending.
LEMMA KnownInMain ==
    TypeOK /\ WatchFollowsSteps /\ OnlyChild /\ InterruptIsKnown /\ (Main \/ MainByChance)
        => InterruptIsKnown'
<1> SUFFICES ASSUME TypeOK, WatchFollowsSteps, OnlyChild, InterruptIsKnown, Main \/ MainByChance
             PROVE InterruptIsKnown'
  OBVIOUS
<1>0. ~pending
  BY DEF Main, MainByChance
<1> USE <1>0 DEF InterruptIsKnown, NoFailureForInterrupt, Child, Ours, Goto, kernel, history, Attending
<1>1. CASE Fork
  BY <1>1 DEF Fork, TypeOK
<1>2. CASE ReadErrorPipe \/ PollEof \/ SpawnFails \/ FilesystemThrows \/ PollThrows
  BY <1>2 DEF ReadErrorPipe, PollEof, SpawnFails, FilesystemThrows, PollThrows
<1>3. CASE ArmTarget \/ ArmAfter \/ ArmAction
  BY <1>3 DEF ArmTarget, ArmAfter, ArmAction, TypeOK
<1>4. CASE PollEofEarly
  BY <1>4 DEF PollEofEarly, TypeOK, WatchFollowsSteps
<1>5. CASE Reap
  BY <1>5 DEF Reap, TypeOK, WatchFollowsSteps
<1>6. CASE DisarmAction \/ DisarmAfter \/ DisarmTarget
  BY <1>6 DEF DisarmAction, DisarmAfter, DisarmTarget, TypeOK
<1>7. CASE ChildDone
  <2>1. CASE UNCHANGED job
    BY <1>7, <2>1 DEF ChildDone
  <2>2. CASE ~thrown
    <3>1. pid \in Pids => proc[pid] \notin Ours
      BY <1>7, <2>2 DEF ChildDone, OnlyChild
    <3> QED
      BY <1>7, <3>1 DEF ChildDone
  <2> QED
    BY <1>7, <2>1, <2>2 DEF ChildDone, Failed
<1>8. CASE Catch
  BY <1>8 DEF Catch, TypeOK
<1>9. CASE Terminate \/ CheckTriggered \/ Return
  BY <1>9 DEF Terminate, CheckTriggered, Return
<1> QED
  BY <1>1, <1>2, <1>3, <1>4, <1>5, <1>6, <1>7, <1>8, <1>9 DEF Main, MainByChance

\* An interrupt is never reported as a failure: whenever the SIGINT or the
\* SIGKILL it led to ended the child, entrypoint's catch has a count to see.
THEOREM InterruptIsNoFailure == Spec => []NoFailureForInterrupt
<1>1. Init => InterruptIsKnown
  BY DEF Init, InterruptIsKnown, NoFailureForInterrupt, Attending, Ours
<1>2. TypeOK /\ WatchFollowsSteps /\ OnlyChild /\ InterruptIsKnown /\ [Next]_vars => InterruptIsKnown'
  <2>1. InterruptIsKnown /\ UNCHANGED vars => InterruptIsKnown'
    BY DEF vars, InterruptIsKnown, NoFailureForInterrupt, Child
  <2> QED
    BY <2>1, KnownAtSignal, KnownInWorld, KnownInMain DEF Next
<1>3. InterruptIsKnown => NoFailureForInterrupt
  BY DEF InterruptIsKnown
<1> QED
  BY <1>1, <1>2, <1>3, TypeCorrect, Statics, OnlyTheChild, PTL DEF Spec
=============================================================================
