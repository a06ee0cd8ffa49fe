---------------------------- MODULE AtomicWatch ----------------------------
(***************************************************************************)
(* What utl::signal_handler promises to the code that uses it: one child at *)
(* a time is watched, arming and disarming take effect at one instant, and  *)
(* from the ForceKillAfter-th delivery on every delivery sends SIGKILL to   *)
(* the child that is watched then, and to no other process.                 *)
(***************************************************************************)
EXTENDS Naturals

CONSTANTS
    Pids,             \* process ids
    ForceKillAfter,   \* signal_handler::ForceKillAfter
    MaxCount          \* deliveries are counted up to here

VARIABLES
    watched,          \* the pid that is watched, 0 for none
    count,            \* deliveries so far
    shot              \* the pid the last SIGKILL went to, 0 for none

wvars == <<watched, count, shot>>

Init == watched = 0 /\ count = 0 /\ shot = 0

Arm(p) == watched = 0 /\ watched' = p /\ UNCHANGED <<count, shot>>

Disarm == watched' = 0 /\ UNCHANGED <<count, shot>>

Deliver ==
    /\ count' = IF count < MaxCount THEN count + 1 ELSE count
    /\ shot' = IF watched # 0 /\ count' >= ForceKillAfter THEN watched ELSE shot
    /\ UNCHANGED watched

Next == Deliver \/ Disarm \/ \E p \in Pids : Arm(p)

Spec == Init /\ [][Next]_wvars
=============================================================================
