------------------------------ MODULE MCSession ------------------------------
(* Small instances of Session: the children of `baldr run`. *)
EXTENDS Session

Streamed == [interactive |-> FALSE, ignored |-> FALSE]
Target == [interactive |-> TRUE, ignored |-> FALSE]
MakeClean == [interactive |-> FALSE, ignored |-> TRUE]

\* cmake's configure step, cmake --build, the target.
CMakePlan == <<Streamed, Streamed, Target>>
\* make clean, make, the target.
MakePlan == <<MakeClean, Streamed, Target>>
=============================================================================
