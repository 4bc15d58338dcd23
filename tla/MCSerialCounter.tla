-------------------------- MODULE MCSerialCounter --------------------------
(***************************************************************************)
(* Model values for SerialCounter: two threads of one process share a      *)
(* counter object; a second process has its own.                           *)
(***************************************************************************)
EXTENDS SerialCounter, TLC

CONSTANTS a, b, c, o1, o2, p1, p2

\* Two threads of one process with one object, and a second process.
SharedCounterOf == (a :> o1) @@ (b :> o1) @@ (c :> o2)
TwoProcesses    == (a :> p1) @@ (b :> p1) @@ (c :> p2)

=============================================================================
