----------------------------- MODULE MCPlatform -----------------------------
(* An instance of Platform for TLC. *)
EXTENDS Platform, TLC

(* A session may be idle for less time than an assertion could run. *)
ShortPolicy == [ idle |-> 1, absolute |-> 2 ]

(* Processes are interchangeable. *)
Interchangeable == Permutations(Processes)
=============================================================================
