---------------------------- MODULE MCEnforcement ----------------------------
(* Instances of Enforcement for TLC. *)
EXTENDS Enforcement

\* Process 1 is the parent of process 2, and its own.
TheParents == [t \in Tgids |-> 1]
===============================================================================
