---------------------------- MODULE MCProcessView ----------------------------
(* An instance of ProcessView for TLC. *)
EXTENDS ProcessView, TLC

CONSTANTS a, b, x, y

\* Threads are alike, and so are the files they open.
Alike == Permutations(Threads) \cup Permutations(Paths)
===============================================================================
