---------------------------- MODULE MCMapPolling ----------------------------
(* Instances of MapPolling for TLC. *)
EXTENDS MapPolling

\* Two CPUs, one of them busy; equal and crossing timestamps occur.
TwoCPUBound == [c \in 0 .. 1 |-> IF c = 0 THEN 3 ELSE 2]
BusyCPUBound == [c \in 0 .. 1 |-> IF c = 0 THEN 3 ELSE 1]

\* Pairs of events of a CPU share a timestamp; the later CPU's clock values
\* fall between and before those of the earlier one.
PairedClock(c, n) == 2 * ((n + 1) \div 2) - c
=============================================================================
