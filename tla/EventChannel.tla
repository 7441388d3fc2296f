----------------------------- MODULE EventChannel -----------------------------
(***************************************************************************)
(* What the map-polling transport promises its caller: per CPU a first-in  *)
(* first-out channel of whole events that may drop a run of events, counts *)
(* each one it drops, and drops only when the CPU is Slots or more events  *)
(* ahead.  Events of different CPUs may be reordered inside the batch that *)
(* waits for the caller; events of one CPU may not.                        *)
(***************************************************************************)
EXTENDS Integers, Sequences

CONSTANTS CPUs, Slots

VARIABLES
    sent,      \* events published by each CPU
    settled,   \* events of each CPU accepted or dropped so far
    dropped,   \* events of each CPU counted as lost
    batch      \* accepted events waiting for the caller

chan == <<sent, settled, dropped, batch>>

\* Event n of a CPU, as the two halves of its payload.
Event(c, n) == [cpu |-> c, lo |-> n, hi |-> n]

Init ==
    /\ sent = [c \in CPUs |-> 0]
    /\ settled = [c \in CPUs |-> 0]
    /\ dropped = [c \in CPUs |-> 0]
    /\ batch = <<>>

Send(c) ==
    /\ sent' = [sent EXCEPT ![c] = @ + 1]
    /\ UNCHANGED <<settled, dropped, batch>>

Accept(c) ==
    /\ settled[c] < sent[c]
    /\ settled' = [settled EXCEPT ![c] = @ + 1]
    /\ batch' = Append(batch, Event(c, settled[c] + 1))
    /\ UNCHANGED <<sent, dropped>>

Drop(c) ==
    /\ sent[c] >= settled[c] + Slots
    /\ settled'[c] \in settled[c] + 1 .. sent[c]
    /\ settled' = [settled EXCEPT ![c] = settled'[c]]
    /\ dropped' = [dropped EXCEPT ![c] = @ + settled'[c] - settled[c]]
    /\ UNCHANGED <<sent, batch>>

\* The batch is permuted; of two events of one CPU the earlier stays first.
Reorder ==
    /\ \E perm \in [DOMAIN batch -> DOMAIN batch] :
        /\ \A k, l \in DOMAIN batch : perm[k] = perm[l] => k = l
        /\ \A k, l \in DOMAIN batch :
            k < l /\ batch[perm[k]].cpu = batch[perm[l]].cpu => perm[k] < perm[l]
        /\ batch' = [k \in DOMAIN batch |-> batch[perm[k]]]
    /\ UNCHANGED <<sent, settled, dropped>>

HandOver ==
    /\ batch # <<>>
    /\ batch' = Tail(batch)
    /\ UNCHANGED <<sent, settled, dropped>>

Next ==
    \/ \E c \in CPUs : Send(c) \/ Accept(c) \/ Drop(c)
    \/ Reorder
    \/ HandOver

Spec == Init /\ [][Next]_chan
===============================================================================
