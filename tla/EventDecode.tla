----------------------------- MODULE EventDecode -----------------------------
(***************************************************************************)
(* DecodeEvent as the pump uses it: which samples are events, and what     *)
(* wall-clock time an event gets.  A sample is the fields the decoder      *)
(* checks; it is read on the machine that wrote it, so byte order is left  *)
(* out.                                                                    *)
(***************************************************************************)
EXTENDS Integers

CONSTANTS
    EventSize,      \* bytes of an ABI v1 sample
    EventV2Size,    \* bytes of an ABI v2 sample
    KnownFlags,     \* the flag bits this decoder knows
    MaxInt64        \* the largest time.Duration

ASSUME DecodeAssumption ==
    /\ EventSize \in Nat /\ EventV2Size \in Nat /\ EventV2Size > EventSize + 7
    /\ MaxInt64 \in Nat

LastPhase == 5      \* PhaseObservation
LastSource == 4     \* SourceSched

\* perf pads a sample with up to seven bytes.
Padded(len, size) == size <= len /\ len <= size + 7

DecodeEvent(raw) ==
    \/ Padded(raw.len, EventSize)
    \/ /\ Padded(raw.len, EventV2Size)
       /\ raw.version = 2
       /\ raw.phase <= LastPhase /\ raw.source <= LastSource
       /\ raw.flags \subseteq KnownFlags

\* The base of the conversion, taken when the first event is decoded: the
\* uptime, or the event's own time when /proc/uptime cannot be read.
EventClock(now, uptime, ts) == [wall |-> now, mono |-> IF uptime >= 0 THEN uptime ELSE ts]

\* eventTimestamp once the base is set; a distance no Duration holds is cut.
EventTimestamp(ts, clock, now) ==
    LET d == ts - clock.mono
    IN  IF ts = 0 THEN now
        ELSE IF d > MaxInt64 \/ -d > MaxInt64 THEN clock.wall ELSE clock.wall + d
===============================================================================
