------------------------------ MODULE EventPump ------------------------------
(***************************************************************************)
(* Events from the kernel's buffer to handle: the pump goroutine of        *)
(* Sensor.Events with the goroutine that closes the reader, the select     *)
(* loop of Agent.Run with its drop counters, the goroutines that live as   *)
(* long as the context, and monitor's way out.                             *)
(***************************************************************************)
EXTENDS EventDecode, Sequences, Functions, FiniteSets

CONSTANTS
    Samples,        \* what the kernel side may put into the buffer
    Perf,           \* TRUE: perf buffer (legacy_perf), FALSE: ring buffer
    RingSize,       \* records the kernel buffer holds
    QueueSize,      \* capacity of the events channel
    Workers,        \* hash worker, blacklist scanner and watchdog
    MaxEvents, MaxFaults    \* bounds: events emitted, failures

ASSUME PumpAssumption == RingSize \in Nat \ {0} /\ QueueSize \in Nat \ {0}

\* The kernel's clock, here one tick per event, stays below 292 years.
ASSUME TimeAssumption == MaxEvents \in Nat /\ MaxEvents <= MaxInt64

VARIABLES
    now,        \* the kernel's clock, which moves with the events
    emitted,    \* events the hooks have tried to emit
    ring,       \* records in the kernel buffer: [id, ts, raw], or [lost]
    missed,     \* perf: samples lost since the last lost record
    drops,      \* ringbuf_drops
    lost,       \* samples the perf reader was told it lost
    faults,     \* failures of the environment so far
    open,       \* whether the reader is open
    pump,       \* where the pump goroutine is
    hand,       \* the event the pump is sending
    clock,      \* eventClock, or <<>> before the first event
    events, errs, closed,   \* the channels, and the ones that are closed
    closer,     \* the goroutine that closes the reader
    nilErrs,    \* Run no longer selects on errs
    result,     \* how Run returned
    handled,    \* events handled, in order
    last,       \* [drops, gaps]: the totals last seen by logRingbufDrops
    logged,     \* [drops, gaps]: sum of the deltas logged
    cancelled,  \* ctx.Done
    main,       \* where monitor is
    worker,     \* the other goroutines: idle, busy or done
    bad, abandoned  \* history: undecodable records, events given up

kernel == <<now, emitted, ring, missed, drops>>
pumping == <<pump, hand, clock, lost, bad, abandoned>>
running == <<nilErrs, result, handled, last, logged>>
others == <<closer, cancelled, main, worker>>
vars == <<kernel, pumping, running, others, faults, open, events, errs, closed>>

IsLost(record) == "lost" \in DOMAIN record

Init ==
    /\ now = 1 /\ emitted = 0 /\ ring = <<>> /\ missed = 0 /\ drops = 0
    /\ pump = "read" /\ hand = <<>> /\ clock = <<>> /\ lost = 0 /\ bad = 0 /\ abandoned = <<>>
    /\ nilErrs = FALSE /\ result = "none" /\ handled = <<>>
    /\ last = [drops |-> 0, gaps |-> 0] /\ logged = [drops |-> 0, gaps |-> 0]
    /\ closer = "wait" /\ cancelled = FALSE /\ main = "run" /\ worker = [w \in Workers |-> "idle"]
    /\ faults = 0 /\ open = TRUE /\ events = <<>> /\ errs = <<>> /\ closed = {}

-----------------------------------------------------------------------------
(* The kernel side *)

\* The events in the buffer; a lost record is small beside them.
Waiting == Cardinality({i \in DOMAIN ring : ~IsLost(ring[i])})

\* A hook emits: the record, after the count of samples lost before it (perf).
Emit(raw) ==
    LET id == emitted + 1
        told == IF missed > 0 THEN <<[lost |-> missed]>> ELSE <<>>
        records == told \o <<[id |-> id, ts |-> now, raw |-> raw]>>
        room == Waiting < RingSize
    IN  /\ emitted < MaxEvents /\ main # "exited" /\ emitted' = id /\ now' = now + 1
        /\ ring' = IF room THEN ring \o records ELSE ring
        /\ drops' = IF room THEN drops ELSE drops + 1
        /\ missed' = IF ~Perf \/ room THEN 0 ELSE missed + 1
        /\ UNCHANGED <<pumping, running, others, faults, open, events, errs, closed>>

-----------------------------------------------------------------------------
(* The pump *)

MutBaseEachTime(ts) == {EventClock(now, up, ts) : up \in {now, -1}}

\* eventClockOnce: /proc/uptime may be unreadable when the first event comes.
Clocks(ts) == IF clock # <<>> THEN {clock} ELSE {EventClock(now, up, ts) : up \in {now, -1}}

\* An error is offered to Run; when one is waiting already it is dropped.
ErrsAfterBad == IF errs = <<>> THEN <<"decode">> ELSE errs

ReadRecord ==
    /\ pump = "read" /\ open /\ ring # <<>>
    /\ LET r == Head(ring) IN
       /\ ring' = Tail(ring)
       /\ \/ /\ IsLost(r) /\ lost' = lost + r.lost
             /\ UNCHANGED <<pump, hand, clock, bad, errs>>
          \/ /\ ~IsLost(r) /\ DecodeEvent(r.raw)
             /\ \E c \in Clocks(r.ts) :
                 clock' = c /\ hand' = <<[id |-> r.id, ts |-> r.ts, at |-> EventTimestamp(r.ts, c, now)]>>
             /\ pump' = "send" /\ UNCHANGED <<lost, bad, errs>>
          \/ /\ ~IsLost(r) /\ ~DecodeEvent(r.raw)
             /\ bad' = bad + 1 /\ errs' = ErrsAfterBad
             /\ UNCHANGED <<pump, hand, clock, lost>>
    /\ UNCHANGED <<now, emitted, missed, drops, abandoned, running, others, faults, open, events, closed>>

\* Read fails: the reader was closed, or something else went wrong.
ReadFails ==
    /\ pump = "read"
    /\ \/ ~open /\ pump' = "end" /\ faults' = faults
       \/ /\ open /\ faults < MaxFaults /\ faults' = faults + 1
          /\ pump' = IF cancelled THEN "end" ELSE "report"
    /\ UNCHANGED <<hand, clock, lost, bad, abandoned, kernel, running, others, open, events, errs, closed>>

Report ==
    /\ pump = "report" /\ pump' = "end"
    /\ \/ errs = <<>> /\ errs' = <<"read">>
       \/ cancelled /\ errs' = errs
    /\ UNCHANGED <<hand, clock, lost, bad, abandoned, kernel, running, others, faults, open, events, closed>>

MutOneShort == Len(events) < QueueSize - 1

HasRoom == Len(events) < QueueSize

MutSendOrDrop ==
    /\ pump = "send" /\ hand' = <<>> /\ pump' = "read"
    /\ events' = IF HasRoom THEN events \o hand ELSE events
    /\ UNCHANGED <<clock, lost, bad, abandoned, kernel, running, others, faults, open, errs, closed>>

\* The pump waits for room in the channel or for the end.
Send ==
    /\ pump = "send" /\ hand' = <<>>
    /\ \/ /\ HasRoom /\ pump' = "read" /\ abandoned' = abandoned
          /\ events' = events \o hand
       \/ /\ cancelled /\ pump' = "end" /\ events' = events
          /\ abandoned' = hand
    /\ UNCHANGED <<clock, lost, bad, kernel, running, others, faults, open, errs, closed>>

\* The deferred closes, last registered first.
Closes == [end |-> "close_errs", close_errs |-> "close_events", close_events |-> "done"]

PumpEnds ==
    /\ pump \in DOMAIN Closes /\ pump' = Closes[pump]
    /\ closed' = closed \cup {CASE pump = "end" -> "stopCloser"
                                [] pump = "close_errs" -> "errs"
                                [] OTHER -> "events"}
    /\ UNCHANGED <<hand, clock, lost, bad, abandoned, kernel, running, others, faults, open, events, errs>>

\* The closer goroutine also ends with the pump.
CloserWakes == cancelled \/ "stopCloser" \in closed

Closer ==
    /\ closer = "wait" /\ CloserWakes /\ closer' = "done"
    /\ \/ cancelled /\ open' = FALSE
       \/ "stopCloser" \in closed /\ open' = open
    /\ UNCHANGED <<kernel, pumping, running, cancelled, main, worker, faults, events, errs, closed>>

-----------------------------------------------------------------------------
(* Run, its select loop: one action per case, any ready case may be taken *)

Selecting == main = "run" /\ result = "none"

Return(how) == result' = how

RunDone ==
    /\ Selecting /\ cancelled /\ Return("nil")
    /\ UNCHANGED <<nilErrs, handled, last, logged, kernel, pumping, others, faults, open, events, errs, closed>>

\* A closed errs is not selected on again.
ErrsClosed == nilErrs' = TRUE /\ result' = result

RunErr ==
    /\ Selecting /\ ~nilErrs
    /\ \/ errs # <<>> /\ errs' = <<>> /\ Return("error") /\ nilErrs' = nilErrs
       \/ errs = <<>> /\ "errs" \in closed /\ errs' = errs /\ ErrsClosed
    /\ UNCHANGED <<handled, last, logged, kernel, pumping, others, faults, open, events, closed>>

RunEvent ==
    /\ Selecting
    /\ \/ /\ events # <<>> /\ events' = Tail(events) /\ result' = result
          /\ handled' = Append(handled, Head(events))
       \/ /\ events = <<>> /\ "events" \in closed /\ Return("nil")
          /\ UNCHANGED <<events, handled>>
    /\ UNCHANGED <<nilErrs, last, logged, kernel, pumping, others, faults, open, errs, closed>>

Gaps == lost    \* CaptureGaps: what the reader lost, besides the kernel's own counter

MutDeltaFromZero(current, previous) == current

\* ringbufDropDelta and captureGapDelta.
Delta(current, previous) == IF current < previous THEN current ELSE current - previous

\* logRingbufDrops: a counter that cannot be read ends the round.
LogRingbufDrops(readable) ==
    LET seen == [drops |-> IF readable >= 1 THEN drops ELSE last.drops,
                 gaps |-> IF readable = 2 THEN Gaps ELSE last.gaps]
        add(f) == IF readable >= (IF f = "drops" THEN 1 ELSE 2) THEN Delta(seen[f], last[f]) ELSE 0
    IN  /\ Selecting
        /\ last' = seen
        /\ logged' = [f \in {"drops", "gaps"} |-> logged[f] + add(f)]
        /\ UNCHANGED <<nilErrs, result, handled, kernel, pumping, others, open, events, errs, closed>>

MutOnlyWithGaps == Gaps > 0 /\ LogRingbufDrops(2) /\ faults' = faults

RunDropTick == LogRingbufDrops(2) /\ faults' = faults
RunDropTickFails == \E readable \in 0 .. 1 :
    faults < MaxFaults /\ faults' = faults + 1 /\ LogRingbufDrops(readable)

-----------------------------------------------------------------------------
(* monitor and the goroutines that only the context ends *)

Signal ==
    /\ ~cancelled /\ cancelled' = TRUE
    /\ UNCHANGED <<closer, main, worker, kernel, pumping, running, faults, open, events, errs, closed>>

MutCloseOnly == cancelled

\* stop() of signal.NotifyContext, deferred before s.Close().
StopContext == TRUE

\* Run has returned: s.Close(), then stop(), then the process ends.
MonitorReturns ==
    /\ result # "none"
    /\ \/ main = "run" /\ main' = "close" /\ open' = FALSE /\ cancelled' = cancelled
       \/ main = "close" /\ main' = "exited" /\ open' = open /\ cancelled' = StopContext
    /\ UNCHANGED <<closer, worker, kernel, pumping, running, faults, events, errs, closed>>

\* A job, a scan or a heartbeat; it is finished before the next select.
WorkerStep(w) ==
    /\ \/ worker[w] = "idle" /\ worker' = [worker EXCEPT ![w] = "busy"]
       \/ worker[w] = "busy" /\ worker' = [worker EXCEPT ![w] = "idle"]
    /\ UNCHANGED <<closer, cancelled, main, kernel, pumping, running, faults, open, events, errs, closed>>

WorkerEnds(w) ==
    /\ worker[w] = "idle" /\ cancelled /\ worker' = [worker EXCEPT ![w] = "done"]
    /\ UNCHANGED <<closer, cancelled, main, kernel, pumping, running, faults, open, events, errs, closed>>

Pump == ReadRecord \/ ReadFails \/ Report \/ Send \/ PumpEnds

Next ==
    \/ Signal \/ \E raw \in Samples : Emit(raw)
    \/ Pump \/ Closer
    \/ RunDone \/ RunErr \/ RunEvent \/ RunDropTick \/ RunDropTickFails
    \/ MonitorReturns \/ \E w \in Workers : WorkerStep(w) \/ WorkerEnds(w)

\* The scheduler runs every goroutine, a select picks at random among the
\* ready cases, and timers keep firing.
Spec ==
    /\ Init /\ [][Next]_vars
    /\ WF_vars(Pump) /\ WF_vars(Closer) /\ WF_vars(MonitorReturns)
    /\ WF_vars(RunDone) /\ WF_vars(RunErr) /\ WF_vars(RunEvent) /\ WF_vars(RunDropTick)
    /\ \A w \in Workers : WF_vars(WorkerStep(w)) /\ SF_vars(WorkerEnds(w))

-----------------------------------------------------------------------------
(* Properties *)

InFlight == handled \o events \o hand

\* Between the hook and handle no event is lost, doubled or overtaken unless it
\* was counted in ringbuf_drops: what was emitted is handled, under way, dropped,
\* undecodable, or the one event the pump held when the context ended.
EverythingAccounted ==
    /\ emitted = Len(InFlight) + Len(abandoned) + bad + drops + Waiting
    /\ \A i, j \in DOMAIN InFlight : i < j => InFlight[i].id < InFlight[j].id
    /\ abandoned # <<>> => cancelled

\* The detector sees events as far apart as the kernel stamped them.
TimesKeepDistance ==
    \A i, j \in DOMAIN handled : handled[i].at - handled[j].at = handled[i].ts - handled[j].ts

\* The deltas logged add up to the totals last seen, which the counters have
\* reached: no loss is reported twice or skipped, also when a counter cannot be
\* read for a while.
DeltasLogged == logged = last /\ last.drops <= drops /\ last.gaps <= lost

\* The deltas logged add up, and the perf reader is told of every sample the
\* object counted as dropped.
DeltasAddUp ==
    /\ DeltasLogged
    /\ Perf => drops = lost + missed +
           FoldFunction(LAMBDA r, n : IF IsLost(r) THEN n + r.lost ELSE n, 0, ring)

\* A loss is reported while the agent runs.
LossReported == drops > logged.drops ~> (logged.drops = drops \/ result # "none")

\* Run has returned for a cause: an error after a record that could not be read
\* or decoded, or nil after the end of the context or of the reader.
EndedForCause ==
    \/ result = "error" /\ (bad > 0 \/ faults > 0)
    \/ result = "nil" /\ (cancelled \/ faults > 0)

\* What is in the buffer, the pump or the channel reaches handle unless Run ends
\* before, for a cause: no full channel, no closed one and no earlier error
\* holds it up for good.
EventsReachHandle ==
    Waiting > 0 \/ InFlight # handled ~> (Waiting = 0 /\ InFlight = handled) \/ EndedForCause

\* Once Run has returned or the context has ended, every goroutine ends: nobody
\* waits for a channel that no one serves any more.
EveryoneEnds ==
    (cancelled \/ result # "none") ~>
        (pump = "done" /\ closer = "done" /\ main = "exited" /\ \A w \in Workers : worker[w] = "done")
===============================================================================
