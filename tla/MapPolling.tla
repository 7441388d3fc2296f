------------------------------ MODULE MapPolling ------------------------------
(***************************************************************************)
(* The event channel of the ultra_legacy_map mode: every CPU owns a ring   *)
(* of event slots in a BPF array map and a cursor; the kprobe programs of  *)
(* that CPU fill the slots (emit_event), and one user-space reader polls   *)
(* cursors and slots with map lookups (mapPollingEventReader).  Nothing    *)
(* locks: a lookup copies a slot word by word while the program rewrites   *)
(* it, so each slot carries its sequence number in its first and last word *)
(* and the reader copies a candidate twice.                                *)
(*                                                                         *)
(* Stores of one CPU become visible in program order (total store order);  *)
(* the compiler barriers of emit_event separate four groups of stores, and *)
(* inside a group any order is allowed.  A lookup reads the words of a     *)
(* slot in any order.                                                      *)
(***************************************************************************)
EXTENDS Integers, Sequences, FiniteSets

CONSTANTS
    NumCPU,          \* number of shards of the cursor map
    Slots,           \* slotsPerCPU
    BatchSize,       \* mapPollingBatchSize
    EventBound,      \* bound: how many events each CPU emits
    Timestamp(_, _)  \* Timestamp(c, n): ktime of the n-th event of CPU c

CPUs == 0 .. NumCPU - 1

ASSUME SizesAssumption ==
    /\ NumCPU \in Nat \ {0}
    /\ Slots \in Nat \ {0}
    /\ BatchSize \in Nat \ {0}
    /\ EventBound \in [CPUs -> Nat]

\* bpf_ktime_get_ns never decreases between two events of one CPU.
ASSUME ClockAssumption ==
    \A c \in CPUs : \A m, n \in 1 .. EventBound[c] :
        /\ Timestamp(c, m) \in Nat
        /\ m <= n => Timestamp(c, m) <= Timestamp(c, n)

VARIABLES
    head,      \* the published cursor of each CPU: sequence of its last event
    wphase,    \* the writer's group of stores: 0 idle, 1..4, 5 publish
    wtodo,     \* the stores of the current group still to be made
    slot,      \* the slots of each CPU
    tail,      \* pollingShard.tail: last sequence read or given up
    snap,      \* pollingShard.head: the cursor value of this batch
    lost,      \* events counted lost, per CPU (the counter is their sum)
    rpc,       \* where the reader is
    offset,    \* shards whose cursor this batch has looked up
    active,    \* shards with unread events, in the order they are served
    nextCPU,   \* the shard the next batch starts with
    rtodo,     \* words of the running lookup still to be copied
    raw,       \* first copy of the candidate slot
    conf,      \* second copy of the candidate slot
    pending,   \* accepted records not yet returned by Read
    lastRead,  \* history: sequence of the last record Read returned, per CPU
    taken,     \* history: number of accepted records, per CPU
    examined,  \* history: shards whose slot this batch has looked at
    waited     \* history: batches in a row an active shard was not examined

wvars == <<head, wphase, wtodo, slot>>
rvars == <<tail, snap, lost, rpc, offset, active, nextCPU, rtodo, raw, conf,
           pending, lastRead, taken, examined, waited>>
vars == <<wvars, rvars>>

-----------------------------------------------------------------------------
(* Data *)

Markers == {"seq", "end"}
Payload == {"lo", "hi"}
Words == Markers \cup Payload

\* The slot that event n of a CPU is stored in.
Index(n) == (n - 1) % Slots

MutSeqNeverWritten(phase) ==
    CASE phase = 1 -> Markers
      [] phase = 2 -> Payload
      [] phase \in {3, 4} -> {"end"}
      [] OTHER -> {}

\* The groups of stores of emit_event between its barriers.
Group(phase) ==
    CASE phase = 1 -> Markers
      [] phase = 2 -> Payload
      [] phase = 3 -> {"end"}
      [] phase = 4 -> {"seq"}
      [] OTHER -> {}

\* committedSlotSequence of a guarded slot: 0 when the two markers differ.
CommittedSlotSequence(copy) ==
    IF copy["end"] # copy["seq"] THEN 0 ELSE copy["seq"]

\* A record of pending: its payload, and where the reader found it.
Records == [cpu : CPUs, seq : Nat, lo : Nat, hi : Nat]

\* The first word of the payload is the event's timestamp.
Stamp(r) == Timestamp(r.cpu, r.lo)

MutNoSort(s, perm) == \A k, l \in DOMAIN s : k < l => perm[k] < perm[l]
MutUnstableSort(s, perm) ==
    \A k, l \in DOMAIN s : k < l =>
        \/ Stamp(s[perm[k]]) < Stamp(s[perm[l]])
        \/ /\ Stamp(s[perm[k]]) = Stamp(s[perm[l]])
           /\ perm[k] > perm[l]

\* perm lists the positions of s as sort.SliceStable leaves them.
StableOrder(s, perm) ==
    \A k, l \in DOMAIN s : k < l =>
        \/ Stamp(s[perm[k]]) < Stamp(s[perm[l]])
        \/ /\ Stamp(s[perm[k]]) = Stamp(s[perm[l]])
           /\ perm[k] < perm[l]

EmptySlot == [w \in Words |-> 0]

MutNeverConfirm(copy, expected) == FALSE

\* A first copy that shows the expected event is looked up again.
NeedsConfirm(copy, expected) == CommittedSlotSequence(copy) = expected

MutUnguardedOverflow(seen, last) == seen - last - Slots
MutJumpToHead(seen, last) == seen - last

\* Unread events the ring no longer holds, between tail and a cursor value.
Overflow(seen, last) == IF seen - last > Slots THEN seen - last - Slots ELSE 0

MutCountRuns(total, count) == IF count > 0 THEN total + 1 ELSE total

\* recordLoss adds a run of lost events to the counter.
RecordLoss(total, count) == total + count

MutSkipToSeen(seq, limit) == seq

\* Where the tail goes when a slot shows a later event than the expected one:
\* never past the cursor value of this batch.
LastLost(seq, limit) == IF seq - 1 < limit THEN seq - 1 ELSE limit

MutStayOnShard(cpu) == cpu

\* The shard the next batch starts with, once cpu has been served.
ShardAfter(cpu) == (cpu + 1) % NumCPU

-----------------------------------------------------------------------------
Init ==
    /\ head = [c \in CPUs |-> 0]
    /\ wphase = [c \in CPUs |-> 0]
    /\ wtodo = [c \in CPUs |-> {}]
    /\ slot = [c \in CPUs |-> [i \in 0 .. Slots - 1 |-> EmptySlot]]
    /\ tail = [c \in CPUs |-> 0]
    /\ snap = [c \in CPUs |-> 0]
    /\ lost = [c \in CPUs |-> 0]
    /\ rpc = "read"
    /\ offset = 0
    /\ active = <<>>
    /\ nextCPU = 0
    /\ rtodo = {}
    /\ raw = EmptySlot
    /\ conf = EmptySlot
    /\ pending = <<>>
    /\ lastRead = [c \in CPUs |-> 0]
    /\ taken = [c \in CPUs |-> 0]
    /\ examined = {}
    /\ waited = [c \in CPUs |-> 0]

-----------------------------------------------------------------------------
(* The writer of CPU c: emit_event, run to completion by one probe at a    *)
(* time (kprobe programs of a CPU do not nest).                            *)

BeginEmit(c) ==
    /\ wphase[c] = 0
    /\ head[c] < EventBound[c]
    /\ wphase' = [wphase EXCEPT ![c] = 1]
    /\ wtodo' = [wtodo EXCEPT ![c] = Group(1)]
    /\ UNCHANGED <<head, slot, rvars>>

\* One store: markers to 0, then the payload, then the trailing marker, then
\* the leading one.
Store(c) ==
    /\ wphase[c] \in 1 .. 4
    /\ \E w \in wtodo[c] :
        /\ slot' = [slot EXCEPT ![c][Index(head[c] + 1)][w] =
                        IF wphase[c] = 1 THEN 0 ELSE head[c] + 1]
        /\ IF wtodo[c] = {w}
           THEN /\ wphase' = [wphase EXCEPT ![c] = @ + 1]
                /\ wtodo' = [wtodo EXCEPT ![c] = Group(wphase[c] + 1)]
           ELSE /\ wtodo' = [wtodo EXCEPT ![c] = @ \ {w}]
                /\ UNCHANGED wphase
    /\ UNCHANGED <<head, rvars>>

Publish(c) ==
    /\ wphase[c] = 5
    /\ head' = [head EXCEPT ![c] = @ + 1]
    /\ wphase' = [wphase EXCEPT ![c] = 0]
    /\ UNCHANGED <<wtodo, slot, rvars>>

Writer(c) == BeginEmit(c) \/ Store(c) \/ Publish(c)

-----------------------------------------------------------------------------
(* The reader: Read and pollBatch. *)

\* Read with a pending record returns it.
ReturnRecord ==
    /\ rpc = "read"
    /\ pending # <<>>
    /\ pending' = Tail(pending)
    /\ lastRead' = [lastRead EXCEPT ![Head(pending).cpu] = Head(pending).seq]
    /\ UNCHANGED <<wvars, tail, snap, lost, rpc, offset, active, nextCPU, rtodo,
                   raw, conf, taken, examined, waited>>

\* Read with nothing pending polls a batch (again at every tick).
StartBatch ==
    /\ rpc = "read"
    /\ pending = <<>>
    /\ rpc' = "heads"
    /\ UNCHANGED <<wvars, tail, snap, lost, offset, active, nextCPU, rtodo, raw,
                   conf, pending, lastRead, taken, examined, waited>>

\* One round of pollBatch's first loop: look up a cursor, give up what the
\* ring no longer holds, queue the shard when events are unread.
LookupHead ==
    LET cpu == (nextCPU + offset) % NumCPU
        seen == head[cpu]
        overflow == Overflow(seen, tail[cpu])
    IN  /\ rpc = "heads"
        /\ offset < NumCPU
        /\ snap' = [snap EXCEPT ![cpu] = seen]
        /\ IF seen < tail[cpu]
           THEN /\ rpc' = "error"
                /\ UNCHANGED <<offset, lost, tail, active>>
           ELSE /\ lost' = [lost EXCEPT ![cpu] = RecordLoss(@, overflow)]
                /\ tail' = [tail EXCEPT ![cpu] = @ + overflow]
                /\ active' = IF tail[cpu] + overflow < seen
                             THEN Append(active, cpu) ELSE active
                /\ offset' = offset + 1
                /\ UNCHANGED rpc
        /\ UNCHANGED <<wvars, nextCPU, rtodo, raw, conf, pending, lastRead, taken,
                       examined, waited>>

\* The head of the second loop: the next active shard's slot is looked up.
SelectSlot ==
    /\ \/ rpc = "heads" /\ offset = NumCPU
       \/ rpc = "slots"
    /\ active # <<>>
    /\ Len(pending) < BatchSize
    /\ rpc' = "copy"
    /\ rtodo' = Words
    /\ examined' = examined \cup {Head(active)}
    /\ UNCHANGED <<wvars, tail, snap, lost, offset, active, nextCPU, raw, conf,
                   pending, lastRead, taken, waited>>

\* The lookup copies one more word; the candidate is the active shard's slot
\* of the event after its tail.  A committed first copy is looked up again.
CopyWord ==
    LET cpu == Head(active)
        expected == tail[cpu] + 1
        source == slot[cpu][Index(expected)]
    IN  /\ rpc \in {"copy", "confirm"}
        /\ \E w \in rtodo :
            /\ raw' = IF rpc = "copy" THEN [raw EXCEPT ![w] = source[w]] ELSE raw
            /\ conf' = IF rpc = "confirm" THEN [conf EXCEPT ![w] = source[w]] ELSE conf
            /\ IF rtodo # {w}
               THEN rtodo' = rtodo \ {w} /\ UNCHANGED rpc
               ELSE IF rpc = "copy" /\ NeedsConfirm(raw', expected)
                    THEN rtodo' = Markers /\ rpc' = "confirm"
                    ELSE rtodo' = {} /\ rpc' = IF rpc = "copy" THEN "judge1" ELSE "judge2"
        /\ UNCHANGED <<wvars, tail, snap, lost, offset, active, nextCPU, pending,
                       lastRead, taken, examined, waited>>

\* What the lookups showed: the expected event, a later one (the ring went
\* round), or a slot being rewritten, which is left for a later batch.
Judge ==
    LET cpu == Head(active)
        expected == tail[cpu] + 1
        seq == CommittedSlotSequence(IF rpc = "judge1" THEN raw ELSE conf)
        lastLost == LastLost(seq, snap[cpu])
        record == [cpu |-> cpu, seq |-> expected, lo |-> raw["lo"], hi |-> raw["hi"]]
    IN  /\ rpc \in {"judge1", "judge2"}
        /\ rpc' = "slots"
        /\ nextCPU' = ShardAfter(cpu)
        /\ \/ /\ seq = expected
              /\ tail' = [tail EXCEPT ![cpu] = expected]
              /\ pending' = Append(pending, record)
              /\ taken' = [taken EXCEPT ![cpu] = @ + 1]
              /\ active' = IF expected < snap[cpu]
                           THEN Append(Tail(active), cpu) ELSE Tail(active)
              /\ UNCHANGED lost
           \/ /\ seq > expected
              /\ lost' = [lost EXCEPT ![cpu] = RecordLoss(@, lastLost - tail[cpu])]
              /\ tail' = [tail EXCEPT ![cpu] = lastLost]
              /\ active' = Tail(active)
              /\ UNCHANGED <<pending, taken>>
           \/ /\ seq < expected
              /\ active' = Tail(active)
              /\ UNCHANGED <<tail, lost, pending, taken>>
        /\ raw' = EmptySlot
        /\ conf' = EmptySlot
        /\ UNCHANGED <<wvars, snap, offset, rtodo, lastRead, examined, waited>>

\* The batch ends when no shard is active or the batch is full; its records
\* are put in timestamp order.
FinishBatch ==
    /\ \/ rpc = "heads" /\ offset = NumCPU
       \/ rpc = "slots"
    /\ active = <<>> \/ Len(pending) >= BatchSize
    /\ rpc' = "read"
    /\ \E perm \in [DOMAIN pending -> DOMAIN pending] :
        /\ StableOrder(pending, perm)
        /\ pending' = [k \in DOMAIN pending |-> pending[perm[k]]]
    /\ waited' = [c \in CPUs |->
                    IF c \in {active[k] : k \in DOMAIN active} \ examined
                    THEN waited[c] + 1 ELSE 0]
    /\ offset' = 0
    /\ active' = <<>>
    /\ examined' = {}
    /\ UNCHANGED <<wvars, tail, snap, lost, nextCPU, rtodo, raw, conf, lastRead,
                   taken>>

Reader ==
    \/ ReturnRecord \/ StartBatch \/ LookupHead \/ SelectSlot
    \/ CopyWord \/ Judge \/ FinishBatch

-----------------------------------------------------------------------------
Next == Reader \/ \E c \in CPUs : Writer(c)

Safety == Init /\ [][Next]_vars

\* The reader goroutine keeps running, and a probe that has begun to emit
\* finishes; that a CPU has anything to emit is not assumed.
Fairness ==
    /\ WF_vars(Reader)
    /\ \A c \in CPUs : WF_vars(Store(c) \/ Publish(c))

Spec == Safety /\ Fairness
-----------------------------------------------------------------------------
(* Properties *)

WriterTypeOK ==
    /\ head \in [CPUs -> Nat]
    /\ wphase \in [CPUs -> 0 .. 5]
    /\ wtodo \in [CPUs -> SUBSET Words]
    /\ slot \in [CPUs -> [0 .. Slots - 1 -> [Words -> Nat]]]

ReaderTypeOK ==
    /\ tail \in [CPUs -> Nat] /\ snap \in [CPUs -> Nat] /\ lost \in [CPUs -> Nat]
    /\ rpc \in {"read", "heads", "slots", "copy", "confirm", "judge1", "judge2", "error"}
    /\ offset \in 0 .. NumCPU /\ active \in Seq(CPUs) /\ nextCPU \in CPUs
    /\ rtodo \in SUBSET Words /\ raw \in [Words -> Nat] /\ conf \in [Words -> Nat]
    /\ pending \in Seq(Records)

HistoryTypeOK ==
    /\ lastRead \in [CPUs -> Nat] /\ taken \in [CPUs -> Nat]
    /\ examined \in SUBSET CPUs /\ waited \in [CPUs -> Nat]

\* Sequence numbers and counters are naturals, the reader is at one of its
\* program points, and pending holds records of known CPUs.
TypeOK == WriterTypeOK /\ ReaderTypeOK /\ HistoryTypeOK

\* A record the reader accepts is one whole event, the one its tail asked for:
\* neither half-written nor half of one lap and half of the next, whatever the
\* order in which the lookup and emit_event touch the words of the slot.
NoTornRecord ==
    \A k \in DOMAIN pending :
        pending[k].lo = pending[k].seq /\ pending[k].hi = pending[k].seq

\* Read returns each CPU's events in the order they were emitted and none of
\* them twice, the timestamp sort at the end of pollBatch included.
PerCPUOrder ==
    /\ \A k \in DOMAIN pending :
        lastRead[pending[k].cpu] < pending[k].seq /\ pending[k].seq <= tail[pending[k].cpu]
    /\ \A k, l \in DOMAIN pending :
        k < l /\ pending[k].cpu = pending[l].cpu => pending[k].seq < pending[l].seq

\* Every event up to the tail was either accepted or counted by recordLoss,
\* never both and never neither.
ExactAccounting == \A c \in CPUs : taken[c] + lost[c] = tail[c]

\* The reader never runs ahead of the published cursor, so pollBatch's
\* "event cursor regressed" error cannot arise from its own bookkeeping.
NeverAheadOfCursor ==
    /\ rpc # "error"
    /\ \A c \in CPUs : tail[c] <= head[c]

\* While an active shard has unread events it is looked at in at least one of
\* any NumCPU consecutive batches, however busy the other CPUs are.
BoundedWait == \A c \in CPUs : waited[c] < NumCPU

\* A finished batch is in timestamp order.
BatchSorted ==
    rpc = "read" => \A k, l \in DOMAIN pending :
                        k < l => Stamp(pending[k]) <= Stamp(pending[l])

\* recordLoss counts events only when the CPU has gone round its ring since
\* the tail: with fewer than Slots unread events nothing is ever given up.
LossOnlyOnOverrun ==
    [][\A c \in CPUs : lost'[c] # lost[c] => head[c] >= tail[c] + Slots]_vars

\* Every published event is eventually read or counted lost, also when the
\* reader meets its slot in the middle of a rewrite.
EveryEventSettled ==
    \A c \in CPUs : \A n \in 1 .. EventBound[c] : head[c] >= n ~> tail[c] >= n

\* The polled slots implement the lossy per-CPU channel of EventChannel: the
\* cursor is what was sent, the tail what is settled, and the payloads of
\* pending are the batch.
Channel ==
    INSTANCE EventChannel WITH
        sent <- head,
        settled <- tail,
        dropped <- lost,
        batch <- [k \in DOMAIN pending |->
                    [cpu |-> pending[k].cpu, lo |-> pending[k].lo, hi |-> pending[k].hi]]

\* Every step of emit_event and pollBatch is a step of that channel or changes
\* nothing the channel's user can see.
ImplementsChannel == Channel!Spec
===============================================================================
