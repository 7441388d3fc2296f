--------------------------- MODULE SyscallCapture ---------------------------
(***************************************************************************)
(* The syscall hooks of bpf/ransomware.bpf.c over the threads of one        *)
(* process: what a call's entry hook remembers in the pending maps, what    *)
(* its exit hook makes of it, what the exit of a thread cleans up, and the  *)
(* events that reach the ring buffer while the kernel's own table of file   *)
(* descriptors and its notion of the executable change in between.          *)
(*                                                                         *)
(* The program is taken to be disciplined: a thread names a descriptor that *)
(* is open, and only when no call of another thread that created it or that *)
(* names it is under way.                                                   *)
(***************************************************************************)
EXTENDS Integers, Sequences, FiniteSets

CONSTANTS
    Threads, Fds, Paths,
    PendingSize,   \* max_entries of each pending map
    RingSize,      \* events the ring buffer holds
    MaxCalls       \* bound on system calls and new threads

ASSUME CaptureAssumption ==
    /\ IsFiniteSet(Threads) /\ IsFiniteSet(Fds) /\ Fds \subseteq Nat
    /\ PendingSize \in Nat /\ RingSize \in Nat /\ MaxCalls \in Nat

Closed == "closed"
Untracked == ""     \* a descriptor no hook reports: a socket, a pipe, ...
None == -1          \* a call that failed; no descriptor
Written == -2       \* a write that succeeded: a number of bytes, no descriptor

\* An open without a path fails.
ASSUME PathsAssumption == Untracked \notin Paths /\ Closed \notin Paths \cup {Untracked}

VARIABLES
    fds,       \* the kernel's descriptor table: what each descriptor is open on
    exe,       \* the executable: the number of the exec call that put it in place
    thread,    \* thread -> the call it is in and how far it is
    opens, dups, writes,   \* pending_opens, pending_dups, pending_writes
    ring,      \* events waiting in the ring buffer
    drops,     \* ringbuf_drops
    gaps,      \* capture_gaps
    calls,
    silent,    \* history: an open or a dup went unreported, which nothing counts
    swept,     \* history: an exec closed descriptors
    unpaired   \* history: writes entered whose completion no exit hook has taken up

kernel == <<fds, exe, swept>>
pending == <<opens, dups, writes>>
counts == <<gaps, silent, unpaired>>
capture == <<kernel, thread, pending, ring, drops, counts, calls>>

Out == [at |-> "out", call |-> "none", fd |-> None, new |-> None, path |-> Untracked, id |-> 0]
Dead == [Out EXCEPT !.at = "dead"]
NoPending == [fd |-> None, path |-> Untracked]

Init ==
    /\ fds = [f \in Fds |-> Closed]
    /\ exe = 0
    /\ thread = [t \in Threads |-> Out]
    /\ opens = [t \in Threads |-> NoPending]
    /\ dups = [t \in Threads |-> NoPending]
    /\ writes = [t \in Threads |-> NoPending]
    /\ ring = <<>>
    /\ drops = 0 /\ gaps = 0 /\ calls = 0
    /\ silent = FALSE /\ swept = FALSE
    /\ unpaired = 0

-----------------------------------------------------------------------------
\* An event (new is the call's number for an exec), with the truth at the
\* moment it was captured: what the descriptor was open on, and which
\* executable ran.
Event(type, phase, fd, new, path) ==
    [type |-> type, phase |-> phase, fd |-> fd, new |-> new, path |-> path,
     truth |-> IF fd \in Fds THEN fds[fd] ELSE Untracked, exe |-> exe]

\* new_event and bpf_ringbuf_submit: without room the event is counted as dropped.
Emit(ev) ==
    \/ Len(ring) < RingSize /\ ring' = Append(ring, ev) /\ UNCHANGED drops
    \/ Len(ring) = RingSize /\ drops' = drops + 1 /\ UNCHANGED ring
Silently == UNCHANGED <<ring, drops>>

\* bpf_map_update_elem on a pending map: an entry of this thread is replaced, a
\* new one needs room.
Room(map, t) ==
    map[t] # NoPending \/ Cardinality({u \in Threads : map[u] # NoPending}) < PendingSize
Remember(map, t, entry) == IF Room(map, t) THEN [map EXCEPT ![t] = entry] ELSE map

\* No call of another thread that is under way names or creates fd.
Settled(fd, t) ==
    \A u \in Threads \ {t} : fd \notin {thread[u].fd, thread[u].new}

Enter(t, call, fd, new, path) ==
    /\ calls < MaxCalls
    /\ calls' = calls + 1
    /\ thread[t] = Out
    /\ \A f \in {fd, new} \cap Fds : fds[f] # Closed /\ Settled(f, t)
    /\ thread' = [thread EXCEPT ![t] =
                    [at |-> "in", call |-> call, fd |-> fd, new |-> new, path |-> path,
                     id |-> IF call = "exec" THEN calls + 1 ELSE 0]]
    /\ UNCHANGED kernel

-----------------------------------------------------------------------------
(* Entry hooks *)

\* trace_openat, trace_openat2
EnterOpen(t, path) ==
    /\ Enter(t, "open", None, None, path)
    /\ opens' = Remember(opens, t, [fd |-> None, path |-> path])
    /\ silent' = (silent \/ ~Room(opens, t))
    /\ Silently
    /\ UNCHANGED <<dups, writes, gaps, unpaired>>

\* trace_dup, trace_fcntl (new is None), trace_dup2, trace_dup3
EnterDup(t, old, new) ==
    /\ Enter(t, "dup", old, new, Untracked)
    /\ dups' = Remember(dups, t, [fd |-> old, path |-> Untracked])
    /\ silent' = (silent \/ ~Room(dups, t))
    /\ Silently
    /\ UNCHANGED <<opens, writes, gaps, unpaired>>

\* trace_close reports the attempt; it has no exit hook.
EnterClose(t, fd) ==
    /\ Enter(t, "close", fd, None, Untracked)
    /\ Emit(Event("close", "attempt", fd, None, Untracked))
    /\ UNCHANGED <<pending, counts>>

MutGapNotCounted(t) == gaps

\* A write that cannot be remembered is a capture gap.
GapsAfterEntry(t) == IF Room(writes, t) THEN gaps ELSE gaps + 1

\* trace_write, trace_pwrite64, trace_writev: remember_write
EnterWrite(t, fd) ==
    /\ Enter(t, "write", fd, None, Untracked)
    /\ writes' = Remember(writes, t, [fd |-> fd, path |-> Untracked])
    /\ gaps' = GapsAfterEntry(t)
    /\ unpaired' = unpaired + 1
    /\ Emit(Event("write", "attempt", fd, None, Untracked))
    /\ UNCHANGED <<opens, dups, silent>>

\* trace_execve
EnterExec(t) ==
    /\ Enter(t, "exec", None, None, Untracked)
    /\ Emit(Event("exec", "attempt", None, calls + 1, Untracked))
    /\ UNCHANGED <<pending, counts>>

-----------------------------------------------------------------------------
(* The kernel carries the call out, or fails it. *)

\* The kernel takes the lowest free descriptor.
Lowest == {f \in Fds : fds[f] = Closed /\ \A g \in Fds : fds[g] = Closed => f <= g}

Done(t, result, table) ==
    /\ thread' = [thread EXCEPT ![t].at = "done", ![t].new = result]
    /\ fds' = table
    /\ UNCHANGED <<exe, swept, pending, ring, drops, counts, calls>>

Fails(t) == thread[t].at = "in" /\ thread[t].call # "close" /\ Done(t, None, fds)

Performs(t) ==
    LET c == thread[t]
    IN  /\ c.at = "in"
        /\ \/ /\ c.call = "open"
              /\ \E f \in Lowest : Done(t, f, [fds EXCEPT ![f] = c.path])
           \/ /\ c.call = "dup"
              /\ fds[c.fd] # Closed
              /\ \E f \in IF c.new = None THEN Lowest ELSE {c.new} :
                    Done(t, f, [fds EXCEPT ![f] = fds[c.fd]])
           \/ /\ c.call = "close"
              /\ Done(t, None, [fds EXCEPT ![c.fd] = Closed])
           \/ /\ c.call = "write"
              /\ fds[c.fd] # Closed
              /\ Done(t, Written, fds)

\* A descriptor from a call without hooks.
OpenUntracked(t) ==
    /\ calls < MaxCalls
    /\ calls' = calls + 1
    /\ thread[t] = Out
    /\ \E f \in Lowest : fds' = [fds EXCEPT ![f] = Untracked]
    /\ UNCHANGED <<exe, swept, thread, pending, ring, drops, counts>>

-----------------------------------------------------------------------------
(* Exit hooks *)

MutKeepOnFailure(map, t) == IF thread[t].new = None THEN map ELSE [map EXCEPT ![t] = NoPending]

\* bpf_map_delete_elem on a pending map.
Forget(map, t) == [map EXCEPT ![t] = NoPending]

Phase(t) == IF thread[t].new = None THEN "failure" ELSE "success"

\* complete_open, trace_dup_exit and its siblings, complete_write: without a
\* pending entry the hook does nothing; with one it reports (a duplication only
\* when it succeeded) and deletes the entry.  complete_write's branch for an
\* entry of another call is never taken, see PendingMatchesCall.
Exit(t) ==
    LET c == thread[t]
    IN  /\ c.at = "done"
        /\ thread' = [thread EXCEPT ![t] = Out]
        /\ \/ /\ c.call = "open" /\ opens[t] # NoPending
              /\ Emit(Event("open", Phase(t), None, c.new, opens[t].path))
              /\ opens' = Forget(opens, t)
              /\ UNCHANGED <<dups, writes, unpaired>>
           \/ /\ c.call = "dup" /\ dups[t] # NoPending
              /\ IF c.new = None THEN Silently
                 ELSE Emit(Event("dup", "success", dups[t].fd, c.new, Untracked))
              /\ dups' = Forget(dups, t)
              /\ UNCHANGED <<opens, writes, unpaired>>
           \/ /\ c.call = "write" /\ writes[t] # NoPending
              /\ Emit(Event("write", Phase(t), writes[t].fd, None, Untracked))
              /\ writes' = Forget(writes, t)
              /\ unpaired' = unpaired - 1
              /\ UNCHANGED <<opens, dups>>
           \/ /\ c.call = "open" => opens[t] = NoPending
              /\ c.call = "dup" => dups[t] = NoPending
              /\ c.call = "write" => writes[t] = NoPending
              /\ Silently
              /\ UNCHANGED <<pending, unpaired>>
        /\ UNCHANGED <<kernel, gaps, silent, calls>>

\* trace_process_exit for every thread of dying.
CleanUp(dying) ==
    /\ opens' = [t \in Threads |-> IF t \in dying THEN NoPending ELSE opens[t]]
    /\ dups' = [t \in Threads |-> IF t \in dying THEN NoPending ELSE dups[t]]
    /\ writes' = [t \in Threads |-> IF t \in dying THEN NoPending ELSE writes[t]]
    /\ gaps' = gaps + Cardinality({t \in dying : writes[t] # NoPending})
    /\ silent' = (silent \/ \E t \in dying : opens[t] # NoPending \/ dups[t] # NoPending)
    /\ UNCHANGED unpaired

\* A thread ends; a killed one may leave its call without the exit hook.  A
\* close is always carried out.
ThreadExit(t) ==
    /\ thread[t] # Dead
    /\ ~(thread[t].at = "in" /\ thread[t].call = "close")
    /\ thread' = [thread EXCEPT ![t] = Dead]
    /\ CleanUp({t})
    /\ Silently
    /\ UNCHANGED <<kernel, calls>>

Spawn(t) ==
    /\ calls < MaxCalls
    /\ calls' = calls + 1
    /\ thread[t] = Dead
    /\ \E u \in Threads : thread[u] = Out
    /\ thread' = [thread EXCEPT ![t] = Out]
    /\ Silently
    /\ UNCHANGED <<kernel, pending, counts>>

\* The other threads end, the executable is replaced, close-on-exec descriptors
\* go, and trace_exec_success reports.
ExecSucceeds(t) ==
    /\ thread[t].at = "in" /\ thread[t].call = "exec"
    /\ \A u \in Threads \ {t} : ~(thread[u].at = "in" /\ thread[u].call = "close")
    /\ exe' = thread[t].id
    /\ thread' = [u \in Threads |-> IF u = t THEN Out ELSE Dead]
    /\ CleanUp(Threads \ {t})
    /\ \/ UNCHANGED <<fds, swept>>
       \/ /\ fds' = [f \in Fds |-> Closed]
          /\ swept' = TRUE
    /\ Emit([Event("exec", "success", None, exe', Untracked) EXCEPT !.exe = exe'])
    /\ UNCHANGED calls

Hooks ==
    \E t \in Threads :
        \/ \E p \in Paths : EnterOpen(t, p)
        \/ \E old \in Fds, new \in Fds \cup {None} : old # new /\ EnterDup(t, old, new)
        \/ \E f \in Fds : EnterClose(t, f) \/ EnterWrite(t, f)
        \/ EnterExec(t)
        \/ Fails(t) \/ Performs(t) \/ OpenUntracked(t)
        \/ Exit(t) \/ ThreadExit(t) \/ Spawn(t) \/ ExecSucceeds(t)

-----------------------------------------------------------------------------
(* Properties *)

\* A pending entry belongs to the call its thread is in: no entry outlives its
\* call, so no exit hook pairs its result with the arguments of another call.
PendingMatchesCall ==
    \A t \in Threads :
        /\ opens[t] # NoPending =>
            thread[t].call = "open" /\ opens[t].path = thread[t].path
        /\ dups[t] # NoPending => thread[t].call = "dup" /\ dups[t].fd = thread[t].fd
        /\ writes[t] # NoPending => thread[t].call = "write" /\ writes[t].fd = thread[t].fd

\* Every write that was entered has exactly one outcome: its completion was
\* reported (or dropped and counted as such), it is still pending, or it is a
\* counted capture gap.
WritesAccounted ==
    unpaired = gaps + Cardinality({t \in Threads : writes[t] # NoPending})
=============================================================================
