------------------------------ MODULE Enforcement ------------------------------
(***************************************************************************)
(* Marking processes for the kernel.  Three goroutines enforce: the event  *)
(* handler of Run, the hash worker and the blacklist scanner.  Each runs   *)
(* enforceTGID as the steps that other goroutines and the probed processes *)
(* can come between: read the uptime, update blocked_tgids, remember the   *)
(* process, signal it.  The kernel side looks a process's mark up on its   *)
(* sensitive system calls and deletes a mark it finds expired, in two map  *)
(* operations.                                                             *)
(*                                                                         *)
(* Time is relative: what the code compares with the clock is kept as an   *)
(* age (up to Cap, beyond which no age is told apart) or as the time left, *)
(* so that the state space is finite without a bound on the clock.         *)
(***************************************************************************)
EXTENDS Integers, FiniteSets, Sequences

CONSTANTS
    Tgids,      \* processes
    Parent,     \* Parent[t]: the parent of t
    Offenders,  \* the processes that cross the threshold
    Executors,  \* the processes that exec
    Listed,     \* the untrusted processes whose executable is on the blacklist
    Blacklist,  \* whether a blacklist was loaded, so that worker and scanner run
    Action,     \* policy action: "deny" or "kill"
    BlockTTL,   \* block_ttl, 0 for marks that do not expire
    IdleTTL,    \* idleTTL
    Capacity,   \* max_entries of blocked_tgids
    QueueSize,  \* capacity of hashQueue
    MayFail     \* whether reading the uptime or updating the map may fail

ASSUME TTLAssumption ==
    /\ BlockTTL \in Nat /\ IdleTTL \in Nat /\ BlockTTL <= IdleTTL
    /\ Capacity \in Nat /\ QueueSize \in Nat /\ MayFail \in BOOLEAN

ASSUME ProcessAssumption ==
    /\ Parent \in [Tgids -> Tgids] /\ Action \in {"deny", "kill"}
    /\ Offenders \subseteq Tgids /\ Executors \subseteq Tgids /\ Listed \subseteq Tgids
    /\ Blacklist \in BOOLEAN /\ 0 \notin Tgids

VARIABLES
    alive,      \* the processes that run
    marks,      \* blocked_tgids: per process NoMark or [action, left]
    expiring,   \* processes inside current_block_entry, about to delete
    blocked,    \* a.blocked: the age of each entry, or NoTime
    latch,      \* procState.BlockedAt: its age, or NoTime
    idle,       \* procState.LastSeen: its age, or NoTime without a state
    execs,      \* processes whose exec event is on its way to the handler
    hashed,     \* processes whose executable is in the hash cache
    queue,      \* hashQueue
    ask,        \* the handler's exec: [tgid, todo, seen]
    todo,       \* the processes the scan in progress has left
    job         \* per goroutine: [pc, tgid, action, left]

vars == <<alive, marks, expiring, blocked, latch, idle, execs, hashed, queue, ask, todo, job>>

agentVars == <<blocked, latch, idle, hashed, queue, ask, todo, job>>

Goroutines == {"handler", "worker", "scanner"}

NoTime == -1
Cap == IdleTTL + 1
Ages == 0 .. Cap
NoExpiry == -2
Expired == -1
Lefts == {NoExpiry} \cup Expired .. BlockTTL
NoMark == [action |-> "none", left |-> NoExpiry]
NoAsk == [tgid |-> 0, todo |-> <<>>, seen |-> NoTime]
NoJob == [pc |-> "idle", tgid |-> 0, action |-> "none", left |-> NoExpiry]

Idle(g) == job[g].pc = "idle" /\ (g = "handler" => ask = NoAsk)

\* Entering enforceTGID.
Enforce(g, t, action) ==
    job' = [job EXCEPT ![g] = [pc |-> "uptime", tgid |-> t, action |-> action, left |-> NoExpiry]]

Finish(g) == job' = [job EXCEPT ![g] = NoJob]

-----------------------------------------------------------------------------
(* The handler *)

Outlived(age) == BlockTTL > 0 /\ age > BlockTTL

MutNeverOutlived(t) == latch[t] # NoTime

\* stateBlocked: the latch of t holds.
Latched(t) == latch[t] # NoTime /\ ~Outlived(latch[t])

\* An event takes t over the threshold: unless it is latched, it is latched
\* and enforced, in that order.
HandleOffence(t) ==
    /\ Idle("handler") /\ t \in Offenders
    /\ idle' = [idle EXCEPT ![t] = 0]
    /\ \/ /\ Latched(t)
          /\ UNCHANGED <<latch, job>>
       \/ /\ ~Latched(t)
          /\ latch' = [latch EXCEPT ![t] = 0]
          /\ Enforce("handler", t, Action)
    /\ UNCHANGED <<alive, marks, expiring, blocked, execs, hashed, queue, ask, todo>>

\* An exec event arrives: blockedLineage asks for the process, then its parent.
HandleExec(t) ==
    /\ Idle("handler") /\ t \in execs
    /\ execs' = execs \ {t}
    /\ ask' = [tgid |-> t, todo |-> <<t, Parent[t]>>, seen |-> NoTime]
    /\ UNCHANGED <<alive, marks, expiring, blocked, latch, idle, hashed, queue, todo, job>>

\* isBlocked, up to the second lock: a live mark has the exec killed, one that
\* has outlived the TTL is to be dropped.
IsBlocked ==
    /\ ask.todo # <<>> /\ ask.seen = NoTime
    /\ LET t == Head(ask.todo)
       IN  \/ /\ blocked[t] = NoTime
              /\ ask' = [ask EXCEPT !.todo = Tail(@)]
              /\ UNCHANGED job
           \/ /\ blocked[t] # NoTime /\ Outlived(blocked[t])
              /\ ask' = [ask EXCEPT !.seen = blocked[t]]
              /\ UNCHANGED job
           \/ /\ blocked[t] # NoTime /\ ~Outlived(blocked[t])
              /\ ask' = NoAsk
              /\ Enforce("handler", ask.tgid, "kill")
    /\ UNCHANGED <<alive, marks, expiring, blocked, latch, idle, execs, hashed, queue, todo>>

MutForgetAnyway(t) == [blocked EXCEPT ![t] = NoTime]

\* The mark is dropped only if it is still the one that was looked at.
Forget(t) == IF blocked[t] = ask.seen THEN [blocked EXCEPT ![t] = NoTime] ELSE blocked

DropOutlived ==
    /\ ask.seen # NoTime
    /\ blocked' = Forget(Head(ask.todo))
    /\ ask' = [ask EXCEPT !.todo = Tail(@), !.seen = NoTime]
    /\ UNCHANGED <<alive, marks, expiring, latch, idle, execs, hashed, queue, todo, job>>

MutEnqueueUnbounded(t) == Append(queue, t)

\* enqueueHash drops the job when the queue is full.
Enqueue(t) == IF Len(queue) < QueueSize THEN Append(queue, t) ELSE queue

\* blacklistedEvent: a cached hash decides, else the worker is asked.
CheckBlacklist ==
    /\ ask # NoAsk /\ ask.todo = <<>> /\ ask.seen = NoTime
    /\ ask' = NoAsk
    /\ LET t == ask.tgid
       IN  \/ /\ Blacklist /\ t \in hashed \cap Listed
              /\ Enforce("handler", t, "kill")
              /\ UNCHANGED queue
           \/ /\ t \in hashed \ Listed
              /\ UNCHANGED <<queue, job>>
           \/ /\ t \notin hashed
              /\ queue' = IF Blacklist THEN Enqueue(t) ELSE queue
              /\ UNCHANGED job
    /\ UNCHANGED <<alive, marks, expiring, blocked, latch, idle, execs, hashed, todo>>

IsIdle(age) == age # NoTime /\ age > IdleTTL

\* pruneIdle forgets idle states, with their latches, and old marks.
PruneIdle ==
    /\ Idle("handler")
    /\ \E t \in Tgids : IsIdle(idle[t]) \/ IsIdle(blocked[t])
    /\ idle' = [t \in Tgids |-> IF IsIdle(idle[t]) THEN NoTime ELSE idle[t]]
    /\ latch' = [t \in Tgids |-> IF IsIdle(idle[t]) THEN NoTime ELSE latch[t]]
    /\ blocked' = [t \in Tgids |-> IF IsIdle(blocked[t]) THEN NoTime ELSE blocked[t]]
    /\ UNCHANGED <<alive, marks, expiring, execs, hashed, queue, ask, todo, job>>

-----------------------------------------------------------------------------
(* The hash worker and the scanner *)

\* compute may fail: the file changed or is gone.
WorkerHash ==
    /\ Idle("worker") /\ queue # <<>>
    /\ queue' = Tail(queue)
    /\ LET t == Head(queue)
       IN  \/ UNCHANGED <<hashed, job>>
           \/ /\ hashed' = hashed \cup {t}
              /\ IF t \in Listed THEN Enforce("worker", t, "kill") ELSE UNCHANGED job
    /\ UNCHANGED <<alive, marks, expiring, blocked, latch, idle, execs, ask, todo>>

\* scanBlacklistOnce lists the processes ...
StartScan ==
    /\ Blacklist /\ Idle("scanner") /\ todo = {} /\ alive # {}
    /\ todo' = alive
    /\ UNCHANGED <<alive, marks, expiring, blocked, latch, idle, execs, hashed, queue, ask, job>>

MutScanCachedOnly(t) == t \in hashed /\ t \in Listed /\ UNCHANGED hashed

\* ... and hashes each executable; this one is on the blacklist.
ScanMatches(t) == t \in Listed /\ hashed' = hashed \cup {t}

ScanMatch(t) ==
    /\ Idle("scanner") /\ t \in todo
    /\ ScanMatches(t)
    /\ todo' = todo \ {t}
    /\ Enforce("scanner", t, "kill")
    /\ UNCHANGED <<alive, marks, expiring, blocked, latch, idle, execs, queue, ask>>

\* It is not, or the executable cannot be hashed.
ScanPass(t) ==
    /\ Idle("scanner") /\ t \in todo
    /\ todo' = todo \ {t}
    /\ \/ UNCHANGED hashed
       \/ t \notin Listed /\ hashed' = hashed \cup {t}
    /\ UNCHANGED <<alive, marks, expiring, blocked, latch, idle, execs, queue, ask, job>>

-----------------------------------------------------------------------------
(* enforceTGID, in any of the goroutines *)

ReadUptime(g) ==
    /\ job[g].pc = "uptime"
    /\ job' = [job EXCEPT ![g].pc = "put",
                          ![g].left = IF BlockTTL > 0 THEN BlockTTL ELSE NoExpiry]
    /\ UNCHANGED <<alive, marks, expiring, blocked, latch, idle, execs, hashed, queue, ask, todo>>

HasRoom(t) ==
    marks[t] # NoMark \/ Cardinality({u \in Tgids : marks[u] # NoMark}) < Capacity

Put(g) ==
    /\ job[g].pc = "put" /\ HasRoom(job[g].tgid)
    /\ marks' = [marks EXCEPT ![job[g].tgid] = [action |-> job[g].action, left |-> job[g].left]]
    /\ job' = [job EXCEPT ![g].pc = "remember"]
    /\ UNCHANGED <<alive, expiring, blocked, latch, idle, execs, hashed, queue, ask, todo>>

\* BlockTGID returns an error: enforceTGID logs it and returns.
BlockFails(g) ==
    /\ \/ MayFail /\ job[g].pc \in {"uptime", "put"}
       \/ job[g].pc = "put" /\ ~HasRoom(job[g].tgid)
    /\ Finish(g)
    /\ UNCHANGED <<alive, marks, expiring, blocked, latch, idle, execs, hashed, queue, ask, todo>>

RememberBlocked(g) ==
    /\ job[g].pc = "remember"
    /\ blocked' = [blocked EXCEPT ![job[g].tgid] = 0]
    /\ \/ job[g].action = "kill" /\ job' = [job EXCEPT ![g].pc = "signal"]
       \/ job[g].action = "deny" /\ Finish(g)
    /\ UNCHANGED <<alive, marks, expiring, latch, idle, execs, hashed, queue, ask, todo>>

Signal(g) ==
    /\ job[g].pc = "signal"
    /\ alive' = alive \ {job[g].tgid}
    /\ Finish(g)
    /\ UNCHANGED <<marks, expiring, blocked, latch, idle, execs, hashed, queue, ask, todo>>

-----------------------------------------------------------------------------
(* The kernel, the processes and time *)

\* current_block_entry in a sensitive system call of t, whose mark kills it or
\* is found expired.  (A deny mark refuses the call and changes nothing.)
LookUpMark(t) ==
    /\ t \in alive \ expiring /\ marks[t] # NoMark
    /\ \/ /\ marks[t].left = Expired
          /\ expiring' = expiring \cup {t}
          /\ UNCHANGED alive
       \/ /\ marks[t].left # Expired /\ marks[t].action = "kill"
          /\ alive' = alive \ {t}
          /\ UNCHANGED expiring
    /\ UNCHANGED <<marks, execs, agentVars>>

DeleteMark(t) ==
    /\ t \in expiring
    /\ expiring' = expiring \ {t}
    /\ marks' = [marks EXCEPT ![t] = NoMark]
    /\ UNCHANGED <<alive, execs, agentVars>>

\* An exec of t that is captured.
Exec(t) ==
    /\ t \in alive \cap Executors
    /\ execs' = execs \cup {t}
    /\ UNCHANGED <<alive, marks, expiring, agentVars>>

\* A process ends; its mark stays in the map.
Exit(t) ==
    /\ t \in alive
    /\ alive' = alive \ {t}
    /\ UNCHANGED <<marks, expiring, execs, agentVars>>

Older(age) == IF age = NoTime \/ age = Cap THEN age ELSE age + 1
Shorter(left) == IF left >= 0 THEN left - 1 ELSE left

Tick ==
    /\ marks' = [t \in Tgids |-> [marks[t] EXCEPT !.left = Shorter(@)]]
    /\ blocked' = [t \in Tgids |-> Older(blocked[t])]
    /\ latch' = [t \in Tgids |-> Older(latch[t])]
    /\ idle' = [t \in Tgids |-> Older(idle[t])]
    /\ ask' = [ask EXCEPT !.seen = Older(@)]
    /\ job' = [g \in Goroutines |-> [job[g] EXCEPT !.left = Shorter(@)]]
    /\ UNCHANGED <<alive, expiring, execs, hashed, queue, todo>>

Init ==
    /\ alive = Tgids
    /\ marks = [t \in Tgids |-> NoMark]
    /\ expiring = {}
    /\ blocked = [t \in Tgids |-> NoTime]
    /\ latch = [t \in Tgids |-> NoTime]
    /\ idle = [t \in Tgids |-> NoTime]
    /\ execs = {}
    /\ hashed = {}
    /\ queue = <<>>
    /\ ask = NoAsk
    /\ todo = {}
    /\ job = [g \in Goroutines |-> NoJob]

Handler ==
    \/ \E t \in Tgids : HandleOffence(t) \/ HandleExec(t)
    \/ IsBlocked \/ DropOutlived \/ CheckBlacklist \/ PruneIdle

Scanner == StartScan \/ \E t \in Tgids : ScanMatch(t) \/ ScanPass(t)

EnforceTGID(g) ==
    ReadUptime(g) \/ Put(g) \/ BlockFails(g) \/ RememberBlocked(g) \/ Signal(g)

Process(t) == LookUpMark(t) \/ DeleteMark(t) \/ Exec(t) \/ Exit(t)

Next ==
    \/ Handler \/ WorkerHash \/ Scanner \/ Tick
    \/ \E g \in Goroutines : EnforceTGID(g)
    \/ \E t \in Tgids : Process(t)

Spec == Init /\ [][Next]_vars

\* Goroutines run and the clock goes on; an update of the map that is tried
\* again and again, and the hashing of an executable, succeed at some time;
\* and every offender keeps offending, its events being handled in turn.
Fairness ==
    /\ WF_vars(Tick)
    /\ WF_vars(IsBlocked) /\ WF_vars(DropOutlived) /\ WF_vars(CheckBlacklist)
    /\ WF_vars(StartScan)
    /\ \A t \in Tgids : WF_vars(ScanPass(t)) /\ SF_vars(ScanMatch(t)) /\ SF_vars(HandleOffence(t))
    /\ \A g \in Goroutines :
        /\ \A t \in Tgids : /\ SF_vars(job[g].tgid = t /\ ReadUptime(g))
                           /\ SF_vars(job[g].tgid = t /\ Put(g))
        /\ WF_vars(BlockFails(g))
        /\ WF_vars(RememberBlocked(g)) /\ WF_vars(Signal(g))

FairSpec == Spec /\ Fairness

-----------------------------------------------------------------------------
(* Properties *)

\* The state has its type, and hashQueue never holds more than its capacity.
TypeOK ==
    /\ alive \subseteq Tgids /\ expiring \subseteq Tgids /\ execs \subseteq Tgids
    /\ hashed \subseteq Tgids /\ todo \subseteq Tgids
    /\ marks \in [Tgids -> [action : {"none", "deny", "kill"}, left : Lefts]]
    /\ blocked \in [Tgids -> Ages \cup {NoTime}]
    /\ latch \in [Tgids -> Ages \cup {NoTime}]
    /\ idle \in [Tgids -> Ages \cup {NoTime}]
    /\ queue \in Seq(Tgids) /\ Len(queue) <= QueueSize
    /\ ask \in [tgid : Tgids \cup {0}, todo : Seq(Tgids), seen : Ages \cup {NoTime}]
    /\ job \in [Goroutines -> [pc : {"idle", "uptime", "put", "remember", "signal"},
                               tgid : Tgids \cup {0}, action : {"none", "deny", "kill"},
                               left : Lefts]]

\* The agent forgets that it blocked a process only once BlockTTL has passed
\* since it last did: isBlocked never drops a mark that another goroutine has
\* renewed after isBlocked looked at it.
LineageMarkLasts ==
    [][\A t \in Tgids : BlockTTL > 0 /\ blocked[t] # NoTime /\ blocked'[t] = NoTime
            => blocked[t] > BlockTTL]_vars

\* A mark stays in the kernel's map until it expires.
KernelMarkLasts ==
    [][\A t \in Tgids : marks[t] # NoMark /\ marks'[t] = NoMark
            => marks[t].left = Expired]_vars

\* A process whose executable is on the blacklist does not run for ever, also
\* when its exec event is lost, its hash job dropped, and updates fail.
BlacklistedKilled == \A t \in Listed : <>(t \notin alive)

\* A process that keeps crossing the threshold is marked in the kernel's map,
\* also when an update fails: the latch that keeps the agent from acting on
\* every event does not keep it from trying again.
OffenderMarked == \A t \in Offenders : <>(marks[t] # NoMark \/ t \notin alive)
===============================================================================
