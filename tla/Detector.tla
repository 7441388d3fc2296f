------------------------------- MODULE Detector -------------------------------
(***************************************************************************)
(* The behaviour track of the agent: handle takes one sensor event after   *)
(* another, keeps a sliding window of scored events per process, and       *)
(* alerts and enforces when a rule matches, an indicator of compromise is  *)
(* seen, or the score of the window reaches the threshold.  pruneIdle      *)
(* forgets what has been idle.                                             *)
(*                                                                         *)
(* handle and pruneIdle run in the one goroutine of Run, so each is one    *)
(* action; the goroutines that mark processes concurrently are in module   *)
(* Enforcement.  Events carry the time they were captured, which may lag   *)
(* behind the clock and need not increase from one event to the next.      *)
(***************************************************************************)
EXTENDS Scoring, FiniteSets

CONSTANTS
    Tgids,          \* processes
    Fds,            \* descriptors a process opens
    Events,         \* the events that may be captured
    Window, BlockTTL, Threshold, Action, Rules,  \* policy
    DryRuns,        \* whether the agent may be started dry, live, or either
    PutMayFail,     \* whether an update of blocked_tgids may fail
    HighRate,       \* open/write events that earn HighRateBonus (64)
    MaxHistory,     \* maxHistoryEvents
    MaxPaths,       \* maxTrackedPaths
    Minute,         \* one minute, in ticks of the clock
    Lag,            \* bound: how far an event's time is behind the clock
    MaxTime,        \* bound on the clock
    MaxEvents       \* bound on the events handled

ASSUME PolicyAssumption ==
    /\ Window \in Nat \ {0} /\ BlockTTL \in Nat /\ Threshold \in Nat \ {0}
    /\ Action \in {"log", "deny", "kill"} /\ DryRuns \subseteq BOOLEAN
    /\ PutMayFail \in BOOLEAN
    /\ Minute \in Nat /\ Lag \in Nat /\ MaxTime \in Nat /\ MaxEvents \in Nat
    /\ MaxHistory \in Nat \ {0} /\ MaxPaths \in Nat \ {0} /\ HighRate \in Nat \ {0}

\* What Validate leaves: a rule's action is a known one.
ASSUME RulesAssumption == \A k \in 1 .. Len(Rules) : Rules[k].action \in {"log", "deny", "kill"}

ASSUME EventsAssumption == \A ev \in Events : "tgid" \in DOMAIN ev /\ ev.tgid \in Tgids

VARIABLES
    clock,      \* now
    dryRun,     \* options.DryRun
    procs,      \* procs: the window of each process, or NoState
    fdPaths,    \* fdPaths: per process and descriptor [path, seen]
    blocked,    \* blocked: when each process was remembered as blocked
    kernel,     \* the action in the kernel's blocked_tgids, or "none"
    metrics,    \* alerts, blocks and blacklist matches
    handled,    \* number of events handled
    last,       \* history: [tgid, verdict, action] of the last event handled
    log,        \* history: every event that went through a window, per process
    lifted      \* history: when an indicator last raised the present score

vars == <<clock, dryRun, procs, fdPaths, blocked, kernel, metrics, handled, last, log, lifted>>

NoTime == -1
NoState == [none |-> TRUE]
NoFd == [path |-> NoPath, seen |-> NoTime]
NoVerdict == [tgid |-> 0, verdict |-> "none", action |-> "none", backup |-> FALSE]

-----------------------------------------------------------------------------
(* The window of one process *)

NewState(at) ==
    [score |-> 0, events |-> 0, writes |-> 0, highRate |-> FALSE,
     firstSeen |-> at, lastSeen |-> at, blocked |-> FALSE, blockedAt |-> NoTime,
     seenPaths |-> {}, openPaths |-> {}, renames |-> 0, stage |-> "",
     history |-> <<>>]

MutClearedUnlatches(s) == [NewState(s.firstSeen) EXCEPT !.lastSeen = s.lastSeen,
                                                         !.history = s.history]

\* What prune's reset and rebuildWindow both start from.
Cleared(s) ==
    [s EXCEPT !.score = 0, !.events = 0, !.writes = 0, !.highRate = FALSE,
              !.seenPaths = {}, !.openPaths = {}, !.renames = 0, !.stage = ""]

AddPath(paths, p) ==
    IF p = NoPath \/ Cardinality(paths) >= MaxPaths THEN paths ELSE paths \cup {p}

SumOver(seq, Weight(_)) == FoldLeft(LAMBDA sum, e : sum + Weight(e), 0, seq)

\* The stage that fanout alone reaches.
Fanout(paths, opened) ==
    IF Cardinality(opened) >= 3 \/ Cardinality(paths) >= 3 THEN "STAGE" ELSE ""

RebuildWindow(s) ==
    LET h == s.history
        writes == SumOver(h, LAMBDA e : e.writes)
        seen == FoldLeft(LAMBDA ps, e : FoldLeft(AddPath, ps, e.paths), {}, h)
        opened == FoldLeft(LAMBDA ps, e : AddPath(ps, e.openWrite), {}, h)
        finalized == \E k \in DOMAIN h : h[k].finalize
    IN  [Cleared(s) EXCEPT
            !.score = SumOver(h, LAMBDA e : e.score)
                      + (IF writes >= HighRate THEN Scores.HighRateBonus ELSE 0),
            !.events = Len(h),
            !.writes = writes,
            !.highRate = writes >= HighRate,
            !.seenPaths = seen,
            !.openPaths = opened,
            !.renames = Len(SelectSeq(h, LAMBDA e : e.rename)),
            !.stage = IF finalized THEN "FINALIZE" ELSE Fanout(seen, opened),
            !.firstSeen = IF h = <<>> THEN NoTime ELSE Min({h[k].at : k \in DOMAIN h})]

MutWindowExclusive(at, now) == now - at < Window

\* An event stays in the window up to and including its boundary.
InWindow(at, now) == now - at <= Window

Prune(s, now) ==
    IF s.history = <<>>
    THEN IF s.firstSeen = NoTime \/ InWindow(s.firstSeen, now) THEN s
         ELSE [Cleared(s) EXCEPT !.firstSeen = now]
    ELSE LET retained == SelectSeq(s.history, LAMBDA e : InWindow(e.at, now))
         IN  IF Len(retained) = Len(s.history) THEN s
             ELSE RebuildWindow([s EXCEPT !.history = retained])

\* The score no longer holds what an indicator added: prune recomputed it.
Recomputed(s, now) ==
    \/ s.history = <<>> /\ s.firstSeen # NoTime /\ ~InWindow(s.firstSeen, now)
    \/ \E k \in DOMAIN s.history : ~InWindow(s.history[k].at, now)

SuspiciousRename(ev) == ev.type = "rename" /\ HasSuspiciousExtension(ev.path2)

Finalizes(ev) ==
    \/ SuspiciousRename(ev)
    \/ ev.type = "open" /\ (IsRansomNote(ev.path) \/ HasSuspiciousExtension(ev.path))

OpenWritePath(ev) == IF ev.type = "open" /\ ev.writeOpen THEN ev.path ELSE NoPath

\* recordFeatures, with the encryption stage it ends with.
RecordFeatures(s, ev, fdPath) ==
    LET seen == FoldLeft(AddPath, s.seenPaths, FeaturePaths(ev, fdPath))
        opened == AddPath(s.openPaths, OpenWritePath(ev))
    IN  [s EXCEPT
            !.seenPaths = seen,
            !.openPaths = opened,
            !.renames = @ + (IF SuspiciousRename(ev) THEN 1 ELSE 0),
            !.stage = IF @ = "FINALIZE" \/ Finalizes(ev) THEN "FINALIZE"
                      ELSE IF Fanout(seen, opened) # "" THEN "STAGE" ELSE @]

IsMutation(ev) == ev.type \in {"write", "open"}

HistoryEvent(ev, at, score, fdPath) ==
    [at |-> at, score |-> score, writes |-> IF IsMutation(ev) THEN 1 ELSE 0,
     paths |-> FeaturePaths(ev, fdPath), openWrite |-> OpenWritePath(ev),
     rename |-> SuspiciousRename(ev), finalize |-> Finalizes(ev)]

AddScore(s, ev, score) ==
    LET writes == s.writes + (IF IsMutation(ev) THEN 1 ELSE 0)
        bonus == ~s.highRate /\ writes >= HighRate
    IN  [s EXCEPT
            !.score = @ + score + (IF bonus THEN Scores.HighRateBonus ELSE 0),
            !.events = @ + 1,
            !.writes = writes,
            !.highRate = @ \/ bonus]

\* The history keeps its newest MaxHistory entries.
AppendHistory(s, entry) ==
    LET h == Append(s.history, entry)
    IN  IF Len(h) > MaxHistory
        THEN RebuildWindow([s EXCEPT !.history = Tail(h)])
        ELSE [s EXCEPT !.history = h]

\* stateBlocked: the latch holds for BlockTTL, for ever when that is 0.
StateBlocked(s, now) ==
    s.blocked /\ (BlockTTL = 0 \/ s.blockedAt = NoTime \/ now - s.blockedAt <= BlockTTL)

Unlatch(s, now) ==
    IF StateBlocked(s, now) THEN s ELSE [s EXCEPT !.blocked = FALSE, !.blockedAt = NoTime]

Latch(s, action, at) ==
    IF action = "log" THEN s ELSE [s EXCEPT !.blocked = TRUE, !.blockedAt = at]

Feature(s, name) ==
    CASE name = "distinct_paths" -> Cardinality(s.seenPaths)
      [] name = "open_write_pairs" -> Cardinality(s.openPaths)
      [] name = "rename_suffix_count" -> s.renames

RuleMatches(s, rule) ==
    LET got == Feature(s, rule.feature)
    IN  CASE rule.op = ">" -> got > rule.value
          [] rule.op = ">=" -> got >= rule.value
          [] rule.op = "==" -> got = rule.value
          [] rule.op = "<=" -> got <= rule.value
          [] rule.op = "<" -> got < rule.value

\* The index of the first rule that matches, 0 when none does.
MatchRule(s) == SelectInSeq(Rules, LAMBDA rule : RuleMatches(s, rule))

-----------------------------------------------------------------------------
(* Descriptors, marks and identities *)

FdPath(fds, t, fd) == IF fd \in Fds THEN fds[t][fd].path ELSE NoPath

\* An open's path is made absolute with the directory descriptor's path, or
\* with the /proc link of the working directory or the descriptor.
ResolveOpenPath(ev) ==
    LET base == IF ev.dirfd # "cwd" /\ FdPath(fdPaths, ev.tgid, ev.dirfd) # NoPath
                THEN FdPath(fdPaths, ev.tgid, ev.dirfd) ELSE ev.link
    IN  IF Head(ev.path) = "/" \/ base = NoPath THEN ev.path ELSE base \o ev.path

\* The event as handle sees it once updateFD has resolved its path.
Resolved(ev) ==
    IF ev.type = "open" /\ ev.path # NoPath /\ ev.newfd \in Fds
    THEN [ev EXCEPT !.path = ResolveOpenPath(ev)] ELSE ev

UpdateFD(ev, at) ==
    LET t == ev.tgid
    IN  CASE ev.type = "open" /\ ev.path # NoPath /\ ev.newfd \in Fds ->
               [fdPaths EXCEPT ![t][ev.newfd] = [path |-> ResolveOpenPath(ev), seen |-> at]]
          [] ev.type = "close" /\ ev.fd \in Fds -> [fdPaths EXCEPT ![t][ev.fd] = NoFd]
          [] ev.type = "dup" /\ ev.fd \in Fds /\ ev.newfd \in Fds ->
               [fdPaths EXCEPT ![t][ev.newfd] =
                    IF FdPath(fdPaths, t, ev.fd) # NoPath
                    THEN [path |-> fdPaths[t][ev.fd].path, seen |-> at] ELSE NoFd]
          [] OTHER -> fdPaths

\* touchFD for the descriptor of ev, when ev is of one of types.
Touch(fds, ev, at, types) ==
    IF /\ ev.type \in types /\ PickPath(ev) = NoPath
       /\ FdPath(fds, ev.tgid, ev.fd) # NoPath
    THEN [fds EXCEPT ![ev.tgid][ev.fd].seen = at] ELSE fds

\* isBlocked: the mark of a process counts for BlockTTL.
IsBlocked(t) ==
    t \in Tgids /\ blocked[t] # NoTime /\ (BlockTTL = 0 \/ clock - blocked[t] <= BlockTTL)

BlockedLineage(ev) == IsBlocked(ev.tgid) \/ IsBlocked(ev.ppid)

\* The marks once an exec has asked for those of its process and parent.
Marks(ev) ==
    [t \in Tgids |->
        IF /\ ev.type = "exec" /\ ~IsBlocked(t)
           /\ t = ev.tgid \/ (t = ev.ppid /\ ~IsBlocked(ev.tgid))
        THEN NoTime ELSE blocked[t]]

MutRememberFailed(t, action, marks) ==
    /\ blocked' = [marks EXCEPT ![t] = clock]
    /\ \/ ~dryRun /\ kernel' = [kernel EXCEPT ![t] = action]
       \/ (dryRun \/ PutMayFail) /\ UNCHANGED kernel

\* enforceTGID, starting from marks: the map update may fail, and then the
\* process is neither remembered nor signalled.
EnforceTGID(t, action, marks) ==
    \/ /\ ~dryRun
       /\ kernel' = [kernel EXCEPT ![t] = action]
       /\ blocked' = [marks EXCEPT ![t] = clock]
    \/ /\ dryRun \/ PutMayFail
       /\ blocked' = marks
       /\ UNCHANGED kernel

\* alertAndEnforce.  A dry run remembers what it would have blocked.
AlertAndEnforce(t, action, marks) ==
    IF action = "log" \/ dryRun
    THEN /\ metrics' = [metrics EXCEPT !.alerts = @ + 1]
         /\ blocked' = IF action = "log" THEN marks ELSE [marks EXCEPT ![t] = clock]
         /\ UNCHANGED kernel
    ELSE /\ metrics' = [metrics EXCEPT !.alerts = @ + 1, !.blocks = @ + 1]
         /\ EnforceTGID(t, action, marks)

NoAlert == UNCHANGED <<metrics, blocked, kernel>>

-----------------------------------------------------------------------------
(* handle *)

\* state: the window of the event's process, created on first sight.
StateOf(ev, at) ==
    IF procs[ev.tgid] = NoState THEN NewState(at)
    ELSE [procs[ev.tgid] EXCEPT !.lastSeen = at]

Verdict(ev, verdict, action) ==
    last' = [tgid |-> ev.tgid, verdict |-> verdict, action |-> action, backup |-> FALSE]

\* The history variables after an event that went through the window.
Logged(ev, at, entry, latches) ==
    log' = [log EXCEPT ![ev.tgid] =
                Append(@, [at |-> at, entry |-> entry, latches |-> latches])]

Lifted(ev, at, raised, recomputed) ==
    lifted' = [lifted EXCEPT ![ev.tgid] =
        IF raised THEN at ELSE IF recomputed THEN NoTime ELSE @]

NoWindow == UNCHANGED <<procs, log, lifted>>

NoEntry == [score |-> 0]

\* An indicator raises the score to the threshold without entering history.
Raise(s) == [s EXCEPT !.score = IF @ >= Threshold THEN @ ELSE Threshold, !.events = @ + 1]

\* EventBlock: the kernel denied an operation.  An inline indicator latches
\* the process and alerts; the kernel has enforced already.
HandleInlineIOCBlock(ev, at) ==
    LET before == StateOf(ev, at)
        s == Prune(before, at)
        known == StateBlocked(s, at)
    IN  /\ ev.type = "block" /\ ev.inline /\ ev.action \in {"deny", "kill"}
        /\ procs' = [procs EXCEPT ![ev.tgid] =
                        IF known THEN s ELSE Latch(Raise(Unlatch(s, at)), ev.action, at)]
        /\ metrics' = IF known THEN metrics
                      ELSE [metrics EXCEPT !.alerts = @ + 1, !.blocks = @ + 1]
        /\ Verdict(ev, IF known THEN "known" ELSE "inline", ev.action)
        /\ Logged(ev, at, NoEntry, IF known THEN "no" ELSE "indicator")
        /\ Lifted(ev, at, ~known, Recomputed(before, at))
        /\ UNCHANGED <<fdPaths, blocked, kernel>>

LogBlock(ev) ==
    /\ ev.type = "block" /\ ~(ev.inline /\ ev.action \in {"deny", "kill"})
    /\ Verdict(ev, "none", "none")
    /\ NoAlert /\ NoWindow /\ UNCHANGED fdPaths

\* Completions of writes and failed operations change nothing.
IsCompletion(ev) ==
    ev.phase = "failure" \/ (ev.type = "write" /\ ev.phase = "success")

DropCompletion(ev) ==
    /\ ev.type # "block" /\ IsCompletion(ev)
    /\ Verdict(ev, "none", "none")
    /\ NoAlert /\ NoWindow /\ UNCHANGED fdPaths

\* The early returns after updateFD: close and dup, a process outside the
\* policy's cgroups, a confirmed exec.
IsDone(ev) ==
    \/ ev.type \in {"close", "dup"}
    \/ ~ev.inCgroup
    \/ ev.type = "exec" /\ ev.phase = "success"

StopEarly(ev, fds) ==
    /\ IsDone(ev)
    /\ fdPaths' = fds
    /\ Verdict(ev, "none", "none")
    /\ NoAlert /\ NoWindow

\* An exec by a blocked process, or by the child of one, is killed.
KillLineage(ev, fds) ==
    /\ ~IsDone(ev) /\ ev.type = "exec" /\ BlockedLineage(ev) /\ ~dryRun
    /\ EnforceTGID(ev.tgid, "kill", Marks(ev))
    /\ fdPaths' = fds
    /\ Verdict(ev, "lineage", "kill")
    /\ NoWindow /\ UNCHANGED metrics

\* What follows is for the events that the lineage check lets through.
IsFree(ev) == ~IsDone(ev) /\ ~(ev.type = "exec" /\ BlockedLineage(ev) /\ ~dryRun)

\* The cached hash of the executable is on the blacklist: always a kill.
EnforceBlacklist(ev, fds) ==
    /\ IsFree(ev) /\ ev.type = "exec" /\ ev.listed
    /\ metrics' = [metrics EXCEPT !.alerts = @ + 1, !.matches = @ + 1,
                                  !.blocks = IF dryRun THEN @ ELSE @ + 1]
    /\ IF dryRun THEN blocked' = Marks(ev) /\ UNCHANGED kernel
       ELSE EnforceTGID(ev.tgid, "kill", Marks(ev))
    /\ fdPaths' = fds
    /\ Verdict(ev, "blacklist", "kill")
    /\ NoWindow

IsUnlisted(ev) == IsFree(ev) /\ ~(ev.type = "exec" /\ ev.listed)

\* A trusted process is skipped unless it destroys backups or tampers with
\* the agent.
IsExempt(ev, fdPath) ==
    ev.trusted /\ ~BackupSensitiveEvent(ev, fdPath) /\ ~SelfProtectSensitiveEvent(ev, fdPath)

\* History: the event changes or removes a file under the backup directories.
WritesBackup(ev, fdPath) ==
    \/ ev.type = "open" /\ ev.writeOpen /\ InBackupScope(ev.path)
    \/ ev.type \in {"write", "mmap", "truncate", "unlink"} /\ InBackupScope(PathOf(ev, fdPath))
    \/ ev.type \in {"rename", "link"} /\ (InBackupScope(ev.path) \/ InBackupScope(ev.path2))

SkipTrusted(ev, fds, at) ==
    /\ IsUnlisted(ev) /\ IsExempt(ev, FdPath(fds, ev.tgid, ev.fd))
    /\ fdPaths' = Touch(fds, ev, at, {"write", "mmap", "truncate"})
    /\ blocked' = Marks(ev)
    /\ last' = [tgid |-> ev.tgid, verdict |-> "trusted", action |-> "none",
                backup |-> WritesBackup(ev, FdPath(fds, ev.tgid, ev.fd))]
    /\ NoWindow /\ UNCHANGED <<metrics, kernel>>

IsSuspect(ev, fds) == IsUnlisted(ev) /\ ~IsExempt(ev, FdPath(fds, ev.tgid, ev.fd))

\* An indicator of compromise is acted on at once, latched or not.
HandleIOC(ev, fds, at) ==
    LET before == StateOf(ev, at)
        s == RecordFeatures(Prune(before, at), ev, FdPath(fds, ev.tgid, ev.fd))
    IN  /\ IsSuspect(ev, fds) /\ ImmediateIOC(ev)
        /\ procs' = [procs EXCEPT ![ev.tgid] = Latch(Raise(s), Action, at)]
        /\ AlertAndEnforce(ev.tgid, Action, Marks(ev))
        /\ fdPaths' = fds
        /\ Verdict(ev, "ioc", Action)
        /\ Logged(ev, at, NoEntry, IF Action = "log" THEN "no" ELSE "indicator")
        /\ Lifted(ev, at, TRUE, FALSE)

\* The score of the event, from the window as it was before the event.
ScoreOf(ev, fds) ==
    LET s == procs[ev.tgid]
    IN  Score(ev, FdPath(fds, ev.tgid, ev.fd),
              s # NoState /\ s.seenPaths # {}, BlockedLineage(ev))

TouchScored(ev, fds, at) == Touch(fds, ev, at, {"scan", "mmap", "write", "truncate"})

IgnoreUnscored(ev, fds, at) ==
    /\ IsSuspect(ev, fds) /\ ~ImmediateIOC(ev) /\ ScoreOf(ev, fds) = 0
    /\ fdPaths' = TouchScored(ev, fds, at)
    /\ blocked' = Marks(ev)
    /\ Verdict(ev, "none", "none")
    /\ NoWindow /\ UNCHANGED <<metrics, kernel>>

\* The window with the event added.
Accumulate(ev, fds, at) ==
    LET fdPath == FdPath(fds, ev.tgid, ev.fd)
        score == ScoreOf(ev, fds)
        s == RecordFeatures(Prune(StateOf(ev, at), at), ev, fdPath)
    IN  AppendHistory(AddScore(s, ev, score), HistoryEvent(ev, at, score, fdPath))

MutAboveThreshold(s, at) ==
    LET rule == MatchRule(s)
    IN  IF rule # 0 /\ ~StateBlocked(s, at)
        THEN [verdict |-> "rule", action |-> Rules[rule].action]
        ELSE IF s.score > Threshold /\ ~StateBlocked(s, at)
        THEN [verdict |-> "threshold", action |-> Action]
        ELSE [verdict |-> "none", action |-> "none"]

\* A process that is not latched meets the first matching rule, or else the
\* threshold.
Decide(s, at) ==
    LET rule == MatchRule(s)
    IN  IF rule # 0 /\ ~StateBlocked(s, at)
        THEN [verdict |-> "rule", action |-> Rules[rule].action]
        ELSE IF s.score >= Threshold /\ ~StateBlocked(s, at)
        THEN [verdict |-> "threshold", action |-> Action]
        ELSE [verdict |-> "none", action |-> "none"]

ScoreEvent(ev, fds, at) ==
    LET before == StateOf(ev, at)
        s == Accumulate(ev, fds, at)
        decision == Decide(s, at)
        full == Len(Prune(before, at).history) = MaxHistory
    IN  /\ IsSuspect(ev, fds) /\ ~ImmediateIOC(ev) /\ ScoreOf(ev, fds) # 0
        /\ fdPaths' = TouchScored(ev, fds, at)
        /\ Verdict(ev, decision.verdict, decision.action)
        /\ \/ /\ decision.verdict = "none"
              /\ procs' = [procs EXCEPT ![ev.tgid] = Unlatch(s, at)]
              /\ blocked' = Marks(ev)
              /\ UNCHANGED <<metrics, kernel>>
           \/ /\ decision.verdict # "none"
              /\ procs' = [procs EXCEPT ![ev.tgid] = Latch(Unlatch(s, at), decision.action, at)]
              /\ AlertAndEnforce(ev.tgid, decision.action, Marks(ev))
        /\ Logged(ev, at, HistoryEvent(ev, at, ScoreOf(ev, fds), FdPath(fds, ev.tgid, ev.fd)),
                  IF decision.action \in {"deny", "kill"} THEN "window" ELSE "no")
        /\ Lifted(ev, at, FALSE, full \/ Recomputed(before, at))

Handle(ev, at) ==
    /\ handled < MaxEvents
    /\ handled' = handled + 1
    /\ \/ HandleInlineIOCBlock(ev, at)
       \/ LogBlock(ev)
       \/ DropCompletion(ev)
       \/ /\ ev.type # "block" /\ ~IsCompletion(ev)
          /\ LET fds == UpdateFD(ev, at)
                 seen == Resolved(ev)
             IN  \/ StopEarly(seen, fds)
                 \/ KillLineage(seen, fds)
                 \/ EnforceBlacklist(seen, fds)
                 \/ SkipTrusted(seen, fds, at)
                 \/ HandleIOC(seen, fds, at)
                 \/ IgnoreUnscored(seen, fds, at)
                 \/ ScoreEvent(seen, fds, at)
    /\ UNCHANGED <<clock, dryRun>>

-----------------------------------------------------------------------------
(* Time and cleaning *)

\* Bounded by MaxTime.
Tick ==
    /\ clock < MaxTime
    /\ clock' = clock + 1
    /\ UNCHANGED <<dryRun, procs, fdPaths, blocked, kernel, metrics, handled, last, log, lifted>>

IdleTTL == Max({3 * Window, Minute, BlockTTL})

IsIdle(seen) == seen # NoTime /\ clock - seen > IdleTTL

\* pruneIdle, with the identities it also drops left out.
PruneIdle ==
    LET idle == {t \in Tgids : procs[t] # NoState /\ IsIdle(procs[t].lastSeen)}
    IN  /\ procs' = [t \in Tgids |-> IF t \in idle THEN NoState ELSE procs[t]]
        /\ fdPaths' = [t \in Tgids |-> [fd \in Fds |->
                          IF IsIdle(fdPaths[t][fd].seen) THEN NoFd ELSE fdPaths[t][fd]]]
        /\ blocked' = [t \in Tgids |-> IF IsIdle(blocked[t]) THEN NoTime ELSE blocked[t]]
        /\ log' = [t \in Tgids |-> IF t \in idle THEN <<>> ELSE log[t]]
        /\ lifted' = [t \in Tgids |-> IF t \in idle THEN NoTime ELSE lifted[t]]
        /\ UNCHANGED <<clock, dryRun, kernel, metrics, handled, last>>

Init ==
    /\ clock = Lag
    /\ dryRun \in DryRuns
    /\ procs = [t \in Tgids |-> NoState]
    /\ fdPaths = [t \in Tgids |-> [fd \in Fds |-> NoFd]]
    /\ blocked = [t \in Tgids |-> NoTime]
    /\ kernel = [t \in Tgids |-> "none"]
    /\ metrics = [alerts |-> 0, blocks |-> 0, matches |-> 0]
    /\ handled = 0
    /\ last = NoVerdict
    /\ log = [t \in Tgids |-> <<>>]
    /\ lifted = [t \in Tgids |-> NoTime]

Next ==
    \/ \E ev \in Events, at \in clock - Lag .. clock : Handle(ev, at)
    \/ Tick
    \/ PruneIdle

Spec == Init /\ [][Next]_vars

-----------------------------------------------------------------------------
(* Properties *)

\* The scored events of a process that no later event found older than the
\* window, in the order they were handled: the definition of the sliding
\* window, over everything handled.
WindowOf(t) ==
    LET l == log[t]
        entries == SelectSeq([i \in DOMAIN l |-> [scored |-> l[i].entry # NoEntry, n |-> i]],
                             LAMBDA e : e.scored
                                /\ \A j \in DOMAIN l : j > e.n => l[j].at - l[e.n].at <= Window)
    IN  [k \in DOMAIN entries |-> l[entries[k].n].entry]

ScoreOver(entries) ==
    SumOver(entries, LAMBDA e : e.score)
    + (IF SumOver(entries, LAMBDA e : e.writes) >= HighRate THEN Scores.HighRateBonus ELSE 0)

\* The first MaxPaths of a set of paths were kept.
IsBoundedCopy(kept, paths) ==
    kept \subseteq paths /\ Cardinality(kept) = Min({Cardinality(paths), MaxPaths})

\* What handle adds up event by event, with prune, rebuildWindow and the cut to
\* maxHistoryEvents taking parts out again, is what the events of the window
\* add up to: the history is the window, or its newest part once more than
\* MaxHistory events were scored, and score, counts, paths and stage are those
\* of the history.  (What an indicator adds is not part of the window; windows
\* that still hold it are left to ScoreWithinWindow.)
WindowExact ==
    \A t \in Tgids : procs[t] # NoState /\ lifted[t] = NoTime =>
        LET s == procs[t]
            h == s.history
            scored == {i \in DOMAIN log[t] : log[t][i].entry # NoEntry}
        IN  /\ IsSuffix(h, WindowOf(t))
            /\ Cardinality(scored) <= MaxHistory => h = WindowOf(t)
            /\ s.score = ScoreOver(h) /\ s.events = Len(h)
            /\ s.writes = Cardinality({k \in DOMAIN h : h[k].writes = 1})
            /\ s.renames = Cardinality({k \in DOMAIN h : h[k].rename})
            /\ IsBoundedCopy(s.seenPaths, UNION {ToSet(h[k].paths) : k \in DOMAIN h} \ {NoPath})
            /\ IsBoundedCopy(s.openPaths, {h[k].openWrite : k \in DOMAIN h} \ {NoPath})
            /\ s.stage = IF \E k \in DOMAIN h : h[k].finalize THEN "FINALIZE"
                         ELSE Fanout(s.seenPaths, s.openPaths)

\* A process whose score has reached the threshold is latched as blocked, by
\* the threshold itself or by a rule or indicator before it.  It is meant for
\* policies that deny or kill: a log rule that matches comes before the
\* threshold and latches nothing.
ThresholdBlocks ==
    \A t \in Tgids :
        procs[t] # NoState /\ procs[t].score >= Threshold => procs[t].blocked

\* A process is remembered as blocked only once its mark is in the kernel's
\* map, so that the children of a process that could not be marked are not
\* killed; a dry run marks nobody.
RememberedIsMarked ==
    \A t \in Tgids :
        IF dryRun THEN kernel[t] = "none"
        ELSE blocked[t] # NoTime => kernel[t] # "none"

\* Once a process is latched, rules and threshold act on it again only after
\* an event more than BlockTTL later than the one that latched it, however
\* often its window is emptied and rebuilt in between; never when BlockTTL is 0.
OneActionPerTTL ==
    \A t \in Tgids : \A j \in DOMAIN log[t] : log[t][j].latches = "window" =>
        LET before == {i \in 1 .. j - 1 : log[t][i].latches # "no"}
            latch == Max(before)
        IN  before # {} =>
                /\ BlockTTL > 0
                /\ \E k \in latch + 1 .. j : log[t][k].at - log[t][latch].at > BlockTTL

\* The score of a process is made of what happened in the window that ends
\* with its last event: scored events, or an indicator no older than that.
ScoreWithinWindow ==
    \A t \in Tgids : procs[t] # NoState /\ procs[t].score > ScoreOver(WindowOf(t)) =>
        InWindow(lifted[t], procs[t].lastSeen)

\* No event that changes or removes a backup is skipped because its process
\* is trusted.
BackupNeverSkipped == ~last.backup
===============================================================================
