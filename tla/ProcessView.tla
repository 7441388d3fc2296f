----------------------------- MODULE ProcessView -----------------------------
(***************************************************************************)
(* What internal/agent knows of a process from its events: the table of    *)
(* descriptors that updateFD keeps and the executable that procInfo and     *)
(* cacheExecInfo keep, composed with the hooks of SyscallCapture.  The agent *)
(* handles an event some time after it was captured; procfs shows the       *)
(* process as it is then, and a read of it can fail.                        *)
(***************************************************************************)
EXTENDS SyscallCapture

CONSTANT Scoped   \* the policy has cgroup_paths

ASSUME ViewAssumption == Scoped \in BOOLEAN

NoExe == -1       \* info.Exe is ""
NoInfo == [exe |-> NoExe, refresh |-> FALSE, known |-> FALSE]
NoJudgement == [event |-> [type |-> "none"], path |-> Untracked, exe |-> NoExe]

VARIABLES
    fdPaths,   \* Agent.fdPaths of the process; Untracked where there is no entry
    info,      \* Agent.procInfos: its executable and NeedsRefresh
    judged,    \* history: the event just judged, with the path and executable used
    pruned,    \* history: an entry of fdPaths was given up as idle
    noticed    \* history: execs of which cacheExecInfo saw an event

view == <<fdPaths, info, pruned, noticed>>
vars == <<capture, view, judged>>

ViewInit ==
    /\ Init
    /\ fdPaths = [f \in Fds |-> Untracked]
    /\ info = NoInfo
    /\ judged = NoJudgement
    /\ pruned = FALSE
    /\ noticed = {0}

-----------------------------------------------------------------------------
Alive == \E t \in Threads : thread[t] # Dead

\* readProc: an error, a process without a readable executable, or the current
\* executable.  Once the process has ended only the error is left.
ReadProc ==
    {[ok |-> FALSE, exe |-> NoExe]} \cup
    (IF Alive THEN {[ok |-> TRUE, exe |-> NoExe], [ok |-> TRUE, exe |-> exe]} ELSE {})

MutKeepUnknown(old, new) ==
    IF fdPaths[old] = Untracked THEN fdPaths ELSE [fdPaths EXCEPT ![new] = fdPaths[old]]

\* A duplicate of a descriptor without an entry has none either.
Duplicated(old, new) == [fdPaths EXCEPT ![new] = fdPaths[old]]

UpdateFD(ev) ==
    CASE ev.type = "open" -> [fdPaths EXCEPT ![ev.new] = ev.path]
      [] ev.type = "close" -> [fdPaths EXCEPT ![ev.fd] = Untracked]
      [] ev.type = "dup" -> Duplicated(ev.fd, ev.new)
      [] OTHER -> fdPaths

\* The executable procInfo answers with when it has to read procfs.
Answered(cached, read) == IF read.ok THEN read.exe ELSE NoExe

MutRefreshOnSuccessOnly(ev, cached) == cached.refresh

\* cacheExecInfo: any exec event, confirmed or not, invalidates the cache.
NeedsRefresh(ev, cached) == TRUE

\* procInfo: a usable entry is returned, otherwise procfs is read and the
\* answer stored; the entry keeps its NeedsRefresh mark.
ProcInfo(cached) ==
    IF cached.known /\ cached.exe # NoExe /\ ~cached.refresh
    THEN {[info |-> cached, exe |-> cached.exe]}
    ELSE {[info |-> IF read.ok THEN [cached EXCEPT !.exe = read.exe, !.known = TRUE] ELSE cached,
           exe |-> Answered(cached, read)] : read \in ReadProc}

\* A judgement: the path a descriptor stands for and the executable isTrustedEvent
\* compares with trusted_exe_paths.
Judge(ev, table, cached) ==
    \E answer \in ProcInfo(cached) :
        /\ info' = answer.info
        /\ judged' = [event |-> ev, exe |-> answer.exe,
                      path |-> IF ev.type = "write" THEN table[ev.fd] ELSE ev.path]

\* Completions and failures tell the detector nothing.
Ignored(ev) == ev.phase = "failure" \/ (ev.type = "write" /\ ev.phase = "success")

\* cacheExecInfo; the confirmation reads the new executable at once.
CacheExecInfo(ev) ==
    LET marked == [info EXCEPT !.refresh = NeedsRefresh(ev, info), !.known = TRUE]
    IN  /\ noticed' = noticed \cup {ev.new}
        /\ \/ /\ ev.phase = "success"
              /\ \E read \in ReadProc :
                    info' = IF read.ok /\ read.exe # NoExe
                            THEN [exe |-> read.exe, refresh |-> FALSE, known |-> TRUE]
                            ELSE marked
              /\ judged' = NoJudgement
           \/ /\ ev.phase = "attempt"
              /\ Judge(ev, fdPaths, marked)

\* handle, as far as it concerns the view of the process.
Handle ==
    LET ev == Head(ring)
    IN  /\ ring # <<>>
        /\ ring' = Tail(ring)
        /\ \/ /\ Ignored(ev)
              /\ judged' = NoJudgement /\ UNCHANGED view
           \/ /\ ~Ignored(ev)
              /\ fdPaths' = UpdateFD(ev)
              /\ \/ /\ ev.type \in {"close", "dup"}
                    /\ judged' = NoJudgement
                    /\ UNCHANGED <<info, noticed>>
                 \/ /\ Scoped /\ ev.type \in {"open", "write", "exec"}
                    /\ judged' = NoJudgement
                    /\ UNCHANGED <<info, noticed>>
                 \/ /\ ev.type \in {"open", "write"}
                    /\ Judge(ev, fdPaths', info)
                    /\ UNCHANGED noticed
                 \/ /\ ev.type = "exec"
                    /\ CacheExecInfo(ev)
              /\ UNCHANGED pruned
        /\ UNCHANGED <<kernel, thread, pending, drops, counts, calls>>

\* pruneIdle: the entries of an idle process are given up; a call takes less
\* time than it takes a process to count as idle.
PruneIdle ==
    /\ ring = <<>>
    /\ \A t \in Threads : thread[t] \in {Out, Dead}
    /\ \E S \in SUBSET {f \in Fds : fdPaths[f] # Untracked} :
        /\ fdPaths' = [f \in Fds |-> IF f \in S THEN Untracked ELSE fdPaths[f]]
        /\ pruned' = (pruned \/ S # {})
    /\ info' \in {info, NoInfo}
    /\ judged' = NoJudgement
    /\ UNCHANGED <<capture, noticed>>

Next == (Hooks /\ UNCHANGED view /\ judged' = NoJudgement) \/ Handle \/ PruneIdle

Spec == ViewInit /\ [][Next]_vars

-----------------------------------------------------------------------------
(* Properties *)

\* The path a write is scored under is the one its descriptor was open on when
\* the write was entered, however late the agent handles it and whatever the
\* other threads opened, closed and duplicated meanwhile.  An entry given up as
\* idle leaves no path, never a wrong one.  What breaks this is a lost event,
\* which is counted in drops, a full pending map, or an exec that closes
\* descriptors.
AttributionExact ==
    judged.event.type = "write" /\ drops = 0 /\ ~silent /\ ~swept =>
        \/ judged.path = judged.event.truth
        \/ judged.event.truth = Closed /\ judged.path = Untracked
        \/ pruned /\ judged.path = Untracked

\* Trust is never decided on an executable that the process had already
\* replaced when it caused the event, as long as one of the two events of that
\* replacement was handled; and a failed procfs read gives no executable.
TrustNotStale ==
    judged.event.type # "none" /\ judged.event.exe \in noticed =>
        judged.exe = NoExe \/ judged.exe >= judged.event.exe
===============================================================================
