------------------------------- MODULE Scoring -------------------------------
(***************************************************************************)
(* The pure part of the detector: which scope a path is in, what an event  *)
(* scores, which events are indicators of compromise on their own, and     *)
(* which events of a trusted process are examined all the same.            *)
(*                                                                         *)
(* A path is the sequence of its components, "/" first when it is          *)
(* absolute, so that the directory prefix test of the cleaned strings is   *)
(* the prefix test of the sequences.  The empty path is <<>>.              *)
(***************************************************************************)
EXTENDS Integers, Sequences, SequencesExt

CONSTANTS
    ProtectedDirs, BackupDirs, SelfProtectPaths,  \* policy scopes: sets of paths
    SuspiciousNames,   \* file names that end in a suspicious extension
    RansomNoteNames,   \* file names of ransom notes
    Scores,            \* policy scores: a record of naturals
    EgressEnabled      \* network_egress.enabled

NoPath == <<>>

HasDirPrefix(path, dirs) ==
    path # NoPath /\ \E dir \in dirs \ {NoPath} : IsPrefix(dir, path)

InProtectedScope(path) == HasDirPrefix(path, ProtectedDirs)
InBackupScope(path) == HasDirPrefix(path, BackupDirs)
InSelfProtectScope(path) == HasDirPrefix(path, SelfProtectPaths)

HasSuspiciousExtension(path) == path # NoPath /\ Last(path) \in SuspiciousNames
IsRansomNote(path) == path # NoPath /\ Last(path) \in RansomNoteNames

PickPath(ev) == IF ev.path2 # NoPath THEN ev.path2 ELSE ev.path

\* The path a descriptor-based event is about: its own, or that of its fd.
PathOf(ev, fdPath) == IF PickPath(ev) # NoPath THEN PickPath(ev) ELSE fdPath

\* The common grading of an operation on any of paths.
Graded(paths, base) ==
    IF \E p \in paths : InSelfProtectScope(p) THEN Scores.SelfProtect
    ELSE IF \E p \in paths : InBackupScope(p) THEN base + Scores.BackupDestroy
    ELSE IF \E p \in paths : InProtectedScope(p) THEN base
    ELSE 0

OpenScore(ev) ==
    LET path == PickPath(ev)
    IN  CASE ~ev.writeOpen -> 0
          [] ev.writeOpen /\ InSelfProtectScope(path) -> Scores.SelfProtect
          [] OTHER ->
               IF ~InProtectedScope(path) /\ ~InBackupScope(path) THEN 0
               ELSE IF IsRansomNote(path) THEN Scores.RansomNote
               ELSE IF HasSuspiciousExtension(path) THEN Scores.SuspiciousExtension
               ELSE Scores.Write

RenameScore(ev) ==
    LET paths == {ev.path, ev.path2}
    IN  IF \E p \in paths : InSelfProtectScope(p) THEN Scores.SelfProtect
        ELSE IF \E p \in paths : InProtectedScope(p) \/ InBackupScope(p)
        THEN Scores.Rename
             + (IF HasSuspiciousExtension(ev.path2) THEN Scores.SuspiciousExtension ELSE 0)
        ELSE 0

ScanScore(path) ==
    IF InBackupScope(path) THEN Scores.Scan + Scores.BackupDestroy
    ELSE IF InProtectedScope(path) THEN Scores.Scan
    ELSE 0

\* score: fdPath is the path of the event's descriptor, active says that the
\* process has touched a path before, lineage that it or its parent is blocked.
Score(ev, fdPath, active, lineage) ==
    CASE ev.type = "exec" -> IF lineage THEN Scores.ExecAfterBlocked ELSE 0
      [] ev.type = "iouring" -> IF active THEN Scores.IOUring ELSE 0
      [] ev.type = "connect" ->
           IF EgressEnabled /\ ~ev.allowed /\ active THEN Scores.NetworkEgress ELSE 0
      [] ev.type = "scan" -> ScanScore(fdPath)
      [] ev.type = "mmap" -> Graded({fdPath}, Scores.Mmap)
      [] ev.type = "open" -> OpenScore(ev)
      [] ev.type = "write" -> Graded({fdPath}, Scores.Write)
      [] ev.type = "rename" -> RenameScore(ev)
      [] ev.type = "link" -> Graded({ev.path, ev.path2}, Scores.Rename)
      [] ev.type = "unlink" -> Graded({PickPath(ev)}, Scores.Unlink)
      [] ev.type = "truncate" -> Graded({PathOf(ev, fdPath)}, Scores.Truncate)
      [] OTHER -> 0

\* An event that is acted on at once, whatever the score.
ImmediateIOC(ev) ==
    \/ /\ ev.type = "open" /\ ev.writeOpen /\ InProtectedScope(ev.path)
       /\ IsRansomNote(ev.path) \/ HasSuspiciousExtension(ev.path)
    \/ /\ ev.type = "rename"
       /\ InProtectedScope(ev.path2) /\ HasSuspiciousExtension(ev.path2)

\* Events of a trusted process that are examined: destruction of backups, ...
BackupSensitiveEvent(ev, fdPath) ==
    \/ ev.type = "open" /\ ev.writeOpen /\ InBackupScope(PickPath(ev))
    \/ ev.type \in {"write", "truncate"} /\ InBackupScope(PathOf(ev, fdPath))
    \/ ev.type \in {"rename", "link"} /\ (InBackupScope(ev.path) \/ InBackupScope(ev.path2))
    \/ ev.type = "unlink" /\ InBackupScope(PickPath(ev))

\* ... and tampering with the agent itself.
SelfProtectSensitiveEvent(ev, fdPath) ==
    \/ ev.type = "open" /\ ev.writeOpen /\ InSelfProtectScope(PickPath(ev))
    \/ ev.type \in {"write", "mmap", "truncate"} /\ InSelfProtectScope(PathOf(ev, fdPath))
    \/ ev.type \in {"rename", "link"}
       /\ (InSelfProtectScope(ev.path) \/ InSelfProtectScope(ev.path2))
    \/ ev.type = "unlink" /\ InSelfProtectScope(PickPath(ev))

\* The paths that an event adds to the process's features.
FeaturePaths(ev, fdPath) ==
    CASE ev.type \in {"write", "scan", "mmap"} /\ fdPath # NoPath -> <<fdPath>>
      [] ev.type = "truncate" /\ ev.path # NoPath -> <<ev.path>>
      [] ev.type = "truncate" /\ ev.path = NoPath /\ fdPath # NoPath -> <<fdPath>>
      [] ev.type \in {"rename", "link"} -> <<ev.path, ev.path2>>
      [] OTHER -> IF PickPath(ev) # NoPath THEN <<PickPath(ev)>> ELSE <<>>
===============================================================================
