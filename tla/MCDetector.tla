------------------------------ MODULE MCDetector ------------------------------
(* Instances of Detector for TLC. *)
EXTENDS Detector

Dir(name) == <<"/", name>>
File(dir, name) == <<"/", dir, name>>

TheProtected == {Dir("data")}
TheBackups == {Dir("backup")}
TheSelf == {Dir("agent")}
TheScores ==
    [Write |-> 1, Truncate |-> 2, Rename |-> 2, Unlink |-> 2, SelfProtect |-> 6,
     SuspiciousExtension |-> 3, RansomNote |-> 3, BackupDestroy |-> 4,
     HighRateBonus |-> 2, ExecAfterBlocked |-> 2, Scan |-> 1, Mmap |-> 2,
     IOUring |-> 1, NetworkEgress |-> 1]

\* Two processes; 2 is a child of 1.
Event(t, type) ==
    [tgid |-> t, ppid |-> t - 1, type |-> type, phase |-> "attempt",
     path |-> NoPath, path2 |-> NoPath, fd |-> 3, newfd |-> -1, dirfd |-> "cwd",
     link |-> NoPath, writeOpen |-> FALSE, allowed |-> FALSE, trusted |-> FALSE,
     inCgroup |-> TRUE, listed |-> FALSE, inline |-> FALSE, action |-> "none"]

OpenWrite(t, path) == [Event(t, "open") EXCEPT !.path = path, !.writeOpen = TRUE, !.newfd = 3]
Write(t) == Event(t, "write")
Rename(t, from, to) == [Event(t, "rename") EXCEPT !.path = from, !.path2 = to]
Unlink(t, path) == [Event(t, "unlink") EXCEPT !.path = path]
Note(t) == OpenWrite(t, File("data", "README_RESTORE"))
Inline(t) == [Event(t, "block") EXCEPT !.inline = TRUE, !.action = "deny"]

WindowEvents ==
    {OpenWrite(1, File("data", "a")), Write(1),
     Rename(1, File("data", "a"), File("data", "c")),
     Rename(1, File("backup", "a"), File("backup", "a.locked")), Note(1)}

\* The kinds of event of one process that reach a verdict ...
LatchEvents ==
    {OpenWrite(1, File("data", "a")), Unlink(1, File("backup", "a")), Note(1), Inline(1)}

\* ... and the ones that tell processes, descriptors and identities apart.
Exec(t) == Event(t, "exec")
LineageEvents ==
    {Unlink(1, File("backup", "a")), Exec(2), [Exec(1) EXCEPT !.listed = TRUE],
     [Event(1, "block") EXCEPT !.action = "kill"],
     [Write(2) EXCEPT !.phase = "success"],
     [Unlink(2, File("data", "a")) EXCEPT !.trusted = TRUE],
     [OpenWrite(2, <<"a">>) EXCEPT !.link = Dir("data")], [Event(2, "dup") EXCEPT !.newfd = 4],
     [Event(2, "mmap") EXCEPT !.fd = 4]}

VerdictEvents == WindowEvents \cup LatchEvents \cup LineageEvents

TrustedEvents ==
    {[e EXCEPT !.trusted = TRUE] :
        e \in {OpenWrite(1, File("backup", "a")), Write(1), Event(1, "mmap"), Event(1, "truncate"),
               Unlink(1, File("backup", "a")), Rename(1, File("backup", "a"), File("tmp", "a"))}}

NoRules == <<>>
TwoRules ==
    << [feature |-> "rename_suffix_count", op |-> ">", value |-> 0, action |-> "kill"],
       [feature |-> "distinct_paths", op |-> ">=", value |-> 2, action |-> "deny"] >>
===============================================================================
