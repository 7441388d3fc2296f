----------------------------- MODULE SensorStart -----------------------------
(***************************************************************************)
(* monitor from its arguments to READY=1, and its end: the policy is       *)
(* loaded, one BPF runtime after the other is loaded and initialised, and  *)
(* a runtime that fails is taken down before the next one is tried.        *)
(*                                                                         *)
(* A hook is [mode, kind, op, side, via]: the runtime it belongs to, the   *)
(* call it observes, entry or exit, and the kernel symbol or other place   *)
(* it is attached to.  The tables are the code's; Ops picks the rows of an *)
(* instance.  The rows of a table do not depend on each other, and are     *)
(* taken in an order that is left open.  Every load, attach, map update    *)
(* and close may fail; the close of a hook in a roll back, whose error the *)
(* code drops, is taken to succeed.                                        *)
(***************************************************************************)
EXTENDS PolicyMerge, FiniteSets

CONSTANTS
    Missing,        \* a --config file that loadOne cannot read or decode
    Ops,            \* the calls of the tables this instance includes
    Environments,   \* what the agent may be started with, see env
    Shards,         \* CPUs the event map of the ultra legacy object covers
    DirStat,        \* directories that exist and their inodes
    CgroupStat      \* cgroup paths below the root that exist and their inodes

ASSUME StartAssumption == Shards \in Nat \ {0}

VARIABLES
    env,        \* [files, modeValue, arch, btf, dryRun, lsm, lastCPU]: fixed
    phase,      \* where monitor is
    policy,     \* the merged policy
    modes,      \* runtimes still to try, the current one first
    stage,      \* the step of initialize that is next
    rows,       \* the rows of its table still to attach
    probe,      \* the attachment in progress: the place tried, sides attached
    progs,      \* the programs the loaded objects hold
    loaded,     \* whether the objects are open
    links,      \* hooks attached in the kernel
    kept,       \* s.links, the hooks that Close detaches
    reader,     \* whether the event reader is open
    maps,       \* what the policy maps of the kernel hold
    caps,       \* EnforcementCapabilities
    err         \* the error newSensorWith is returning

vars == <<env, phase, policy, modes, stage, rows, probe, progs, loaded, links, kept, reader, maps, caps, err>>

Core == "core"
LegacyPerf == "legacy_perf"
Ultra == "ultra_legacy_map"

-----------------------------------------------------------------------------
(* The tables *)

\* A row attaches the programs of all its sides to one place.
Rows(kind, ops, sides, optional) ==
    {[kind |-> kind, op |-> op, sides |-> sides, optional |-> optional] : op \in ops}
Entry == <<"entry">>
Exit == <<"exit">>
EntryExit == <<"entry", "exit">>

\* attachTracepoints
Paired == {"openat", "write", "pwrite64", "writev", "dup", "dup2", "dup3", "fcntl"}
EntryOnly == {"execve", "exec_success", "process_exit", "getdents64", "mmap", "close",
    "rename", "renameat", "unlink", "unlinkat", "truncate", "ftruncate"}
OptionalEntry == {"copy_file_range", "io_uring_enter", "connect", "renameat2",
    "link", "linkat", "symlink", "symlinkat"}

TracepointTable ==
    Rows("tracepoint", Paired \cup EntryOnly, Entry, FALSE)
    \cup Rows("tracepoint", Paired, Exit, FALSE)
    \cup Rows("tracepoint", OptionalEntry, Entry, TRUE)
    \cup Rows("tracepoint", {"openat2"}, EntryExit, TRUE)

OptionalSyscallTracepoint(op, arch) ==
    arch = "arm64" /\ op \in {"dup2", "rename", "unlink", "link", "symlink", "open"}

LSMHooks == {"file_open", "file_permission", "path_truncate", "path_rename", "inode_rename",
    "path_mknod", "inode_create", "path_unlink", "bprm_check_security"}
LSMTable == Rows("lsm", LSMHooks, Entry, TRUE)

\* The pairs of the ultra legacy runtime, which collects through kprobes.
PairedProbes == {"open", "openat", "write", "pwrite64", "writev"}
PairTable ==
    Rows("exit_probe", {"process_exit"}, Entry, FALSE)
    \cup Rows("kprobe", {"open"}, EntryExit, TRUE)
    \cup Rows("kprobe", PairedProbes \ {"open"}, EntryExit, FALSE)

RequiredProbes == {"openat", "rename", "renameat", "unlink", "unlinkat", "truncate", "ftruncate",
    "execve", "write", "pwrite64", "writev", "getdents64", "mmap"}
OptionalProbes == {"open", "openat2", "renameat2", "link", "linkat", "symlink", "symlinkat",
    "copy_file_range", "io_uring_enter"}
ProbeTable == Rows("kprobe", RequiredProbes, Entry, FALSE)
              \cup Rows("kprobe", OptionalProbes, Entry, TRUE)

\* A program of an object: the hook kind it is for, the call and the side.
Prog(kind, op, side) == <<kind, op, side>>

Programs(table) == UNION {{Prog(r.kind, r.op, s) : s \in Range(r.sides)} : r \in table}
OverridePrograms == Programs(ProbeTable) \ {Prog("kprobe", "open", "entry")}
UltraOps == {"open", "openat", "rename", "link", "symlink", "unlink", "truncate", "ftruncate",
    "execve", "write", "pwrite64", "writev"}

\* What must load for the runtime to exist, and what is loaded one by one.
BasePrograms(mode) ==
    IF mode = Ultra
    THEN {Prog("kprobe", op, "entry") : op \in UltraOps}
         \cup Programs(PairTable)
    ELSE Programs(TracepointTable)
OptionalPrograms(mode) ==
    CASE mode = Core -> OverridePrograms \cup Programs(LSMTable)
      [] mode = LegacyPerf -> OverridePrograms
      [] OTHER -> {}

-----------------------------------------------------------------------------
(* initialize, as the list of its steps *)

Stages == <<"extensions", "notes", "dirs", "cgroups", "inline_off", "tracepoints", "lsm",
    "kprobe_pairs", "kprobes", "validate", "reader", "inline_on">>
Tables == {"tracepoints", "lsm", "kprobe_pairs", "kprobes"}

\* What a step attaches; a call with a pair of probes gets no other kprobe.
Table(mode, what) ==
    CASE what = "tracepoints" /\ mode # Ultra -> TracepointTable
      [] what = "lsm" /\ env.lsm -> LSMTable
      [] what = "kprobe_pairs" /\ mode = Ultra -> PairTable
      [] what = "kprobes" -> {r \in ProbeTable : mode = Ultra => r.op \notin PairedProbes}
      [] OTHER -> {}

RowsOf(mode, n) ==
    IF n \in DOMAIN Stages THEN {r \in Table(mode, Stages[n]) : r.op \in Ops} ELSE {}

SensorModeCandidates(value) ==
    CASE Fold(value) \in {"", "auto"} -> <<Core, LegacyPerf, Ultra>>
      [] Fold(value) \in {Core, LegacyPerf, Ultra} -> <<Fold(value)>>
      [] Fold(value) = "legacy" -> <<LegacyPerf>>
      [] OTHER -> <<>>

Mode == Head(modes)
What == Stages[stage]
Step == CHOOSE r \in rows : TRUE

\* kprobeSymbols, and the argument layout a symbol of the call has.
KprobeSymbols == <<env.arch, "se", "sys">>
Vias(step) == CASE step.kind = "kprobe" -> KprobeSymbols
                [] step.kind = "exit_probe" -> <<"do_exit">>
                [] OTHER -> <<step.kind>>
SyscallABI(via) == IF via = "amd64" THEN 2 ELSE 1

Hook(step, side, via) ==
    [mode |-> Mode, kind |-> step.kind, op |-> step.op, side |-> side, via |-> via]

EmptyMaps == [extensions |-> {}, notes |-> {}, dirs |-> {}, cgroups |-> {}, scope |-> FALSE,
              inline |-> "observe", abi |-> [op \in UltraOps |-> 0]]
NoCaps == [deny |-> FALSE, denyOpenat |-> FALSE, hooks |-> {}]
NoProbe == [n |-> 1, got |-> 0]

Init ==
    /\ env \in Environments
    /\ phase = "start" /\ err = "none"
    /\ policy = NoPolicy /\ modes = <<>> /\ stage = 1 /\ rows = {} /\ probe = NoProbe
    /\ progs = {} /\ loaded = FALSE /\ links = {} /\ kept = {} /\ reader = FALSE
    /\ maps = EmptyMaps /\ caps = NoCaps

\* LoadMany, and the candidates of EBPFFLS_BPF_MODE.
LoadPolicy ==
    LET merged == WithDefaults(MergePolicies(env.files))
        candidates == SensorModeCandidates(env.modeValue)
        good == Missing \notin Range(env.files) /\ Valid(merged) /\ candidates # <<>>
    IN  /\ phase = "start"
        /\ phase' = IF good THEN "load" ELSE "failed"
        /\ err' = IF good THEN "none" ELSE "config"
        /\ policy' = IF good THEN merged ELSE policy
        /\ modes' = IF good THEN candidates ELSE modes
        /\ UNCHANGED <<env, stage, rows, probe, progs, loaded, links, kept, reader, maps, caps>>

MutRetrySame == modes' = modes /\ phase' = "load"

\* The next candidate, or the end when this was the last one.
NextMode ==
    /\ modes' = IF Len(modes) > 1 THEN Tail(modes) ELSE modes
    /\ phase' = IF Len(modes) > 1 THEN "load" ELSE "failed"

LoadObjects ==
    /\ phase = "load" /\ phase' = "initialize"
    /\ Mode = Ultra => env.arch = "amd64"
    /\ Mode = Core => env.btf # "bad"
    /\ \E optional \in SUBSET {p \in OptionalPrograms(Mode) : p[2] \in Ops} :
        progs' = BasePrograms(Mode) \cup optional
    /\ loaded' = TRUE /\ stage' = 1 /\ rows' = {}
    /\ UNCHANGED <<env, policy, modes, probe, links, kept, reader, maps, caps, err>>

LoadFails ==
    /\ phase = "load"
    /\ IF Mode = Core /\ env.btf = "bad"
       THEN phase' = "failed" /\ err' = "config" /\ modes' = modes
       ELSE NextMode /\ err' = "runtime"
    /\ UNCHANGED <<env, policy, stage, rows, probe, progs, loaded, links, kept, reader, maps, caps>>

-----------------------------------------------------------------------------
(* The steps of initialize *)

Done == stage' = stage + 1 /\ rows' = RowsOf(Mode, stage + 1) /\ UNCHANGED <<phase, err>>
RowDone == rows' = rows \ {Step} /\ UNCHANGED <<stage, phase, err>>
Fail(kind) == phase' = "cleanup" /\ err' = kind /\ stage' = 1 /\ rows' = {}

IocKeys(values) == {Fold(v) : v \in Range(values)} \ {""}
Inodes(paths, stat) == {stat[p] : p \in {TrimSpace(q) : q \in Range(paths)} \cap DOMAIN stat}

\* What the sync functions leave in the policy map of the step.
Synced(map) ==
    CASE map = "extensions" -> IocKeys(policy.list["suspicious_extensions"])
      [] map = "notes" -> IocKeys(policy.list["ransom_note_names"])
      [] map = "dirs" -> Inodes(policy.list["protected_dirs"], DirStat)
      [] map = "cgroups" -> Inodes(policy.list["cgroup_paths"], CgroupStat)

MutScopeOffFirst(map) == FALSE

\* syncCgroupScope enables the scope when it has an entry to compare with.
ScopeAfter(map) == IF map = "cgroups" THEN Synced(map) # {} ELSE maps.scope

\* ConfigurePolicy: clear the map, then put every key.
SyncMap ==
    LET map == What
    IN  /\ map \in {"extensions", "notes", "dirs", "cgroups"}
        /\ \/ /\ maps' = [maps EXCEPT ![map] = Synced(map), !.scope = ScopeAfter(map)]
              /\ Done
           \/ \E part \in SUBSET Synced(map) : maps' = [maps EXCEPT ![map] = part] /\ Fail("config")
        /\ UNCHANGED <<probe, links, kept, reader, caps>>

MutArmEarly(dryRun) == IF policy.text["action"] = "log" THEN "observe" ELSE policy.text["action"]

\* The value ConfigureEnforcement writes.
InlineAction(dryRun) ==
    IF dryRun \/ policy.text["action"] = "log" THEN "observe" ELSE policy.text["action"]

\* ConfigureEnforcement: only the core object has the map.
ConfigureEnforcement ==
    /\ What \in {"inline_off", "inline_on"}
    /\ \/ /\ maps' = IF Mode # Core THEN maps
                     ELSE [maps EXCEPT !.inline = InlineAction(env.dryRun \/ What = "inline_off")]
          /\ Done
       \/ Mode = Core /\ Fail("config") /\ maps' = maps
    /\ UNCHANGED <<probe, links, kept, reader, caps>>

\* The hooks the step has attached so far.
Attempt == {Hook(Step, Step.sides[k], Vias(Step)[probe.n]) : k \in 1 .. probe.got}

HasPrograms == Programs({Step}) \subseteq progs

\* Whether initialize goes on when the step has nothing attached.
MayMiss ==
    \/ Step.optional
    \/ Step.kind = "tracepoint" /\ OptionalSyscallTracepoint(Step.op, env.arch)
    \/ Step.kind = "kprobe" /\ Step.sides = Entry /\ (Mode # Ultra \/ ~HasPrograms)

GiveUp == IF MayMiss THEN RowDone ELSE Fail("runtime")

\* The end of a table, which may be empty.
TableDone ==
    /\ What \in Tables /\ rows = {}
    /\ Done
    /\ UNCHANGED <<probe, links, kept, reader, maps, caps>>

MissingProgram ==
    /\ rows # {} /\ ~HasPrograms
    /\ GiveUp
    /\ UNCHANGED <<probe, links, kept, reader, maps, caps>>

AttachSide ==
    /\ rows # {} /\ HasPrograms /\ probe.got < Len(Step.sides)
    /\ links' = links \cup {Hook(Step, Step.sides[probe.got + 1], Vias(Step)[probe.n])}
    /\ probe' = [probe EXCEPT !.got = @ + 1]
    /\ UNCHANGED <<phase, stage, rows, kept, reader, maps, caps, err>>

\* The links that stay when a side cannot be attached where its entry is.
RolledBack == links \ Attempt

\* A side fails: what the attempt attached is closed, the next symbol is tried.
AttachFails ==
    /\ rows # {} /\ HasPrograms /\ probe.got < Len(Step.sides)
    /\ links' = RolledBack
    /\ IF probe.n < Len(Vias(Step))
       THEN probe' = [n |-> probe.n + 1, got |-> 0] /\ UNCHANGED <<phase, stage, rows, err>>
       ELSE probe' = NoProbe /\ GiveUp
    /\ UNCHANGED <<kept, reader, maps, caps>>

CanDeny(hook) == hook.kind = "lsm" \/ (hook.kind = "kprobe" /\ hook.mode # Ultra)

RecordDenyHook(hooks) ==
    IF \E h \in hooks : CanDeny(h)
    THEN [deny |-> TRUE, hooks |-> caps.hooks \cup {h.op : h \in hooks},
          denyOpenat |-> caps.denyOpenat \/ \E h \in hooks :
              <<h.kind, h.op>> \in {<<"lsm", "file_open">>, <<"kprobe", "openat">>}]
    ELSE caps

NeedsABI == Step.kind = "kprobe" /\ Mode = Ultra

MutFirstSymbolABI(step) == SyscallABI(KprobeSymbols[1])

ABIFor(step) == SyscallABI(Vias(step)[probe.n])

MutKeepEntryOnly == kept \cup {h \in Attempt : h.side = "entry"}

\* s.links after the step.
KeptLinks == kept \cup Attempt

\* All sides are attached: tell the object the symbol's ABI, keep the links.
Attached ==
    /\ rows # {} /\ HasPrograms /\ probe.got = Len(Step.sides)
    /\ probe' = NoProbe
    /\ \/ /\ kept' = KeptLinks
          /\ caps' = RecordDenyHook(Attempt)
          /\ maps' = IF NeedsABI THEN [maps EXCEPT !.abi[Step.op] = ABIFor(Step)] ELSE maps
          /\ links' = links
          /\ RowDone
       \/ /\ NeedsABI /\ links' = RolledBack
          /\ UNCHANGED <<kept, caps, maps>>
          /\ GiveUp
    /\ UNCHANGED reader

WantsDeny ==
    \/ policy.text["action"] = "deny"
    \/ \E rule \in Range(policy.list["rules"]) : rule.action = "deny"

MutActionOnly == policy.text["action"] = "deny" /\ ~env.dryRun /\ ~caps.deny

DenyUnavailable == ~env.dryRun /\ ~caps.deny /\ WantsDeny

ValidatePolicyCapabilities ==
    /\ What = "validate"
    /\ IF DenyUnavailable THEN Fail("runtime") ELSE Done
    /\ UNCHANGED <<probe, links, kept, reader, maps, caps>>

\* newEventReader; the sharded event map must cover every possible CPU.
OpenReader ==
    /\ What = "reader"
    /\ \/ /\ Mode = Ultra => env.lastCPU < Shards
          /\ reader' = TRUE /\ Done
       \/ reader' = FALSE /\ Fail("runtime")
    /\ UNCHANGED <<probe, links, kept, maps, caps>>

Initialize ==
    /\ phase = "initialize" /\ stage \in DOMAIN Stages
    /\ \/ SyncMap \/ ConfigureEnforcement \/ ValidatePolicyCapabilities \/ OpenReader
       \/ TableDone \/ MissingProgram \/ AttachSide \/ AttachFails \/ Attached
    /\ UNCHANGED <<env, policy, modes, progs, loaded>>

-----------------------------------------------------------------------------
(* The end of initialize, of a runtime and of the agent *)

\* READY=1 is sent after newSensorWith returned the sensor.
Ready ==
    /\ phase = "initialize" /\ stage \notin DOMAIN Stages
    /\ phase' = "ready" /\ err' = "none"
    /\ UNCHANGED <<env, policy, modes, stage, rows, probe, progs, loaded, links, kept, reader, maps, caps>>

\* A failure that another runtime may not have.
MayFallBack == err # "config"

\* Close in the order reader, links, objects, and on to the next candidate.
Cleanup ==
    /\ phase = "cleanup"
    /\ reader' = FALSE /\ links' = links \ kept /\ kept' = {} /\ progs' = {} /\ loaded' = FALSE
    /\ maps' = EmptyMaps /\ caps' = NoCaps
    /\ IF MayFallBack THEN NextMode ELSE phase' = "failed" /\ modes' = modes
    /\ UNCHANGED <<env, policy, stage, rows, probe, err>>

\* A close that fails, of a link or of the objects, ends the agent.
CleanupFails ==
    /\ phase = "cleanup" /\ phase' = "failed" /\ err' = "cleanup"
    /\ \E left \in {{}} \cup {{h} : h \in kept} : links' = links \ (kept \ left)
    /\ reader' = FALSE /\ kept' = {}
    /\ UNCHANGED <<env, policy, modes, stage, rows, probe, progs, loaded, maps, caps>>

\* Run has returned: the deferred Close.
Stop ==
    /\ phase = "ready" /\ phase' = "stopped"
    /\ reader' = FALSE /\ links' = links \ kept /\ kept' = {} /\ progs' = {} /\ loaded' = FALSE
    /\ maps' = EmptyMaps
    /\ UNCHANGED <<env, policy, modes, stage, rows, probe, caps, err>>

Start == LoadPolicy \/ LoadObjects \/ LoadFails \/ Initialize \/ Ready \/ Cleanup \/ CleanupFails

Next == Start \/ Stop

\* newSensorWith runs on one goroutine and waits for nobody.
Spec == Init /\ [][Next]_vars /\ WF_vars(Start)

-----------------------------------------------------------------------------
(* Properties *)

\* A runtime that failed leaves nothing behind: when the next one is loaded, or
\* the agent gives up although every close succeeded, no hook, object or reader
\* is open; and the sensor that is handed out knows every hook it has attached.
NothingLeftOpen ==
    /\ phase = "load" \/ (phase = "failed" /\ err # "cleanup") \/ phase = "stopped"
        => links = {} /\ ~loaded /\ ~reader
    /\ phase = "ready" => links = kept /\ \A h \in links : h.mode = Mode

\* The rows without whose hooks the runtime misses events it is meant to collect.
RequiredRows(mode) ==
    {r \in IF mode = Ultra THEN PairTable \cup ProbeTable ELSE TracepointTable :
        /\ r.op \in Ops /\ ~r.optional
        /\ mode = Ultra => Programs({r}) \subseteq BasePrograms(Ultra)
        /\ mode # Ultra => ~OptionalSyscallTracepoint(r.op, env.arch)}

RequiredHooks(mode) == Programs(RequiredRows(mode))

Collecting == reader /\ RequiredHooks(Mode) \subseteq {Prog(h.kind, h.op, h.side) : h \in links}

\* The kernel acts on indicators by itself only in a live run whose events are
\* collected and read, and READY is sent only when events are.
InlineOnlyWhenReady ==
    /\ maps.inline # "observe" => Collecting /\ ~env.dryRun
    /\ phase = "ready" => Collecting

\* No hook fires before the kernel has the whole policy: names, directories and
\* the cgroup scope are in place when the first hook is attached.
PolicyBeforeHooks ==
    links # {} /\ phase # "failed" =>
        /\ \A map \in {"extensions", "notes", "dirs", "cgroups"} : maps[map] = Synced(map)
        /\ maps.scope = (maps.cgroups # {})

\* A live policy that denies runs only on a runtime with a hook that can deny,
\* and the capabilities reported are those of hooks that are attached.
DenyIsBacked ==
    /\ phase = "ready" \/ maps.inline # "observe" =>
        (~env.dryRun /\ WantsDeny => \E h \in links : CanDeny(h))
    /\ phase \in {"initialize", "ready"} =>
        /\ caps.hooks = {h.op : h \in {k \in kept : CanDeny(k)}}
        /\ caps.denyOpenat => \E h \in links : CanDeny(h) /\ h.op \in {"file_open", "openat"}

\* The object reads a call's arguments by the layout of the symbol its probes
\* are on: entry and exit share one symbol, and its ABI is set only after both.
ProbesAgree ==
    /\ \A g, h \in links : g.kind = h.kind /\ g.op = h.op => g.via = h.via
    /\ \A op \in UltraOps : maps.abi[op] # 0 /\ phase # "failed" =>
        \E r \in PairTable \cup ProbeTable, via \in Range(KprobeSymbols) :
            /\ r.op = op /\ (op \in PairedProbes => r.sides = EntryExit)
            /\ SyscallABI(via) = maps.abi[op]
            /\ {Hook(r, s, via) : s \in Range(r.sides)} \subseteq links
    /\ phase = "ready" /\ Mode = Ultra =>
        \A h \in links : h.kind = "kprobe" => maps.abi[h.op] # 0

\* The merged policy is the documented one: scalars of the last file that has
\* them, lists of all files in order, defaults for the rest, and a rule without
\* an action gets the action of the merged policy, not of its own file.
PolicyAsDocumented ==
    modes # <<>> =>
        /\ \A f \in TextFields : policy.text[f] = DocumentedText(env.files, f)
        /\ \A f \in NumberFields : DocumentedNumber(env.files, f) # 0 =>
               policy.number[f] = DocumentedNumber(env.files, f)
        /\ \A f \in NumberFields \ {"network_egress"} : policy.number[f] > 0
        /\ \A f \in ListFields :
            /\ Len(policy.list[f]) = DocumentedLength(env.files, f)
            /\ f \in {"protected_dirs", "cgroup_paths", "ports"} =>
                \A i \in DOMAIN env.files : \A k \in DOMAIN env.files[i].list[f] :
                    policy.list[f][DocumentedPlace(env.files, f, i, k)] = env.files[i].list[f][k]
        /\ \A i \in DOMAIN env.files : \A k \in DOMAIN env.files[i].list["rules"] :
            LET own == env.files[i].list["rules"][k].action
            IN  policy.list["rules"][DocumentedPlace(env.files, "rules", i, k)].action =
                    IF own = "" THEN policy.text["action"]
                    ELSE IF Fold(own) = "block" THEN "deny" ELSE Fold(own)

\* Start-up ends, ready or failed, whatever fails on the way.
StartUpEnds == <>(phase \in {"ready", "failed"})
===============================================================================
