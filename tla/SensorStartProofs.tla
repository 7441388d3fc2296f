-------------------------- MODULE SensorStartProofs --------------------------
(***************************************************************************)
(* The invariants of SensorStart for any policy files, any hosts and any   *)
(* choice of the tables' rows, whatever fails and in whatever order the    *)
(* rows of a table are taken.  The argument is about the rows that are     *)
(* behind initialize: every hook that is kept is owned by one of them, no  *)
(* two rows of a runtime can own the same hook, and a row without which    *)
(* events are missed is behind only with all its hooks kept.               *)
(***************************************************************************)
EXTENDS SensorStart, TLAPS

Modes == {Core, LegacyPerf, Ultra}

\* The rows initialize has dealt with.
Behind == {r \in UNION {RowsOf(Mode, n) : n \in 1 .. stage} : r \notin rows}

Owns(r, h) ==
    \E s \in Range(r.sides), via \in Range(Vias(r)) : h = Hook(r, s, via)

Keys(hooks) == {Prog(h.kind, h.op, h.side) : h \in hooks}

\* A row whose hooks the runtime cannot do without.
Needed(r) ==
    /\ ~r.optional
    /\ Mode = Ultra => Programs({r}) \subseteq BasePrograms(Ultra)
    /\ Mode # Ultra => r.kind = "tracepoint" /\ ~OptionalSyscallTracepoint(r.op, env.arch)

Placed ==
    /\ rows # {} /\ HasPrograms
    /\ probe \in [n : 1 .. Len(Vias(Step)), got : 0 .. Len(Step.sides)]

TypeInv ==
    /\ phase \in {"start", "load", "initialize", "cleanup", "ready", "failed", "stopped"}
    /\ phase \in {"load", "initialize", "cleanup", "ready"} => modes \in Seq(Modes) /\ modes # <<>>
    /\ stage \in 1 .. 13
    /\ rows \subseteq RowsOf(Mode, stage)
    /\ phase # "initialize" => rows = {}
    /\ phase = "ready" => stage = 13
    /\ probe = NoProbe \/ Placed
    /\ phase = "initialize" =>
        /\ BasePrograms(Mode) \subseteq progs
        /\ Mode = Ultra => progs \subseteq BasePrograms(Ultra)
    /\ DOMAIN maps = DOMAIN EmptyMaps
    /\ maps.abi \in [UltraOps -> {0, 1, 2}]
    /\ phase \in {"start", "load", "stopped"} => maps = EmptyMaps
    /\ phase \in {"start", "load"} => caps = NoCaps

LinkInv ==
    /\ phase \in {"start", "load", "stopped"} \/ (phase = "failed" /\ err # "cleanup") =>
        links = {} /\ ~loaded /\ ~reader
    /\ phase \in {"start", "load"} => kept = {}
    /\ phase = "initialize" => links = kept \cup Attempt
    /\ phase \in {"cleanup", "ready"} => links = kept
    /\ phase \in {"initialize", "ready"} => \A h \in kept : \E r \in Behind : Owns(r, h)

SameVia(hooks) == \A g, h \in hooks : g.kind = h.kind /\ g.op = h.op => g.via = h.via

HasPolicy(map) == maps[map] = Synced(map)

PolicyInv ==
    /\ phase = "initialize" =>
        /\ stage > 1 => HasPolicy("extensions")
        /\ stage > 2 => HasPolicy("notes")
        /\ stage > 3 => HasPolicy("dirs")
        /\ stage > 4 => HasPolicy("cgroups") /\ maps.scope = (maps.cgroups # {})
    /\ PolicyBeforeHooks

ReadyInv ==
    /\ phase \in {"initialize", "ready"} =>
        /\ \A r \in Behind : Needed(r) => Programs({r}) \subseteq Keys(kept)
        /\ stage > 11 => reader
    /\ maps.inline # "observe" =>
        ~env.dryRun /\ (phase = "ready" \/ (phase = "initialize" /\ stage = 13))

DenyInv ==
    phase \in {"initialize", "ready"} =>
        /\ caps.deny => \E h \in kept : CanDeny(h)
        /\ caps.hooks = {h.op : h \in {k \in kept : CanDeny(k)}}
        /\ caps.denyOpenat => \E h \in kept : CanDeny(h) /\ h.op \in {"file_open", "openat"}
        /\ stage > 10 /\ ~env.dryRun /\ WantsDeny => caps.deny

\* The ABI the object has for op is that of the place its probes are on.
Backed(op) ==
    \E r \in PairTable \cup ProbeTable, via \in Range(KprobeSymbols) :
        /\ r.op = op /\ (op \in PairedProbes => r.sides = EntryExit)
        /\ SyscallABI(via) = maps.abi[op]
        /\ {Hook(r, s, via) : s \in Range(r.sides)} \subseteq kept

ABIInv ==
    /\ phase \in {"initialize", "cleanup", "ready"} =>
        \A op \in UltraOps : maps.abi[op] # 0 => Backed(op)
    /\ phase \in {"initialize", "ready"} /\ Mode = Ultra =>
        \A h \in kept : h.kind = "kprobe" => h.op \in UltraOps /\ maps.abi[h.op] # 0

IInv == TypeInv /\ LinkInv /\ SameVia(links) /\ PolicyInv /\ ReadyInv /\ DenyInv /\ ABIInv

-----------------------------------------------------------------------------
(* The tables *)

\* initialize has twelve steps.
LEMMA StagesAre ==
    /\ DOMAIN Stages = 1 .. 12
    /\ Stages[1] = "extensions" /\ Stages[2] = "notes" /\ Stages[3] = "dirs"
    /\ Stages[4] = "cgroups" /\ Stages[5] = "inline_off" /\ Stages[6] = "tracepoints"
    /\ Stages[7] = "lsm" /\ Stages[8] = "kprobe_pairs" /\ Stages[9] = "kprobes"
    /\ Stages[10] = "validate" /\ Stages[11] = "reader" /\ Stages[12] = "inline_on"
BY DEF Stages

\* The sides of a row, of which there are one or two.
LEMMA SidesAre ==
    /\ Range(Entry) = {"entry"} /\ Range(Exit) = {"exit"} /\ Range(EntryExit) = {"entry", "exit"}
    /\ Len(Entry) = 1 /\ Len(Exit) = 1 /\ Len(EntryExit) = 2
    /\ DOMAIN Entry = 1 .. 1 /\ DOMAIN Exit = 1 .. 1 /\ DOMAIN EntryExit = 1 .. 2
    /\ Entry # EntryExit /\ Exit # EntryExit
BY DEF Range, Entry, Exit, EntryExit

\* The four stages that have rows, and the tables the rows are of.
LEMMA RowKinds ==
    ASSUME NEW mode, NEW n, n \in 1 .. 13, NEW r \in RowsOf(mode, n)
    PROVE  /\ n \in 6 .. 9 /\ r.op \in Ops
           /\ n = 6 => r \in TracepointTable /\ mode # Ultra
           /\ n = 7 => r \in LSMTable
           /\ n = 8 => r \in PairTable /\ mode = Ultra
           /\ n = 9 => r \in ProbeTable /\ (mode = Ultra => r.op \notin PairedProbes)
<1>1. n \in 1 .. 12 /\ r \in Table(mode, Stages[n]) /\ r.op \in Ops
    BY StagesAre DEF RowsOf
<1>2. n = 1 \/ n = 2 \/ n = 3 \/ n = 4 \/ n = 5 \/ n = 6 \/ n = 7 \/ n = 8 \/ n = 9
      \/ n = 10 \/ n = 11 \/ n = 12
    BY <1>1
<1> QED
    BY <1>1, <1>2, StagesAre DEF Table

\* The converse: the rows of a runtime with tracepoints, and of one without.
LEMMA RowsAhead ==
    ASSUME NEW mode
    PROVE  /\ mode # Ultra => RowsOf(mode, 6) = {r \in TracepointTable : r.op \in Ops}
           /\ mode = Ultra => RowsOf(mode, 8) = {r \in PairTable : r.op \in Ops}
           /\ mode = Ultra => RowsOf(mode, 9) =
                {r \in ProbeTable : r.op \notin PairedProbes /\ r.op \in Ops}
BY StagesAre DEF RowsOf, Table

\* The rows of each table.
LEMMA TracepointRow ==
    ASSUME NEW r \in TracepointTable
    PROVE  /\ \/ r.op \in Paired \cup EntryOnly /\ r.sides = Entry /\ r.optional = FALSE
              \/ r.op \in Paired /\ r.sides = Exit /\ r.optional = FALSE
              \/ r.op \in OptionalEntry /\ r.sides = Entry /\ r.optional = TRUE
              \/ r.op = "openat2" /\ r.sides = EntryExit /\ r.optional = TRUE
           /\ r.kind = "tracepoint"
           /\ r = [kind |-> r.kind, op |-> r.op, sides |-> r.sides, optional |-> r.optional]
BY DEF TracepointTable, Rows

\* See TracepointRow.
LEMMA LSMRow ==
    ASSUME NEW r \in LSMTable
    PROVE  /\ r.kind = "lsm" /\ r.sides = Entry /\ r.optional = TRUE
           /\ r = [kind |-> r.kind, op |-> r.op, sides |-> r.sides, optional |-> r.optional]
BY DEF LSMTable, Rows

\* See TracepointRow.
LEMMA PairRow ==
    ASSUME NEW r \in PairTable
    PROVE  /\ \/ r.kind = "exit_probe" /\ r.op = "process_exit" /\ r.sides = Entry /\ r.optional = FALSE
              \/ r.kind = "kprobe" /\ r.op = "open" /\ r.sides = EntryExit /\ r.optional = TRUE
              \/ /\ r.kind = "kprobe" /\ r.op \in PairedProbes \ {"open"}
                 /\ r.sides = EntryExit /\ r.optional = FALSE
           /\ r = [kind |-> r.kind, op |-> r.op, sides |-> r.sides, optional |-> r.optional]
<1>1. CASE r \in Rows("exit_probe", {"process_exit"}, Entry, FALSE)
    BY <1>1 DEF Rows
<1>2. CASE r \in Rows("kprobe", {"open"}, EntryExit, TRUE)
    BY <1>2 DEF Rows
<1>3. CASE r \in Rows("kprobe", PairedProbes \ {"open"}, EntryExit, FALSE)
    BY <1>3 DEF Rows
<1> QED
    BY <1>1, <1>2, <1>3, Zenon DEF PairTable

\* See TracepointRow.
LEMMA ProbeRow ==
    ASSUME NEW r \in ProbeTable
    PROVE  /\ \/ r.op \in RequiredProbes /\ r.optional = FALSE
              \/ r.op \in OptionalProbes /\ r.optional = TRUE
           /\ r.kind = "kprobe" /\ r.sides = Entry
           /\ r = [kind |-> r.kind, op |-> r.op, sides |-> r.sides, optional |-> r.optional]
<1>1. CASE r \in Rows("kprobe", RequiredProbes, Entry, FALSE)
    BY <1>1 DEF Rows
<1>2. CASE r \in Rows("kprobe", OptionalProbes, Entry, TRUE)
    BY <1>2 DEF Rows
<1> QED
    BY <1>1, <1>2, Zenon DEF ProbeTable

\* What the rows of a runtime have in common.
LEMMA RowShape ==
    ASSUME NEW mode, NEW n \in 1 .. 13, NEW r \in RowsOf(mode, n)
    PROVE  /\ r.sides \in {Entry, Exit, EntryExit}
           /\ r.kind \in {"tracepoint", "lsm", "exit_probe", "kprobe"}
           /\ r.kind = "tracepoint" => mode # Ultra
           /\ r = [kind |-> r.kind, op |-> r.op, sides |-> r.sides, optional |-> r.optional]
<1>1. (r \in TracepointTable /\ mode # Ultra) \/ r \in LSMTable \/ r \in PairTable \/ r \in ProbeTable
    BY RowKinds
<1>2. CASE r \in TracepointTable /\ mode # Ultra
    BY <1>2, TracepointRow, Zenon
<1>3. CASE r \in LSMTable
    BY <1>3, LSMRow, Zenon
<1>4. CASE r \in PairTable
    BY <1>4, PairRow, Zenon
<1>5. CASE r \in ProbeTable
    BY <1>5, ProbeRow, Zenon
<1> QED
    BY <1>1, <1>2, <1>3, <1>4, <1>5

\* The programs of a table.
LEMMA ProgramsAre ==
    ASSUME NEW table, NEW p
    PROVE  p \in Programs(table) <=> \E r \in table : \E s \in Range(r.sides) : p = Prog(r.kind, r.op, s)
BY DEF Programs

\* Two rows that could own one hook, or two hooks of one kprobe.
Clash(r, q) ==
    /\ r.kind = q.kind /\ r.op = q.op
    /\ r.kind = "kprobe" \/ Range(r.sides) \cap Range(q.sides) # {}

\* A runtime has no two such rows.
LEMMA OneRow ==
    ASSUME NEW mode, NEW m \in 1 .. 13, NEW n \in 1 .. 13,
           NEW r \in RowsOf(mode, m), NEW q \in RowsOf(mode, n), Clash(r, q)
    PROVE  r = q /\ m = n
<1>1. /\ m \in 6 .. 9 /\ n \in 6 .. 9
      /\ m = 6 => r \in TracepointTable /\ mode # Ultra
      /\ m = 7 => r \in LSMTable
      /\ m = 8 => r \in PairTable /\ mode = Ultra
      /\ m = 9 => r \in ProbeTable /\ (mode = Ultra => r.op \notin PairedProbes)
      /\ n = 6 => q \in TracepointTable /\ mode # Ultra
      /\ n = 7 => q \in LSMTable
      /\ n = 8 => q \in PairTable /\ mode = Ultra
      /\ n = 9 => q \in ProbeTable /\ (mode = Ultra => q.op \notin PairedProbes)
    BY RowKinds
<1>3. r.kind = q.kind /\ r.op = q.op
    BY DEF Clash
<1>2. m = n
  <2>1. \A k \in {6, 7} : /\ m = k => r.kind = (IF k = 6 THEN "tracepoint" ELSE "lsm")
                          /\ n = k => q.kind = (IF k = 6 THEN "tracepoint" ELSE "lsm")
    BY <1>1, TracepointRow, LSMRow, Zenon
  <2>2. /\ m = 8 => r.kind = "exit_probe" \/ (r.kind = "kprobe" /\ r.op \in PairedProbes)
        /\ n = 8 => q.kind = "exit_probe" \/ (q.kind = "kprobe" /\ q.op \in PairedProbes)
    BY <1>1, PairRow, Zenon DEF PairedProbes
  <2>3. (m = 9 => r.kind = "kprobe") /\ (n = 9 => q.kind = "kprobe")
    BY <1>1, ProbeRow, Zenon
  <2> QED
    BY <1>1, <1>3, <2>1, <2>2, <2>3
<1>4. r.sides = q.sides /\ r.optional = q.optional
  <2>1. CASE m = 6
    <3>1. Range(r.sides) \cap Range(q.sides) # {}
        BY <1>1, <2>1, TracepointRow, Zenon DEF Clash
    <3>2. Paired \cap OptionalEntry = {} /\ EntryOnly \cap OptionalEntry = {}
          /\ "openat2" \notin Paired \cup EntryOnly \cup OptionalEntry
        BY DEF Paired, EntryOnly, OptionalEntry
    <3> QED
        <4>1. r \in TracepointTable /\ q \in TracepointTable
            BY <1>1, <1>2, <2>1
        <4>2. /\ \/ r.op \in Paired \cup EntryOnly /\ r.sides = Entry /\ r.optional = FALSE
                 \/ r.op \in Paired /\ r.sides = Exit /\ r.optional = FALSE
                 \/ r.op \in OptionalEntry /\ r.sides = Entry /\ r.optional = TRUE
                 \/ r.op = "openat2" /\ r.sides = EntryExit /\ r.optional = TRUE
              /\ \/ q.op \in Paired \cup EntryOnly /\ q.sides = Entry /\ q.optional = FALSE
                 \/ q.op \in Paired /\ q.sides = Exit /\ q.optional = FALSE
                 \/ q.op \in OptionalEntry /\ q.sides = Entry /\ q.optional = TRUE
                 \/ q.op = "openat2" /\ q.sides = EntryExit /\ q.optional = TRUE
            BY <4>1, TracepointRow, Zenon
        <4> QED
            BY <1>3, <3>1, <3>2, <4>2, SidesAre, Zenon
  <2>2. CASE m = 7
    BY <1>1, <1>2, <2>2, LSMRow, Zenon
  <2>3. CASE m = 8
    BY <1>1, <1>2, <1>3, <2>3, PairRow, Zenon
  <2>4. CASE m = 9
    <3>1. RequiredProbes \cap OptionalProbes = {}
        BY DEF RequiredProbes, OptionalProbes
    <3> QED
        BY <1>1, <1>2, <1>3, <2>4, <3>1, ProbeRow, Zenon
  <2> QED
    BY <1>1, <2>1, <2>2, <2>3, <2>4
<1> QED
    BY <1>2, <1>3, <1>4, RowShape

-----------------------------------------------------------------------------
(* Rows, hooks and places *)

\* The places a row is tried at; only a kprobe has more than one.
LEMMA ViasAre ==
    ASSUME NEW r
    PROVE  /\ Len(Vias(r)) \in 1 .. 3 /\ DOMAIN Vias(r) = 1 .. Len(Vias(r))
           /\ \A k \in 1 .. Len(Vias(r)) : Vias(r)[k] \in Range(Vias(r))
           /\ r.kind = "kprobe" => Vias(r) = KprobeSymbols
           /\ r.kind # "kprobe" =>
                \A via \in Range(Vias(r)) : via = IF r.kind = "exit_probe" THEN "do_exit" ELSE r.kind
<1>1. /\ r.kind = "kprobe" => Vias(r) = <<env.arch, "se", "sys">>
      /\ r.kind # "kprobe" => Vias(r) = <<IF r.kind = "exit_probe" THEN "do_exit" ELSE r.kind>>
    BY DEF Vias, KprobeSymbols
<1>2. Len(Vias(r)) \in 1 .. 3 /\ DOMAIN Vias(r) = 1 .. Len(Vias(r))
    BY <1>1
<1>3. /\ \A k \in 1 .. Len(Vias(r)) : Vias(r)[k] \in Range(Vias(r))
      /\ \A via \in Range(Vias(r)) : \E k \in 1 .. Len(Vias(r)) : via = Vias(r)[k]
    BY <1>2 DEF Range
<1>4. ASSUME r.kind # "kprobe"
      PROVE  \A via \in Range(Vias(r)) : via = IF r.kind = "exit_probe" THEN "do_exit" ELSE r.kind
    BY <1>1, <1>3, <1>4
<1> QED
    BY <1>1, <1>2, <1>3, <1>4 DEF KprobeSymbols

\* The row at hand is one of those still to attach.
LEMMA StepIn ==
    ASSUME rows # {}
    PROVE  Step \in rows
BY DEF Step

\* The sides of a row of a runtime.
LEMMA RowSides ==
    ASSUME NEW mode, NEW n \in 1 .. 13, NEW r \in RowsOf(mode, n)
    PROVE  /\ Len(r.sides) \in 1 .. 2 /\ DOMAIN r.sides = 1 .. Len(r.sides)
           /\ \A k \in 1 .. Len(r.sides) : r.sides[k] \in Range(r.sides)
           /\ \A s \in Range(r.sides) : \E k \in 1 .. Len(r.sides) : s = r.sides[k]
<1>1. r.sides = Entry \/ r.sides = Exit \/ r.sides = EntryExit
    BY RowShape
<1>2. Len(r.sides) \in 1 .. 2 /\ DOMAIN r.sides = 1 .. Len(r.sides)
  <2>1. CASE r.sides = Entry
    BY <2>1, SidesAre
  <2>2. CASE r.sides = Exit
    BY <2>2, SidesAre
  <2>3. CASE r.sides = EntryExit
    BY <2>3, SidesAre
  <2> QED
    BY <1>1, <2>1, <2>2, <2>3
<1> QED
    BY <1>2 DEF Range

\* The fields of a hook.
LEMMA HookFields ==
    ASSUME NEW r, NEW s, NEW via
    PROVE  /\ Hook(r, s, via).mode = Mode /\ Hook(r, s, via).kind = r.kind
           /\ Hook(r, s, via).op = r.op /\ Hook(r, s, via).side = s /\ Hook(r, s, via).via = via
BY DEF Hook

\* The hooks of the attempt are hooks of the row at hand, all in one place.
LEMMA AttemptOwned ==
    ASSUME TypeInv, NEW h \in Attempt
    PROVE  /\ rows # {} /\ Owns(Step, h) /\ h.via = Vias(Step)[probe.n]
           /\ h.mode = Mode /\ h.kind = Step.kind /\ h.op = Step.op
<1>1. PICK k \in 1 .. probe.got : h = Hook(Step, Step.sides[k], Vias(Step)[probe.n])
    BY DEF Attempt
<1>2. Placed
    BY <1>1 DEF TypeInv, NoProbe
<1>3. Step \in RowsOf(Mode, stage) /\ stage \in 1 .. 13
    BY <1>2, StepIn DEF TypeInv, Placed
<1>4. Step.sides[k] \in Range(Step.sides) /\ Vias(Step)[probe.n] \in Range(Vias(Step))
  <2>1. k \in 1 .. Len(Step.sides) /\ probe.n \in 1 .. Len(Vias(Step))
    <3>1. probe.got \in 0 .. Len(Step.sides) /\ probe.n \in 1 .. Len(Vias(Step))
        BY <1>2 DEF Placed
    <3>2. Len(Step.sides) \in 1 .. 2
        BY <1>3, RowSides
    <3> QED
        BY <1>1, <3>1, <3>2
  <2>2. Step.sides[k] \in Range(Step.sides)
    BY <1>3, <2>1, RowSides
  <2>3. Vias(Step)[probe.n] \in Range(Vias(Step))
    BY <2>1, ViasAre, Zenon
  <2> QED
    BY <2>2, <2>3
<1> QED
    BY <1>1, <1>2, <1>4, HookFields DEF Owns, Placed

\* Nothing is attached at a row that is not being tried.
LEMMA NoAttempt ==
    ASSUME probe = NoProbe
    PROVE  Attempt = {}
BY DEF Attempt, NoProbe

\* Two rows that own one hook clash.
LEMMA OwnersClash ==
    ASSUME NEW r, NEW q, NEW h, Owns(r, h), Owns(q, h)
    PROVE  Clash(r, q)
<1>1. PICK s \in Range(r.sides), v \in Range(Vias(r)) : h = Hook(r, s, v)
    BY Zenon DEF Owns
<1>2. PICK t \in Range(q.sides), w \in Range(Vias(q)) : h = Hook(q, t, w)
    BY DEF Owns
<1>3. h.kind = r.kind /\ h.op = r.op /\ h.side = s
    BY <1>1 DEF Hook
<1>4. h.kind = q.kind /\ h.op = q.op /\ h.side = t
    BY <1>2 DEF Hook
<1> QED
    BY <1>3, <1>4 DEF Clash

\* No row that clashes with the one at hand is behind.
LEMMA Fresh ==
    ASSUME TypeInv, rows # {}, NEW r \in Behind
    PROVE  ~ Clash(r, Step)
<1>1. PICK n \in 1 .. stage : r \in RowsOf(Mode, n)
    BY DEF Behind
<1>2. Step \in RowsOf(Mode, stage) /\ Step \in rows /\ r \notin rows /\ stage \in 1 .. 13 /\ n \in 1 .. 13
    BY <1>1, StepIn DEF TypeInv, Behind
<1> QED
    BY <1>1, <1>2, OneRow

\* So the hooks kept are none of the attempt, and a roll back leaves them.
LEMMA RollBack ==
    ASSUME TypeInv, LinkInv, phase = "initialize"
    PROVE  /\ \A h \in kept : rows # {} => ~ Owns(Step, h)
           /\ links \ Attempt = kept
<1>1. ASSUME NEW h \in kept, rows # {}
      PROVE  ~ Owns(Step, h)
  <2>1. PICK r \in Behind : Owns(r, h)
    BY DEF LinkInv
  <2> QED
    BY <1>1, <2>1, Fresh, OwnersClash
<1>2. links = kept \cup Attempt
    BY DEF LinkInv
<1> QED
    BY <1>1, <1>2, AttemptOwned

\* The rows ahead when a stage is over, and when a row is.
LEMMA RowsStay ==
    ASSUME UNCHANGED <<env, modes>>
    PROVE  /\ Mode' = Mode
           /\ \A n : RowsOf(Mode, n)' = RowsOf(Mode, n)
BY DEF Mode, RowsOf, Table

\* When a stage is over, the rows behind are the same.
LEMMA BehindStage ==
    ASSUME TypeInv, UNCHANGED <<env, modes>>, rows = {}, stage \in 1 .. 12,
           stage' = stage + 1, rows' = RowsOf(Mode, stage + 1)
    PROVE  Behind' = Behind
<1>1. \A r : r \in Behind' <=> (\E n \in 1 .. stage + 1 : r \in RowsOf(Mode, n)) /\ r \notin rows'
    BY RowsStay DEF Behind
<1>2. \A r : r \in Behind <=> \E n \in 1 .. stage : r \in RowsOf(Mode, n)
    BY DEF Behind
<1>3. ASSUME NEW r, NEW n \in 1 .. stage, r \in RowsOf(Mode, n), r \in RowsOf(Mode, stage + 1)
      PROVE  FALSE
  <2>1. n \in 1 .. 13 /\ stage + 1 \in 1 .. 13 /\ n # stage + 1
    OBVIOUS
  <2>2. Clash(r, r)
    BY <1>3, <2>1, RowShape, SidesAre DEF Clash
  <2> QED
    BY <1>3, <2>1, <2>2, OneRow
<1> QED
    BY <1>1, <1>2, <1>3

\* When a row is over, it is behind too.
LEMMA BehindRow ==
    ASSUME TypeInv, UNCHANGED <<env, modes>>, rows # {}, stage' = stage, rows' = rows \ {Step}
    PROVE  Behind' = Behind \cup {Step}
<1>1. \A r : r \in Behind' <=> (\E n \in 1 .. stage : r \in RowsOf(Mode, n)) /\ r \notin rows'
    BY RowsStay DEF Behind
<1>2. \A r : r \in Behind <=> (\E n \in 1 .. stage : r \in RowsOf(Mode, n)) /\ r \notin rows
    BY DEF Behind
<1>3. Step \in RowsOf(Mode, stage) /\ Step \in rows /\ stage \in 1 .. stage
    BY StepIn DEF TypeInv
<1> QED
    BY <1>1, <1>2, <1>3

-----------------------------------------------------------------------------
(* What a step of initialize comes to *)

\* A stage is over.
Moved ==
    /\ rows = {} /\ stage \in 1 .. 12 /\ Done
    /\ probe = NoProbe /\ UNCHANGED <<probe, links, kept>>

\* The runtime is given up, without the hooks of the row at hand.
Failed ==
    /\ phase' = "cleanup" /\ stage' = 1 /\ rows' = {} /\ err' \in {"config", "runtime"}
    /\ probe' = NoProbe /\ links' = kept /\ UNCHANGED <<kept, caps>>

\* A row that the runtime can do without is left out.
Passed ==
    /\ rows # {} /\ RowDone /\ ~ Needed(Step)
    /\ probe' = NoProbe /\ links' = kept /\ UNCHANGED <<kept, reader, maps, caps>>

\* A row is attached, all its sides in one place.
Hooked ==
    /\ rows # {} /\ RowDone /\ HasPrograms /\ Placed /\ probe.got = Len(Step.sides)
    /\ probe' = NoProbe /\ kept' = kept \cup Attempt /\ links' = kept'
    /\ caps' = RecordDenyHook(Attempt)
    /\ maps' = IF NeedsABI THEN [maps EXCEPT !.abi[Step.op] = ABIFor(Step)] ELSE maps
    /\ reader' = reader

\* A row is being tried.
Probing ==
    /\ rows # {} /\ Placed' /\ links' = kept \cup Attempt'
    /\ UNCHANGED <<phase, stage, rows, kept, reader, maps, caps, err>>

\* A row that initialize may do without is not needed.
LEMMA MissedNotNeeded ==
    ASSUME TypeInv, phase = "initialize", rows # {}, MayMiss
    PROVE  ~ Needed(Step)
<1>1. Step \in RowsOf(Mode, stage) /\ stage \in 1 .. 13
    BY StepIn DEF TypeInv
<1>2. CASE Step.optional
    BY <1>2 DEF Needed
<1>3. CASE Step.kind = "tracepoint" /\ OptionalSyscallTracepoint(Step.op, env.arch)
  <2>1. Mode # Ultra
    BY <1>1, <1>3, RowShape
  <2> QED
    BY <1>3, <2>1 DEF Needed
<1>4. CASE Step.kind = "kprobe" /\ Mode # Ultra
    BY <1>4 DEF Needed
<1>5. CASE Mode = Ultra /\ ~HasPrograms
    BY <1>5, Zenon DEF Needed, TypeInv, HasPrograms
<1> QED
    BY <1>2, <1>3, <1>4, <1>5 DEF MayMiss

\* Nothing is tried at a row that has no programs.
LEMMA MissingProgramOutcome ==
    ASSUME TypeInv, LinkInv, phase = "initialize", MissingProgram, UNCHANGED <<env, modes>>
    PROVE  Failed \/ Passed
<1>1. probe = NoProbe /\ rows # {} /\ links = kept
    BY NoAttempt, Zenon DEF MissingProgram, TypeInv, Placed, LinkInv
<1>2. CASE MayMiss
    BY <1>1, <1>2, MissedNotNeeded DEF Passed, MissingProgram, GiveUp
<1>3. CASE ~MayMiss
    BY <1>1, <1>3 DEF Failed, MissingProgram, GiveUp, Fail
<1> QED
    BY <1>2, <1>3

\* One more side is attached.
LEMMA AttachSideOutcome ==
    ASSUME TypeInv, LinkInv, phase = "initialize", AttachSide, UNCHANGED <<env, modes, progs>>
    PROVE  Probing
<1> DEFINE new == Hook(Step, Step.sides[probe.got + 1], Vias(Step)[probe.n])
<1>1. Step' = Step /\ Mode' = Mode /\ Vias(Step)' = Vias(Step) /\ HasPrograms'
    BY DEF AttachSide, Step, Mode, Vias, KprobeSymbols, HasPrograms
<1>2. /\ probe \in [n : Nat, got : Nat] /\ probe.n \in 1 .. Len(Vias(Step))
      /\ probe.got + 1 \in 1 .. Len(Step.sides)
  <2>1. Len(Vias(Step)) \in 1 .. 3
    BY ViasAre
  <2>2. Len(Step.sides) \in 1 .. 2
    BY StepIn, RowSides DEF AttachSide, TypeInv
  <2>3. CASE probe = NoProbe
    BY <2>1, <2>2, <2>3 DEF NoProbe
  <2>4. CASE Placed
    BY <2>1, <2>2, <2>4 DEF Placed, AttachSide
  <2> QED
    BY <2>3, <2>4 DEF TypeInv
<1>3. probe' = [n |-> probe.n, got |-> probe.got + 1]
    BY <1>2 DEF AttachSide
<1>4. Placed'
    BY <1>1, <1>2, <1>3 DEF Placed, AttachSide
<1>5. \A s, v : Hook(Step, s, v)' = Hook(Step, s, v)
    BY <1>1 DEF Hook
<1>6. Attempt' = Attempt \cup {new}
    BY <1>1, <1>2, <1>3, <1>5 DEF Attempt
<1>7. links' = links \cup {new}
    BY DEF AttachSide
<1> QED
    BY <1>4, <1>6, <1>7 DEF Probing, AttachSide, LinkInv

\* A side fails.
LEMMA AttachFailsOutcome ==
    ASSUME TypeInv, LinkInv, phase = "initialize", AttachFails, UNCHANGED <<env, modes, progs>>
    PROVE  Probing \/ Failed \/ Passed
<1>1. links' = kept /\ rows # {}
    BY RollBack DEF AttachFails, RolledBack
<1>2. CASE probe.n < Len(Vias(Step))
  <2>1. Step' = Step /\ Vias(Step)' = Vias(Step) /\ HasPrograms'
    BY <1>2 DEF AttachFails, Step, Mode, Vias, KprobeSymbols, HasPrograms
  <2>2. probe' = [n |-> probe.n + 1, got |-> 0]
    BY <1>2 DEF AttachFails
  <2>3. Attempt' = {}
    BY <2>2 DEF Attempt
  <2>4. probe.n \in Nat \ {0} /\ Len(Vias(Step)) \in Nat /\ Len(Step.sides) \in Nat
    <3>1. Len(Step.sides) \in Nat
        BY <1>1, StepIn, RowSides DEF TypeInv
    <3>2. Len(Vias(Step)) \in Nat
        BY ViasAre
    <3>3. CASE probe = NoProbe
        BY <3>1, <3>2, <3>3 DEF NoProbe
    <3>4. CASE Placed
        BY <3>1, <3>2, <3>4 DEF Placed
    <3> QED
        BY <3>3, <3>4 DEF TypeInv
  <2>5. Placed'
    BY <1>1, <1>2, <2>1, <2>2, <2>4 DEF Placed, AttachFails
  <2> QED
    BY <1>1, <1>2, <2>3, <2>5 DEF Probing, AttachFails
<1>3. CASE ~(probe.n < Len(Vias(Step))) /\ MayMiss
    BY <1>1, <1>3, MissedNotNeeded DEF Passed, AttachFails, GiveUp
<1>4. CASE ~(probe.n < Len(Vias(Step))) /\ ~MayMiss
    BY <1>1, <1>4 DEF Failed, AttachFails, GiveUp, Fail
<1> QED
    BY <1>2, <1>3, <1>4

\* All sides are attached.
LEMMA AttachedOutcome ==
    ASSUME TypeInv, LinkInv, phase = "initialize", Attached, UNCHANGED <<env, modes, progs>>
    PROVE  Hooked \/ Failed \/ Passed
<1>1. rows # {} /\ HasPrograms /\ probe.got = Len(Step.sides) /\ probe' = NoProbe /\ reader' = reader
    BY DEF Attached
<1>2. Placed
  <2>1. Len(Step.sides) \in 1 .. 2
    BY <1>1, StepIn, RowSides DEF TypeInv
  <2>2. probe # NoProbe
    BY <1>1, <2>1 DEF NoProbe
  <2> QED
    BY <2>2 DEF TypeInv
<1>3. CASE kept' = KeptLinks /\ links' = links /\ RowDone /\ caps' = RecordDenyHook(Attempt)
           /\ maps' = IF NeedsABI THEN [maps EXCEPT !.abi[Step.op] = ABIFor(Step)] ELSE maps
    BY <1>1, <1>2, <1>3 DEF Hooked, KeptLinks, LinkInv
<1>4. CASE links' = RolledBack /\ UNCHANGED <<kept, caps, maps>> /\ GiveUp
  <2>1. links' = kept
    BY <1>4, RollBack DEF RolledBack
  <2>2. CASE MayMiss
    BY <1>1, <1>4, <2>1, <2>2, MissedNotNeeded DEF Passed, GiveUp
  <2>3. CASE ~MayMiss
    BY <1>1, <1>4, <2>1, <2>3 DEF Failed, GiveUp, Fail
  <2> QED
    BY <2>2, <2>3
<1> QED
    BY <1>3, <1>4 DEF Attached

\* A stage without a table has no rows, and nothing is being attached.
LEMMA PlainStage ==
    ASSUME TypeInv, LinkInv, phase = "initialize", stage \in DOMAIN Stages, What \notin Tables
    PROVE  rows = {} /\ probe = NoProbe /\ links = kept /\ stage \in 1 .. 12
<1>1. stage \in 1 .. 12 /\ stage \in 1 .. 13
    BY StagesAre
<1>2. stage \notin 6 .. 9
  <2>1. stage # 6 /\ stage # 7 /\ stage # 8 /\ stage # 9
    BY StagesAre DEF What, Tables
  <2> QED
    BY <1>1, <2>1
<1>3. rows = {}
    BY <1>1, <1>2, RowKinds DEF TypeInv
<1>4. probe = NoProbe
    BY <1>3 DEF TypeInv, Placed
<1> QED
    BY <1>1, <1>3, <1>4, NoAttempt DEF LinkInv

\* Every step of initialize is one of the five.
LEMMA Outcome ==
    ASSUME TypeInv, LinkInv, Initialize
    PROVE  Moved \/ Failed \/ Passed \/ Hooked \/ Probing
<1>0. phase = "initialize" /\ stage \in DOMAIN Stages /\ UNCHANGED <<env, modes, progs>>
    BY DEF Initialize
<1>1. CASE SyncMap
  <2>1. What \notin Tables
    BY <1>1, Zenon DEF SyncMap, Tables
  <2> QED
    BY <1>0, <1>1, <2>1, PlainStage, Zenon DEF SyncMap, Moved, Failed, Fail
<1>2. CASE ConfigureEnforcement
  <2>1. What \notin Tables
    BY <1>2 DEF ConfigureEnforcement, Tables
  <2> QED
    BY <1>0, <1>2, <2>1, PlainStage DEF ConfigureEnforcement, Moved, Failed, Fail
<1>3. CASE ValidatePolicyCapabilities
  <2>1. What \notin Tables
    BY <1>3 DEF ValidatePolicyCapabilities, Tables
  <2> QED
    BY <1>0, <1>3, <2>1, PlainStage DEF ValidatePolicyCapabilities, Moved, Failed, Fail
<1>4. CASE OpenReader
  <2>1. What \notin Tables
    BY <1>4 DEF OpenReader, Tables
  <2> QED
    BY <1>0, <1>4, <2>1, PlainStage DEF OpenReader, Moved, Failed, Fail
<1>5. CASE TableDone
    BY <1>0, <1>5, StagesAre DEF TableDone, Moved, TypeInv, Placed
<1>6. CASE MissingProgram
    BY <1>0, <1>6, MissingProgramOutcome
<1>7. CASE AttachSide
    BY <1>0, <1>7, AttachSideOutcome
<1>8. CASE AttachFails
    BY <1>0, <1>8, AttachFailsOutcome
<1>9. CASE Attached
    BY <1>0, <1>9, AttachedOutcome
<1> QED
    BY <1>1, <1>2, <1>3, <1>4, <1>5, <1>6, <1>7, <1>8, <1>9 DEF Initialize

-----------------------------------------------------------------------------
(* The types *)

\* The maps of an object that was just loaded.
LEMMA EmptyMapsAre ==
    /\ EmptyMaps' = EmptyMaps /\ NoCaps' = NoCaps /\ NoProbe' = NoProbe
    /\ DOMAIN EmptyMaps = {"extensions", "notes", "dirs", "cgroups", "scope", "inline", "abi"}
    /\ EmptyMaps.inline = "observe"
    /\ EmptyMaps.abi \in [UltraOps -> {0, 1, 2}]
    /\ \A op \in UltraOps : EmptyMaps.abi[op] = 0
BY DEF EmptyMaps, NoCaps, NoProbe

\* The symbols of a call have one of two layouts.
LEMMA ABIValues ==
    ASSUME NEW step
    PROVE  ABIFor(step) \in {1, 2}
BY DEF ABIFor, SyscallABI

\* Only a call with an entry of its own in the object is told an ABI.
LEMMA UltraRow ==
    ASSUME TypeInv, phase = "initialize", rows # {}, HasPrograms, NeedsABI
    PROVE  Step.op \in UltraOps /\ Step \in PairTable \cup ProbeTable
<1>1. Step \in RowsOf(Mode, stage) /\ stage \in 1 .. 13 /\ Step.kind = "kprobe" /\ Mode = Ultra
    BY StepIn DEF TypeInv, NeedsABI
<1>2. Step \in PairTable \/ (Step \in ProbeTable /\ Step.op \notin PairedProbes)
  <2>1. stage # 7
    BY <1>1, RowKinds, LSMRow, Zenon
  <2> QED
    BY <1>1, <2>1, RowKinds
<1>3. CASE Step \in PairTable
    BY <1>1, <1>3, PairRow, Zenon DEF PairedProbes, UltraOps
<1>4. CASE Step \in ProbeTable /\ Step.op \notin PairedProbes
  <2>1. Prog("kprobe", Step.op, "entry") \in BasePrograms(Ultra)
    <3>1. "entry" \in Range(Step.sides)
        BY <1>4, ProbeRow, SidesAre, Zenon
    <3>2. Prog("kprobe", Step.op, "entry") \in Programs({Step})
        BY <1>1, <3>1, ProgramsAre
    <3> QED
        BY <1>1, <3>2 DEF HasPrograms, TypeInv
  <2>2. Prog("kprobe", Step.op, "entry") \notin Programs(PairTable)
    <3>1. ASSUME NEW r \in PairTable, NEW s \in Range(r.sides), Prog("kprobe", Step.op, "entry") = Prog(r.kind, r.op, s)
          PROVE  FALSE
        <4>1. r.kind = "kprobe" /\ r.op = Step.op
            BY <3>1 DEF Prog
        <4> QED
            BY <1>4, <4>1, PairRow, Zenon DEF PairedProbes
    <3> QED
        BY <3>1, ProgramsAre
  <2> QED
    BY <1>4, <2>1, <2>2 DEF BasePrograms, Prog
<1> QED
    BY <1>2, <1>3, <1>4

\* initialize adds no field to the maps of the object.
LEMMA MapsStep ==
    ASSUME TypeInv, LinkInv, Initialize
    PROVE  DOMAIN maps' = DOMAIN maps /\ maps'.abi \in [UltraOps -> {0, 1, 2}]
<1>0. DOMAIN maps = {"extensions", "notes", "dirs", "cgroups", "scope", "inline", "abi"}
      /\ maps.abi \in [UltraOps -> {0, 1, 2}]
    BY DEF TypeInv, EmptyMaps
<1>1. CASE SyncMap
  <2>1. What \in {"extensions", "notes", "dirs", "cgroups"}
    BY <1>1, Zenon DEF SyncMap
  <2>2. CASE maps' = [maps EXCEPT ![What] = Synced(What), !.scope = ScopeAfter(What)]
    BY <1>0, <2>1, <2>2, Zenon
  <2>3. CASE \E part \in SUBSET Synced(What) : maps' = [maps EXCEPT ![What] = part]
    BY <1>0, <2>1, <2>3
  <2> QED
    BY <1>1, <2>2, <2>3, Zenon DEF SyncMap
<1>2. CASE ConfigureEnforcement
    BY <1>0, <1>2 DEF ConfigureEnforcement
<1>3. CASE maps' = maps
    BY <1>0, <1>3
<1>4. CASE Attached /\ maps' # maps
  <2>1. maps' = [maps EXCEPT !.abi[Step.op] = ABIFor(Step)] /\ NeedsABI /\ rows # {} /\ HasPrograms
    BY <1>4 DEF Attached
  <2>2. maps'.abi = [maps.abi EXCEPT ![Step.op] = ABIFor(Step)] /\ DOMAIN maps' = DOMAIN maps
    BY <1>0, <2>1
  <2> QED
    BY <1>0, <2>2, ABIValues, Zenon
<1> QED
    BY <1>1, <1>2, <1>3, <1>4 DEF Initialize, ValidatePolicyCapabilities, OpenReader, TableDone,
        MissingProgram, AttachSide, AttachFails

\* The runtimes that are left to try.
LEMMA NextModeTypes ==
    ASSUME modes \in Seq(Modes), modes # <<>>, NextMode
    PROVE  /\ phase' \in {"load", "failed"}
           /\ phase' = "load" => modes' \in Seq(Modes) /\ modes' # <<>>
BY DEF NextMode

\* The candidates of EBPFFLS_BPF_MODE.
LEMMA CandidatesAre ==
    ASSUME NEW value
    PROVE  SensorModeCandidates(value) \in Seq(Modes)
<1>1. PICK folded : folded = Fold(value)
    OBVIOUS
<1>2. /\ <<>> \in Seq(Modes) /\ <<LegacyPerf>> \in Seq(Modes) /\ <<Core, LegacyPerf, Ultra>> \in Seq(Modes)
      /\ folded \in {Core, LegacyPerf, Ultra} => <<folded>> \in Seq(Modes)
    BY DEF Modes
<1> QED
    BY <1>1, <1>2, Zenon DEF SensorModeCandidates

\* initialize keeps the types.
LEMMA TypeInitialize ==
    ASSUME TypeInv, LinkInv, Initialize
    PROVE  TypeInv'
<1>0. /\ phase = "initialize" /\ UNCHANGED <<env, modes, progs>> /\ stage \in 1 .. 13
      /\ modes \in Seq(Modes) /\ modes # <<>> /\ rows \subseteq RowsOf(Mode, stage)
      /\ BasePrograms(Mode) \subseteq progs
      /\ Mode = Ultra => progs \subseteq BasePrograms(Ultra)
    BY DEF Initialize, TypeInv
<1>1. /\ DOMAIN maps' = DOMAIN EmptyMaps' /\ maps'.abi \in [UltraOps -> {0, 1, 2}]
    BY MapsStep, Zenon DEF TypeInv, EmptyMaps
<1>2. Mode' = Mode /\ \A n : RowsOf(Mode, n)' = RowsOf(Mode, n)
    BY <1>0, RowsStay
<1>3. SUFFICES /\ phase' \in {"initialize", "cleanup"}
               /\ stage' \in 1 .. 13
               /\ rows' \subseteq RowsOf(Mode, stage)'
               /\ phase' # "initialize" => rows' = {}
               /\ probe' = NoProbe \/ Placed'
    BY <1>0, <1>1, <1>2 DEF TypeInv, NoProbe
<1>4. RowsOf(Mode, stage)' = RowsOf(Mode, stage')
    BY <1>0 DEF RowsOf, Table, Mode
<1>5. CASE Moved
    BY <1>0, <1>4, <1>5 DEF Moved, Done
<1>6. CASE Failed
    BY <1>6 DEF Failed
<1>7. CASE Passed
    BY <1>0, <1>4, <1>7 DEF Passed, RowDone
<1>8. CASE Hooked
    BY <1>0, <1>4, <1>8 DEF Hooked, RowDone
<1>9. CASE Probing
    BY <1>0, <1>4, <1>9 DEF Probing
<1> QED
    BY <1>5, <1>6, <1>7, <1>8, <1>9, Outcome

\* Every step keeps the types.
LEMMA TypeStep ==
    ASSUME TypeInv, LinkInv, [Next]_vars
    PROVE  TypeInv'
<1>1. CASE LoadPolicy
  <2>1. phase = "start" /\ rows = {} /\ probe = NoProbe
    BY <1>1, Zenon DEF LoadPolicy, TypeInv, Placed
  <2>2. phase' \in {"load", "failed"} /\ (phase' = "load" => modes' \in Seq(Modes) /\ modes' # <<>>)
    BY <1>1, CandidatesAre DEF LoadPolicy
  <2> QED
    BY <1>1, <2>1, <2>2, EmptyMapsAre DEF LoadPolicy, TypeInv
<1>2. CASE LoadObjects
  <2>1. phase = "load" /\ rows' = {} /\ stage' = 1 /\ probe' = NoProbe /\ Mode' = Mode
    BY <1>2, Zenon DEF LoadObjects, TypeInv, Placed, Mode, NoProbe
  <2>2. BasePrograms(Mode) \subseteq progs' /\ (Mode = Ultra => progs' \subseteq BasePrograms(Ultra))
    <3>1. PICK optional \in SUBSET {p \in OptionalPrograms(Mode) : p[2] \in Ops} :
            progs' = BasePrograms(Mode) \cup optional
        BY <1>2, Zenon DEF LoadObjects
    <3>2. Mode = Ultra => OptionalPrograms(Mode) = {}
        BY DEF OptionalPrograms, Ultra, Core, LegacyPerf
    <3> QED
        BY <3>1, <3>2
  <2> QED
    BY <1>2, <2>1, <2>2, EmptyMapsAre DEF LoadObjects, TypeInv
<1>3. CASE LoadFails
  <2>1. phase = "load" /\ rows = {} /\ probe = NoProbe
    BY <1>3 DEF LoadFails, TypeInv, Placed
  <2>2. phase' \in {"load", "failed"} /\ (phase' = "load" => modes' \in Seq(Modes) /\ modes' # <<>>)
    BY <1>3, NextModeTypes DEF LoadFails, TypeInv
  <2> QED
    BY <1>3, <2>1, <2>2, EmptyMapsAre DEF LoadFails, TypeInv
<1>4. CASE Initialize
    BY <1>4, TypeInitialize
<1>5. CASE Ready
  <2>1. stage = 13 /\ rows = {} /\ probe = NoProbe
    BY <1>5, StagesAre, RowKinds DEF Ready, TypeInv, Placed
  <2> QED
    BY <1>5, <2>1, EmptyMapsAre DEF Ready, TypeInv
<1>6. CASE Cleanup
  <2>1. phase = "cleanup" /\ rows = {} /\ probe = NoProbe
    BY <1>6 DEF Cleanup, TypeInv, Placed
  <2>2. phase' \in {"load", "failed"} /\ (phase' = "load" => modes' \in Seq(Modes) /\ modes' # <<>>)
    BY <1>6, NextModeTypes DEF Cleanup, TypeInv
  <2> QED
    BY <1>6, <2>1, <2>2, EmptyMapsAre DEF Cleanup, TypeInv
<1>7. CASE CleanupFails
  <2>1. phase = "cleanup" /\ rows = {} /\ probe = NoProbe
    BY <1>7 DEF CleanupFails, TypeInv, Placed
  <2> QED
    BY <1>7, <2>1, EmptyMapsAre DEF CleanupFails, TypeInv
<1>8. CASE Stop
  <2>1. phase = "ready" /\ rows = {} /\ probe = NoProbe
    BY <1>8 DEF Stop, TypeInv, Placed
  <2> QED
    BY <1>8, <2>1, EmptyMapsAre DEF Stop, TypeInv
<1>9. CASE UNCHANGED vars
    BY <1>9, EmptyMapsAre DEF vars, TypeInv, Placed, HasPrograms, Step, Vias,
        KprobeSymbols, Mode, RowsOf, Table
<1> QED
    BY <1>1, <1>2, <1>3, <1>4, <1>5, <1>6, <1>7, <1>8, <1>9 DEF Next, Start

-----------------------------------------------------------------------------
(* The hooks *)

\* A row owns the same hooks as long as the runtime does not change.
LEMMA OwnsStay ==
    ASSUME UNCHANGED <<env, modes>>
    PROVE  \A r, h : Owns(r, h)' <=> Owns(r, h)
BY DEF Owns, Hook, Vias, KprobeSymbols, Mode

\* initialize knows the hooks it has attached.
LEMMA LinkInitialize ==
    ASSUME TypeInv, LinkInv, Initialize
    PROVE  LinkInv'
<1>0. phase = "initialize" /\ UNCHANGED <<env, modes, progs>> /\ links = kept \cup Attempt
    BY DEF Initialize, LinkInv
<1>1. \A h \in kept : \E r \in Behind : Owns(r, h)
    BY <1>0 DEF LinkInv
<1>2. \A r, h : Owns(r, h)' <=> Owns(r, h)
    BY <1>0, OwnsStay
<1>3. ASSUME probe' = NoProbe
      PROVE  Attempt' = {}
    BY <1>3 DEF Attempt, NoProbe
<1>4. CASE Moved
  <2>1. Behind' = Behind
    BY <1>0, <1>4, BehindStage DEF Moved, Done
  <2>2. Attempt = {} /\ Attempt' = {}
    BY <1>3, <1>4, NoAttempt DEF Moved
  <2>3. phase' = "initialize" /\ kept' = kept /\ links' = kept
    BY <1>0, <1>4, <2>2 DEF Moved, Done
  <2> QED
    BY <1>1, <1>2, <2>1, <2>2, <2>3 DEF LinkInv
<1>5. CASE Failed
    BY <1>5 DEF LinkInv, Failed
<1>6. CASE Passed
  <2>1. Behind' = Behind \cup {Step}
    BY <1>0, <1>6, BehindRow DEF Passed, RowDone
  <2>2. phase' = "initialize" /\ kept' = kept /\ links' = kept /\ Attempt' = {}
    BY <1>0, <1>3, <1>6 DEF Passed, RowDone
  <2> QED
    BY <1>1, <1>2, <2>1, <2>2 DEF LinkInv
<1>7. CASE Hooked
  <2>1. Behind' = Behind \cup {Step}
    BY <1>0, <1>7, BehindRow DEF Hooked, RowDone
  <2>2. phase' = "initialize" /\ kept' = kept \cup Attempt /\ links' = kept' /\ Attempt' = {}
    BY <1>0, <1>3, <1>7 DEF Hooked, RowDone
  <2>3. \A h \in Attempt : Owns(Step, h)
    BY AttemptOwned
  <2> QED
    BY <1>1, <1>2, <2>1, <2>2, <2>3 DEF LinkInv
<1>8. CASE Probing
  <2>1. Behind' = Behind
    BY <1>0, <1>8, RowsStay DEF Behind, Probing
  <2>2. phase' = "initialize" /\ kept' = kept /\ links' = kept' \cup Attempt'
    BY <1>0, <1>8 DEF Probing
  <2> QED
    BY <1>1, <1>2, <2>1, <2>2 DEF LinkInv
<1> QED
    BY <1>4, <1>5, <1>6, <1>7, <1>8, Outcome

\* Every step keeps account of the hooks.
LEMMA LinkStep ==
    ASSUME TypeInv, LinkInv, [Next]_vars
    PROVE  LinkInv'
<1>1. CASE LoadPolicy
    BY <1>1 DEF LoadPolicy, LinkInv
<1>2. CASE LoadObjects
  <2>1. phase = "load" /\ phase' = "initialize" /\ probe' = NoProbe
    BY <1>2 DEF LoadObjects, TypeInv, Placed, NoProbe
  <2>2. Attempt' = {}
    BY <2>1 DEF Attempt, NoProbe
  <2> QED
    BY <1>2, <2>1, <2>2 DEF LoadObjects, LinkInv
<1>3. CASE LoadFails
    BY <1>3, NextModeTypes, Zenon DEF LoadFails, LinkInv, TypeInv
<1>4. CASE Initialize
    BY <1>4, LinkInitialize
<1>5. CASE Ready
  <2>1. phase = "initialize" /\ phase' = "ready" /\ probe = NoProbe
    BY <1>5, StagesAre, RowKinds DEF Ready, TypeInv, Placed
  <2>2. links = kept
    BY <2>1, NoAttempt DEF LinkInv
  <2>3. Behind' = Behind /\ \A r, h : Owns(r, h)' <=> Owns(r, h)
    BY <1>5, OwnsStay, RowsStay DEF Ready, Behind
  <2> QED
    BY <1>5, <2>1, <2>2, <2>3 DEF Ready, LinkInv
<1>6. CASE Cleanup
    BY <1>6, NextModeTypes DEF Cleanup, LinkInv, TypeInv
<1>7. CASE CleanupFails
    BY <1>7 DEF CleanupFails, LinkInv
<1>8. CASE Stop
    BY <1>8 DEF Stop, LinkInv
<1>9. CASE UNCHANGED vars
  <2>1. Behind' = Behind /\ Attempt' = Attempt /\ \A r, h : Owns(r, h)' <=> Owns(r, h)
    BY <1>9, OwnsStay, RowsStay DEF vars, Behind, Attempt, Step, Hook, Vias, KprobeSymbols, Mode
  <2> QED
    BY <1>9, <2>1 DEF vars, LinkInv
<1> QED
    BY <1>1, <1>2, <1>3, <1>4, <1>5, <1>6, <1>7, <1>8, <1>9 DEF Next, Start

\* Hooks of the row at hand, in one place of it, agree with those kept.
LEMMA SameViaHooked ==
    ASSUME TypeInv, LinkInv, phase = "initialize", rows # {}, SameVia(kept),
           NEW H, NEW v \in Range(Vias(Step)),
           \A h \in H : h.kind = Step.kind /\ h.op = Step.op /\ h.via = v
    PROVE  SameVia(kept \cup H)
<1>1. ASSUME NEW g \in kept, NEW h \in H, g.kind = h.kind, g.op = h.op
      PROVE  g.via = h.via
  <2>1. PICK r \in Behind : Owns(r, g)
    BY DEF LinkInv
  <2>2. g.kind = r.kind /\ g.op = r.op /\ g.via \in Range(Vias(r))
    BY <2>1 DEF Owns, Hook
  <2>3. r.kind = Step.kind /\ r.op = Step.op /\ h.via = v
    BY <1>1, <2>2, Zenon
  <2>4. r.kind # "kprobe"
    BY <2>3, Fresh DEF Clash
  <2> QED
    BY <2>2, <2>3, <2>4, ViasAre, Zenon
<1> QED
    BY <1>1 DEF SameVia

\* The hooks of a call and kind stay in one place.
LEMMA SameViaStep ==
    ASSUME TypeInv, LinkInv, SameVia(links), [Next]_vars
    PROVE  SameVia(links)'
<1>1. CASE Initialize
  <2>0. phase = "initialize" /\ UNCHANGED <<env, modes>> /\ links = kept \cup Attempt
    BY <1>1 DEF Initialize, LinkInv
  <2>1. SameVia(kept)
    BY <2>0 DEF SameVia
  <2>2. CASE links' \subseteq kept \cup Attempt
    BY <2>0, <2>2 DEF SameVia
  <2>3. CASE Probing
    <3>1. Step' = Step /\ Vias(Step)' = Vias(Step) /\ rows # {} /\ Placed'
          /\ kept' = kept /\ links' = kept \cup Attempt'
        BY <2>0, <2>3 DEF Probing, Step, Vias, KprobeSymbols
    <3>2. Vias(Step)[probe'.n] \in Range(Vias(Step))
        BY <3>1, ViasAre, Zenon DEF Placed
    <3>3. \A h \in Attempt' : h.kind = Step.kind /\ h.op = Step.op /\ h.via = Vias(Step)[probe'.n]
      <4>1. TAKE h \in Attempt'
      <4>2. PICK k \in 1 .. probe'.got : h = Hook(Step, Step.sides[k], Vias(Step)[probe.n])'
        BY Zenon DEF Attempt
      <4>3. h.kind = Step'.kind /\ h.op = Step'.op /\ h.via = Vias(Step)'[probe'.n]
        BY <4>2 DEF Hook
      <4> QED
        BY <3>1, <4>3
    <3>4. SameVia(kept \cup Attempt')
        BY <2>0, <2>1, <3>1, <3>2, <3>3, SameViaHooked, Zenon
    <3> QED
        BY <3>1, <3>4 DEF SameVia
  <2> QED
    BY <1>1, <2>0, <2>2, <2>3, Outcome DEF Moved, Failed, Passed, Hooked
<1>2. CASE links' \subseteq links
    BY <1>2 DEF SameVia
<1> QED
    BY <1>1, <1>2, Zenon DEF Next, Start, LoadPolicy, LoadObjects, LoadFails, Ready, Cleanup, CleanupFails,
        Stop, vars

-----------------------------------------------------------------------------
(* The policy *)

PolicyMaps == {"extensions", "notes", "dirs", "cgroups"}

\* What each step of initialize leaves alone.
LEMMA Effects ==
    ASSUME TypeInv, LinkInv, Initialize
    PROVE  /\ SyncMap \/ (stage >= 5 /\ \A m \in PolicyMaps \cup {"scope"} : maps'[m] = maps[m])
           /\ ConfigureEnforcement \/ maps'.inline = maps.inline
           /\ Hooked \/ (maps'.abi = maps.abi /\ caps' = caps)
           /\ OpenReader \/ reader' = reader
<1>0. /\ DOMAIN maps = {"extensions", "notes", "dirs", "cgroups", "scope", "inline", "abi"}
      /\ phase = "initialize" /\ UNCHANGED <<env, modes, progs>> /\ stage \in 1 .. 12
    BY StagesAre, Zenon DEF TypeInv, EmptyMaps, Initialize
<1>1. CASE SyncMap
  <2>1. What \in PolicyMaps /\ caps' = caps /\ reader' = reader
    BY <1>1, Zenon DEF SyncMap, PolicyMaps
  <2>2. CASE maps' = [maps EXCEPT ![What] = Synced(What), !.scope = ScopeAfter(What)]
    BY <1>0, <1>1, <2>1, <2>2, Zenon DEF PolicyMaps
  <2>3. CASE \E part \in SUBSET Synced(What) : maps' = [maps EXCEPT ![What] = part]
    BY <1>0, <1>1, <2>1, <2>3 DEF PolicyMaps
  <2> QED
    BY <1>1, <2>2, <2>3, Zenon DEF SyncMap
<1>2. ASSUME ~SyncMap, What \notin PolicyMaps
      PROVE  stage >= 5
  <2>1. stage # 1 /\ stage # 2 /\ stage # 3 /\ stage # 4
    BY <1>2, StagesAre DEF What, PolicyMaps
  <2> QED
    BY <1>0, <2>1
<1>3. CASE ConfigureEnforcement
  <2>1. What \notin PolicyMaps /\ caps' = caps /\ reader' = reader /\ ~SyncMap
    BY <1>3, Zenon DEF ConfigureEnforcement, PolicyMaps, SyncMap
  <2>2. \A m \in PolicyMaps \cup {"scope", "abi"} : maps'[m] = maps[m]
    BY <1>0, <1>3 DEF ConfigureEnforcement, PolicyMaps
  <2> QED
    BY <1>2, <1>3, <2>1, <2>2
<1>4. CASE ValidatePolicyCapabilities
  <2>1. What \notin PolicyMaps /\ ~SyncMap
    BY <1>4, Zenon DEF ValidatePolicyCapabilities, PolicyMaps, SyncMap
  <2> QED
    BY <1>2, <1>4, <2>1 DEF ValidatePolicyCapabilities
<1>5. CASE OpenReader
  <2>1. What \notin PolicyMaps /\ ~SyncMap
    BY <1>5, Zenon DEF OpenReader, PolicyMaps, SyncMap
  <2> QED
    BY <1>2, <1>5, <2>1 DEF OpenReader
<1>6. CASE TableDone
  <2>1. What \notin PolicyMaps /\ ~SyncMap
    BY <1>6, Zenon DEF TableDone, PolicyMaps, SyncMap, Tables
  <2> QED
    BY <1>2, <1>6, <2>1 DEF TableDone
<1>7. ASSUME rows # {}
      PROVE  stage >= 5
    BY <1>0, <1>7, StepIn, RowKinds DEF TypeInv
<1>8. CASE MissingProgram \/ AttachSide \/ AttachFails
    BY <1>7, <1>8 DEF MissingProgram, AttachSide, AttachFails
<1>9. CASE Attached
  <2>1. rows # {} /\ reader' = reader
    BY <1>9 DEF Attached
  <2>2. maps' = maps \/ maps' = [maps EXCEPT !.abi[Step.op] = ABIFor(Step)]
    BY <1>9 DEF Attached
  <2>3. \A m \in PolicyMaps \cup {"scope", "inline"} : maps'[m] = maps[m]
    BY <1>0, <2>2 DEF PolicyMaps
  <2>4. Hooked \/ (maps' = maps /\ caps' = caps)
    BY <1>9, <2>1, <1>0, AttachedOutcome DEF Attached, Hooked, Passed, Failed, Fail, GiveUp, RowDone
  <2> QED
    BY <1>7, <2>1, <2>3, <2>4
<1> QED
    BY <1>1, <1>3, <1>4, <1>5, <1>6, <1>8, <1>9, Zenon DEF Initialize

\* No hook is attached before the tables.
LEMMA HooksLate ==
    ASSUME TypeInv, LinkInv, phase = "initialize", links # {}
    PROVE  stage >= 6
<1>1. PICK h \in links : TRUE
    OBVIOUS
<1>2. CASE h \in Attempt
  <2>1. Step \in RowsOf(Mode, stage) /\ stage \in 1 .. 13
    BY <1>2, AttemptOwned, StepIn, Zenon DEF TypeInv
  <2> QED
    BY <2>1, RowKinds
<1>3. CASE h \in kept
  <2>1. PICK r \in Behind : Owns(r, h)
    BY <1>3 DEF LinkInv
  <2>2. PICK n \in 1 .. stage : r \in RowsOf(Mode, n)
    BY DEF Behind
  <2>3. stage \in 1 .. 13 /\ n \in 1 .. 13 /\ n <= stage
    BY <2>2 DEF TypeInv
  <2> QED
    BY <2>2, <2>3, RowKinds
<1> QED
    BY <1>1, <1>2, <1>3 DEF LinkInv

\* The policy maps are filled one after the other.
LEMMA PolicySync ==
    ASSUME TypeInv, LinkInv, PolicyInv, Initialize, SyncMap
    PROVE  PolicyInv'
<1>0. /\ DOMAIN maps = {"extensions", "notes", "dirs", "cgroups", "scope", "inline", "abi"}
      /\ phase = "initialize" /\ stage \in 1 .. 12 /\ UNCHANGED policy
    BY StagesAre, Zenon DEF TypeInv, EmptyMaps, Initialize
<1>1. stage \in 1 .. 4 /\ What \in PolicyMaps
  <2>1. What \in PolicyMaps
    BY Zenon DEF SyncMap, PolicyMaps
  <2>2. /\ stage # 5 /\ stage # 6 /\ stage # 7 /\ stage # 8
        /\ stage # 9 /\ stage # 10 /\ stage # 11 /\ stage # 12
    BY <2>1, StagesAre DEF What, PolicyMaps
  <2> QED
    BY <1>0, <2>1, <2>2
<1>2. links' = {}
  <2>1. links = {}
    BY <1>0, <1>1, HooksLate
  <2> QED
    BY <2>1, Zenon DEF SyncMap
<1>3. \A m : Synced(m)' = Synced(m)
    BY <1>0 DEF Synced
<1>4. CASE maps' = [maps EXCEPT ![What] = Synced(What), !.scope = ScopeAfter(What)] /\ Done
  <2>1. stage' = stage + 1 /\ phase' = "initialize"
    BY <1>0, <1>4, Zenon DEF Done
  <2>6. /\ maps'[What] = Synced(What) /\ maps'.scope = ScopeAfter(What)
        /\ \A m \in PolicyMaps : m # What => maps'[m] = maps[m]
    BY <1>0, <1>1, <1>4, Zenon DEF PolicyMaps
  <2>7. \A m \in PolicyMaps : m # What /\ HasPolicy(m) => maps'[m] = Synced(m)
    BY <2>6 DEF HasPolicy
  <2>2. CASE stage = 1
    <3>1. What = "extensions"
        BY <2>2, StagesAre DEF What
    <3> QED
        BY <1>2, <1>3, <2>1, <2>2, <2>6, <2>7, <3>1 DEF PolicyInv, PolicyBeforeHooks, HasPolicy, PolicyMaps
  <2>3. CASE stage = 2
    <3>1. What = "notes"
        BY <2>3, StagesAre DEF What
    <3>3. HasPolicy("extensions")
        BY <1>0, <2>3 DEF PolicyInv
    <3> QED
        BY <1>2, <1>3, <2>1, <2>3, <2>6, <2>7, <3>1, <3>3 DEF PolicyInv, PolicyBeforeHooks, HasPolicy, PolicyMaps
  <2>4. CASE stage = 3
    <3>1. What = "dirs"
        BY <2>4, StagesAre DEF What
    <3>3. HasPolicy("extensions") /\ HasPolicy("notes")
        BY <1>0, <2>4 DEF PolicyInv
    <3> QED
        BY <1>2, <1>3, <2>1, <2>4, <2>6, <2>7, <3>1, <3>3 DEF PolicyInv, PolicyBeforeHooks, HasPolicy, PolicyMaps
  <2>5. CASE stage = 4
    <3>1. What = "cgroups"
        BY <2>5, StagesAre DEF What
    <3>2. maps'.scope = (maps'.cgroups # {})
        BY <2>6, <3>1 DEF ScopeAfter
    <3>3. HasPolicy("extensions") /\ HasPolicy("notes") /\ HasPolicy("dirs")
        BY <1>0, <2>5 DEF PolicyInv
    <3> QED
        BY <1>2, <1>3, <2>1, <2>5, <2>6, <2>7, <3>1, <3>2, <3>3, Zenon DEF PolicyInv, PolicyBeforeHooks, HasPolicy, PolicyMaps
  <2> QED
    BY <1>1, <2>2, <2>3, <2>4, <2>5
<1>5. CASE phase' = "cleanup"
    BY <1>2, <1>5 DEF PolicyInv, PolicyBeforeHooks
<1> QED
    BY <1>4, <1>5, Zenon DEF SyncMap, Fail

\* Every step keeps the policy in place.
LEMMA PolicyStep ==
    ASSUME TypeInv, LinkInv, PolicyInv, [Next]_vars
    PROVE  PolicyInv'
<1>1. CASE Initialize
  <2>1. CASE SyncMap
    BY <1>1, <2>1, PolicySync
  <2>2. CASE ~SyncMap
    <3>1. phase = "initialize" /\ stage \in 1 .. 13 /\ stage >= 5 /\ UNCHANGED policy
          /\ \A m \in PolicyMaps \cup {"scope"} : maps'[m] = maps[m]
        BY <1>1, <2>2, Effects, Zenon DEF Initialize, TypeInv
    <3>2. HasPolicy("extensions") /\ HasPolicy("notes") /\ HasPolicy("dirs") /\ HasPolicy("cgroups")
          /\ maps.scope = (maps.cgroups # {})
      <4>1. stage > 1 /\ stage > 2 /\ stage > 3 /\ stage > 4
        BY <3>1
      <4> QED
        BY <3>1, <4>1, Zenon DEF PolicyInv
    <3>3. \A m : Synced(m)' = Synced(m)
        BY <3>1 DEF Synced
    <3> QED
        BY <3>1, <3>2, <3>3, Zenon DEF PolicyInv, PolicyBeforeHooks, HasPolicy, PolicyMaps
  <2> QED
    BY <2>1, <2>2
<1>2. CASE links' = {} /\ (phase' = "initialize" => stage' = 1)
    BY <1>2 DEF PolicyInv, PolicyBeforeHooks
<1>3. CASE Ready \/ UNCHANGED vars
  <2>1. UNCHANGED <<maps, policy, links, stage>> /\ (phase' = phase \/ (phase = "initialize" /\ phase' = "ready"))
    BY <1>3 DEF Ready, vars
  <2>2. \A m : Synced(m)' = Synced(m)
    BY <2>1 DEF Synced
  <2> QED
    BY <2>1, <2>2 DEF PolicyInv, PolicyBeforeHooks, HasPolicy
<1>4. CASE CleanupFails
    BY <1>4 DEF CleanupFails, PolicyInv, PolicyBeforeHooks
<1>5. LoadPolicy \/ LoadObjects \/ LoadFails \/ Cleanup \/ Stop =>
        links' = {} /\ (phase' = "initialize" => stage' = 1)
    BY NextModeTypes, Zenon DEF LinkInv, TypeInv, LoadPolicy, LoadObjects, LoadFails, Cleanup, Stop
<1> QED
    BY <1>1, <1>2, <1>3, <1>4, <1>5 DEF Next, Start

-----------------------------------------------------------------------------
(* Collecting *)

\* The hooks of a row that is attached have all its programs.
LEMMA HookedKeys ==
    ASSUME TypeInv, rows # {}, Placed, probe.got = Len(Step.sides)
    PROVE  /\ Programs({Step}) \subseteq Keys(Attempt)
           /\ \A s \in Range(Step.sides) : Hook(Step, s, Vias(Step)[probe.n]) \in Attempt
           /\ Attempt # {}
<1>1. Step \in RowsOf(Mode, stage) /\ stage \in 1 .. 13
    BY StepIn DEF TypeInv
<1>2. ASSUME NEW s \in Range(Step.sides)
      PROVE  Hook(Step, s, Vias(Step)[probe.n]) \in Attempt
  <2>0. DOMAIN Step.sides = 1 .. Len(Step.sides)
    BY <1>1, RowSides
  <2>1. PICK k \in 1 .. Len(Step.sides) : s = Step.sides[k]
    BY <2>0, Zenon DEF Range
  <2> QED
    BY <2>1 DEF Attempt
<1>3. ASSUME NEW p \in Programs({Step})
      PROVE  p \in Keys(Attempt)
  <2>1. PICK s \in Range(Step.sides) : p = Prog(Step.kind, Step.op, s)
    BY <1>3, ProgramsAre
  <2>2. PICK h \in Attempt : h = Hook(Step, s, Vias(Step)[probe.n])
    BY <1>2
  <2>3. h.kind = Step.kind /\ h.op = Step.op /\ h.side = s
    BY <2>2, Zenon DEF Hook
  <2> QED
    BY <2>1, <2>3 DEF Keys
<1>4. 1 \in 1 .. Len(Step.sides)
  <2>1. PICK n \in 1 .. 2 : n = Len(Step.sides)
    BY <1>1, RowSides
  <2>2. 1 \in 1 .. n
    OBVIOUS
  <2> QED
    BY <2>1, <2>2
<1> QED
    BY <1>2, <1>3, <1>4, Zenon DEF Attempt

\* A row is needed as long as the runtime is the same.
LEMMA NeededStay ==
    ASSUME UNCHANGED <<env, modes>>
    PROVE  \A r : Needed(r)' <=> Needed(r)
BY DEF Needed, Mode

\* initialize leaves no needed row out, and arms the kernel last.
LEMMA ReadyInitialize ==
    ASSUME TypeInv, LinkInv, ReadyInv, Initialize
    PROVE  ReadyInv'
<1>0. /\ phase = "initialize" /\ UNCHANGED <<env, modes>> /\ stage \in 1 .. 12
      /\ maps.inline = "observe"
      /\ DOMAIN maps = {"extensions", "notes", "dirs", "cgroups", "scope", "inline", "abi"}
  <2>1. phase = "initialize" /\ UNCHANGED <<env, modes>> /\ stage \in 1 .. 12
    BY StagesAre DEF Initialize
  <2>2. maps.inline = "observe"
    BY <2>1 DEF ReadyInv
  <2> QED
    BY <2>1, <2>2, EmptyMapsAre DEF TypeInv
<1>1. \A r \in Behind : Needed(r) => Programs({r}) \subseteq Keys(kept)
    BY <1>0 DEF ReadyInv
<1>2. \A r : Needed(r)' <=> Needed(r)
    BY <1>0, NeededStay
<1>3. ASSUME phase' = "initialize"
      PROVE  \A r \in Behind' : Needed(r) => Programs({r}) \subseteq Keys(kept')
  <2>1. CASE Moved
    <3>1. Behind' = Behind
        BY <1>0, <2>1, BehindStage DEF Moved, Done
    <3> QED
        BY <1>1, <2>1, <3>1 DEF Moved
  <2>2. CASE Passed
    <3>1. Behind' = Behind \cup {Step}
        BY <1>0, <2>2, BehindRow DEF Passed, RowDone
    <3> QED
        BY <1>1, <2>2, <3>1 DEF Passed
  <2>3. CASE Hooked
    <3>1. Behind' = Behind \cup {Step}
        BY <1>0, <2>3, BehindRow DEF Hooked, RowDone
    <3>2. Programs({Step}) \subseteq Keys(Attempt)
        BY <2>3, HookedKeys, Zenon DEF Hooked
    <3>3. Keys(kept) \subseteq Keys(kept') /\ Keys(Attempt) \subseteq Keys(kept')
        BY <2>3 DEF Hooked, Keys
    <3> QED
        BY <1>1, <3>1, <3>2, <3>3, Zenon
  <2>4. CASE Probing
    <3>1. Behind' = Behind
        BY <1>0, <2>4, RowsStay DEF Behind, Probing
    <3> QED
        BY <1>1, <2>4, <3>1 DEF Probing
  <2> QED
    BY <1>3, <2>1, <2>2, <2>3, <2>4, Outcome, Zenon DEF Failed
<1>4. ASSUME phase' = "initialize", stage' > 11
      PROVE  reader'
  <2>1. CASE OpenReader
    BY <1>4, <2>1 DEF OpenReader, Fail
  <2>2. CASE ~OpenReader
    <3>1. reader' = reader /\ stage # 11
      <4>1. CASE stage = 11
        <5>1. rows = {}
            BY <4>1, RowKinds DEF TypeInv
        <5>2. What = "reader"
            BY <4>1, StagesAre DEF What
        <5> QED
            BY <2>2, <5>1, <5>2, Zenon DEF Initialize, SyncMap, ConfigureEnforcement, TableDone, Tables,
                ValidatePolicyCapabilities, MissingProgram, AttachSide, AttachFails, Attached
      <4> QED
        BY <2>2, <4>1, Effects
    <3>2. stage' \in {stage, stage + 1}
        BY <1>4, Outcome DEF Moved, Failed, Passed, Hooked, Probing, Done, RowDone
    <3>3. stage > 11
        BY <1>0, <1>4, <3>1, <3>2
    <3> QED
        BY <1>0, <3>1, <3>3 DEF ReadyInv
  <2> QED
    BY <2>1, <2>2
<1>5. ASSUME maps'.inline # "observe"
      PROVE  ~env.dryRun /\ phase' = "initialize" /\ stage' = 13
  <2>1. ConfigureEnforcement
    BY <1>0, <1>5, Effects
  <2>2. /\ maps' = [maps EXCEPT !.inline = InlineAction(env.dryRun \/ What = "inline_off")]
        /\ Done /\ What \in {"inline_off", "inline_on"}
    BY <1>0, <1>5, <2>1 DEF ConfigureEnforcement
  <2>3. InlineAction(env.dryRun \/ What = "inline_off") # "observe"
    BY <1>0, <1>5, <2>2
  <2>4. ~env.dryRun /\ What = "inline_on"
    BY <2>2, <2>3 DEF InlineAction
  <2>5. stage = 12
    <3>1. /\ stage # 1 /\ stage # 2 /\ stage # 3 /\ stage # 4 /\ stage # 5 /\ stage # 6 /\ stage # 7
          /\ stage # 8 /\ stage # 9 /\ stage # 10 /\ stage # 11
        BY <2>4, StagesAre DEF What
    <3> QED
        BY <1>0, <3>1
  <2> QED
    BY <1>0, <2>2, <2>4, <2>5 DEF Done
<1>6. phase' \in {"initialize", "cleanup"} /\ env' = env
    BY <1>0, Outcome DEF Moved, Failed, Passed, Hooked, Probing, Done, RowDone
<1> QED
    BY <1>2, <1>3, <1>4, <1>5, <1>6 DEF ReadyInv

\* Every step leaves the kernel armed only when events are collected.
LEMMA ReadyStep ==
    ASSUME TypeInv, LinkInv, ReadyInv, [Next]_vars
    PROVE  ReadyInv'
<1>1. CASE Initialize
    BY <1>1, ReadyInitialize
<1>2. CASE LoadObjects
  <2>1. phase' = "initialize" /\ stage' = 1 /\ maps' = maps /\ phase = "load"
    BY <1>2 DEF LoadObjects
  <2>2. Behind' = {}
    <3>1. RowsOf(Mode, 1)' = RowsOf(Mode, 1)
        BY <1>2, RowsStay DEF LoadObjects
    <3>2. RowsOf(Mode, 1) = {}
        BY RowKinds
    <3> QED
        BY <2>1, <3>1, <3>2 DEF Behind
  <2> QED
    BY <2>1, <2>2 DEF ReadyInv
<1>3. CASE Ready \/ UNCHANGED vars
  <2>1. /\ UNCHANGED <<env, modes, maps, kept, reader, stage, rows>>
        /\ phase' = phase \/ (phase = "initialize" /\ phase' = "ready")
    BY <1>3 DEF Ready, vars
  <2>2. Behind' = Behind /\ \A r : Needed(r)' <=> Needed(r)
    BY <2>1, RowsStay, NeededStay DEF Behind
  <2> QED
    BY <2>1, <2>2 DEF ReadyInv
<1>4. CASE phase' \notin {"initialize", "ready"} /\ maps'.inline = "observe"
    BY <1>4 DEF ReadyInv
<1>5. LoadPolicy \/ LoadFails \/ Cleanup \/ CleanupFails \/ Stop =>
        phase' \notin {"initialize", "ready"} /\ maps'.inline = "observe"
  <2>1. phase \notin {"initialize", "ready"} => maps.inline = "observe"
    BY Zenon DEF ReadyInv
  <2>2. phase \in {"load", "cleanup"} => modes \in Seq(Modes) /\ modes # <<>>
    BY Zenon DEF TypeInv
  <2>3. CASE LoadPolicy
    BY <2>1, <2>3 DEF LoadPolicy
  <2>4. CASE LoadFails
    BY <2>1, <2>2, <2>4, NextModeTypes DEF LoadFails
  <2>5. CASE Cleanup
    BY <2>2, <2>5, NextModeTypes, EmptyMapsAre DEF Cleanup
  <2>6. CASE CleanupFails
    BY <2>1, <2>6 DEF CleanupFails
  <2>7. CASE Stop
    BY <2>7, EmptyMapsAre DEF Stop
  <2> QED
    BY <2>3, <2>4, <2>5, <2>6, <2>7
<1> QED
    BY <1>1, <1>2, <1>3, <1>4, <1>5 DEF Next, Start

-----------------------------------------------------------------------------
(* Capabilities *)

\* The hooks of a row can all deny or none of them can.
LEMMA AttemptDenies ==
    ASSUME TypeInv, NEW g \in Attempt, NEW h \in Attempt
    PROVE  CanDeny(g) <=> CanDeny(h)
<1>1. g.kind = h.kind /\ g.mode = h.mode
    BY AttemptOwned, Zenon
<1> QED
    BY <1>1 DEF CanDeny

\* The capabilities are those of the hooks that are kept.
LEMMA DenyHooked ==
    ASSUME TypeInv, LinkInv, DenyInv, phase = "initialize", Hooked
    PROVE  /\ caps'.deny => \E h \in kept' : CanDeny(h)
           /\ caps'.hooks = {h.op : h \in {k \in kept' : CanDeny(k)}}
           /\ caps'.denyOpenat => \E h \in kept' : CanDeny(h) /\ h.op \in {"file_open", "openat"}
<1>0. /\ caps.deny => \E h \in kept : CanDeny(h)
      /\ caps.hooks = {h.op : h \in {k \in kept : CanDeny(k)}}
      /\ caps.denyOpenat => \E h \in kept : CanDeny(h) /\ h.op \in {"file_open", "openat"}
    BY DEF DenyInv
<1>1. kept' = kept \cup Attempt /\ caps' = RecordDenyHook(Attempt)
    BY DEF Hooked
<1>2. CASE \E h \in Attempt : CanDeny(h)
  <2>1. \A h \in Attempt : CanDeny(h)
    BY <1>2, AttemptDenies
  <2>2. /\ caps'.hooks = caps.hooks \cup {h.op : h \in Attempt}
        /\ caps'.denyOpenat => caps.denyOpenat \/ \E h \in Attempt :
              <<h.kind, h.op>> \in {<<"lsm", "file_open">>, <<"kprobe", "openat">>}
    BY <1>1, <1>2, Zenon DEF RecordDenyHook
  <2>3. caps'.hooks = {h.op : h \in {k \in kept' : CanDeny(k)}}
    BY <1>0, <1>1, <2>1, <2>2, Zenon
  <2>4. ASSUME caps'.denyOpenat
        PROVE  \E h \in kept' : CanDeny(h) /\ h.op \in {"file_open", "openat"}
    <3>1. CASE caps.denyOpenat
        BY <1>0, <1>1, <3>1
    <3>2. CASE \E h \in Attempt : <<h.kind, h.op>> \in {<<"lsm", "file_open">>, <<"kprobe", "openat">>}
        BY <1>1, <2>1, <3>2
    <3> QED
        BY <2>2, <2>4, <3>1, <3>2
  <2> QED
    BY <1>1, <1>2, <2>3, <2>4
<1>3. CASE ~ \E h \in Attempt : CanDeny(h)
  <2>1. caps' = caps /\ {k \in kept' : CanDeny(k)} = {k \in kept : CanDeny(k)}
    BY <1>1, <1>3 DEF RecordDenyHook
  <2> QED
    BY <1>0, <1>1, <2>1, Zenon
<1> QED
    BY <1>2, <1>3, Zenon

\* Every step keeps the capabilities true.
LEMMA DenyStep ==
    ASSUME TypeInv, LinkInv, DenyInv, [Next]_vars
    PROVE  DenyInv'
<1>1. CASE Initialize
  <2>0. phase = "initialize" /\ UNCHANGED <<env, modes, policy>> /\ stage \in 1 .. 12
    BY <1>1, StagesAre DEF Initialize
  <2>1. \A h : CanDeny(h)' = CanDeny(h)
    BY DEF CanDeny
  <2>2. WantsDeny' = WantsDeny
    BY <2>0 DEF WantsDeny
  <2>3. CASE Hooked
    <3>1. stage' = stage /\ stage <= 9
        BY <2>0, <2>3, StepIn, RowKinds DEF Hooked, RowDone, TypeInv
    <3> QED
        BY <2>0, <2>3, <3>1, DenyHooked DEF DenyInv
  <2>4. CASE ~Hooked
    <3>1. caps' = caps
        BY <1>1, <2>4, Effects
    <3>2. kept' = kept
        BY <1>1, <2>4, Outcome DEF Moved, Failed, Passed, Probing
    <3>3. ASSUME phase' = "initialize", stage' > 10, ~env.dryRun, WantsDeny
          PROVE  caps.deny
      <4>1. CASE ValidatePolicyCapabilities
        BY <3>3, <4>1 DEF ValidatePolicyCapabilities, DenyUnavailable, Fail
      <4>2. CASE ~ValidatePolicyCapabilities
        <5>1. stage # 10
          <6>1. ASSUME stage = 10
                PROVE  FALSE
            <7>1. rows = {}
                BY <6>1, RowKinds DEF TypeInv
            <7>2. What = "validate"
                BY <6>1, StagesAre DEF What
            <7> QED
                BY <1>1, <4>2, <7>1, <7>2, Zenon DEF Initialize, SyncMap, ConfigureEnforcement, TableDone,
                    Tables, OpenReader, MissingProgram, AttachSide, AttachFails, Attached
          <6> QED
            BY <6>1
        <5>2. stage' \in {stage, stage + 1}
            BY <1>1, <3>3, Outcome DEF Moved, Failed, Passed, Hooked, Probing, Done, RowDone
        <5>3. stage > 10
            BY <2>0, <3>3, <5>1, <5>2
        <5> QED
            BY <2>0, <3>3, <5>3 DEF DenyInv
      <4> QED
        BY <4>1, <4>2
    <3>4. phase' \in {"initialize", "cleanup"}
        BY <1>1, <2>0, Outcome DEF Moved, Failed, Passed, Hooked, Probing, Done, RowDone
    <3> QED
        BY <2>0, <2>1, <2>2, <3>1, <3>2, <3>3, <3>4, Zenon DEF DenyInv
  <2> QED
    BY <2>3, <2>4
<1>2. CASE LoadObjects
  <2>1. phase' = "initialize" /\ stage' = 1 /\ kept' = {} /\ caps' = NoCaps
    BY <1>2 DEF LoadObjects, TypeInv, LinkInv
  <2> QED
    BY <2>1 DEF DenyInv, NoCaps
<1>3. CASE Ready \/ UNCHANGED vars
  <2>1. /\ UNCHANGED <<env, policy, kept, caps, stage>>
        /\ phase' = phase \/ (phase = "initialize" /\ phase' = "ready")
    BY <1>3 DEF Ready, vars
  <2>2. WantsDeny' = WantsDeny
    BY <2>1 DEF WantsDeny
  <2> QED
    BY <2>1, <2>2, Zenon DEF DenyInv, CanDeny
<1>4. CASE phase' \notin {"initialize", "ready"}
    BY <1>4, Zenon DEF DenyInv
<1>5. LoadPolicy \/ LoadFails \/ Cleanup \/ CleanupFails \/ Stop => phase' \notin {"initialize", "ready"}
    BY NextModeTypes, Zenon DEF TypeInv, LoadPolicy, LoadFails, Cleanup, CleanupFails, Stop
<1> QED
    BY <1>1, <1>2, <1>3, <1>4, <1>5 DEF Next, Start

-----------------------------------------------------------------------------
(* The layout of arguments *)

\* An ABI stays backed while hooks are only added.
LEMMA BackedStays ==
    ASSUME UNCHANGED <<env, modes>>, kept \subseteq kept', NEW op, maps'.abi[op] = maps.abi[op], Backed(op)
    PROVE  Backed(op)'
<1>1. PICK r \in PairTable \cup ProbeTable, via \in Range(KprobeSymbols) :
        /\ r.op = op /\ (op \in PairedProbes => r.sides = EntryExit)
        /\ SyscallABI(via) = maps.abi[op]
        /\ {Hook(r, s, via) : s \in Range(r.sides)} \subseteq kept
    BY Zenon DEF Backed
<1>2. \A s : Hook(r, s, via)' = Hook(r, s, via)
    BY Zenon DEF Hook, Mode
<1>3. {Hook(r, s, via) : s \in Range(r.sides)}' \subseteq kept'
    BY <1>1, <1>2, Zenon
<1>4. via \in Range(KprobeSymbols)'
    BY DEF KprobeSymbols
<1> QED
    BY <1>1, <1>3, <1>4, Zenon DEF Backed

\* A call's ABI is set to that of the place where all its probes are.
LEMMA BackedHooked ==
    ASSUME TypeInv, phase = "initialize", UNCHANGED <<env, modes>>, Hooked, NeedsABI
    PROVE  /\ Step.op \in UltraOps
           /\ maps'.abi = [maps.abi EXCEPT ![Step.op] = ABIFor(Step)]
           /\ \A op : op = Step.op => Backed(op)'
<1>1. Step.op \in UltraOps /\ Step \in PairTable \cup ProbeTable
    BY UltraRow DEF Hooked
<1>2. Step \in RowsOf(Mode, stage) /\ stage \in 1 .. 13 /\ Mode = Ultra /\ Step.kind = "kprobe"
    BY StepIn DEF TypeInv, Hooked, NeedsABI
<1>3. Step.op \in PairedProbes => Step.sides = EntryExit
  <2>1. Step \in PairTable \/ Step.op \notin PairedProbes
    <3>1. stage # 7
        BY <1>2, RowKinds, LSMRow, Zenon
    <3> QED
        BY <1>2, <3>1, RowKinds
  <2> QED
    BY <1>2, <2>1, PairRow, Zenon
<1>4. DOMAIN maps = {"extensions", "notes", "dirs", "cgroups", "scope", "inline", "abi"}
      /\ maps.abi \in [UltraOps -> {0, 1, 2}]
    BY Zenon DEF TypeInv, EmptyMaps
<1>5. maps'.abi = [maps.abi EXCEPT ![Step.op] = ABIFor(Step)]
    BY <1>4 DEF Hooked
<1>6. PICK r, via : r = Step /\ via = Vias(Step)[probe.n]
    OBVIOUS
<1>7. via \in Range(KprobeSymbols)
  <2>1. Vias(Step) = KprobeSymbols
    BY <1>2, ViasAre
  <2>2. via \in Range(Vias(Step))
    BY <1>6, ViasAre, Zenon DEF Hooked, Placed
  <2> QED
    BY <2>1, <2>2
<1>8. \A s \in Range(r.sides) : Hook(r, s, via) \in kept'
    BY <1>6, HookedKeys DEF Hooked
<1>9. \A s : Hook(r, s, via)' = Hook(r, s, via)
    BY Zenon DEF Hook, Mode
<1>10. {Hook(r, s, via) : s \in Range(r.sides)}' \subseteq kept'
    BY <1>8, <1>9
<1>11. via \in Range(KprobeSymbols)'
    BY <1>7 DEF KprobeSymbols
<1>12. SyscallABI(via) = maps'.abi[r.op]
    BY <1>1, <1>4, <1>5, <1>6 DEF ABIFor
<1>13. r \in PairTable \cup ProbeTable /\ (r.op \in PairedProbes => r.sides = EntryExit)
    BY <1>1, <1>3, <1>6
<1>14. Backed(r.op)'
    BY <1>10, <1>11, <1>12, <1>13, Zenon DEF Backed
<1> QED
    BY <1>1, <1>5, <1>6, <1>14

\* Every step keeps the ABIs backed.
LEMMA ABIStep ==
    ASSUME TypeInv, LinkInv, ABIInv, [Next]_vars
    PROVE  ABIInv'
<1>1. CASE Initialize
  <2>0. phase = "initialize" /\ UNCHANGED <<env, modes>> /\ Mode' = Mode
        /\ maps.abi \in [UltraOps -> {0, 1, 2}]
    BY <1>1, Zenon DEF Initialize, Mode, TypeInv
  <2>1. \A op \in UltraOps : maps.abi[op] # 0 => Backed(op)
    BY <2>0 DEF ABIInv
  <2>2. Mode = Ultra => \A h \in kept : h.kind = "kprobe" => h.op \in UltraOps /\ maps.abi[h.op] # 0
    BY <2>0 DEF ABIInv
  <2>3. CASE Hooked /\ NeedsABI
    <3>1. /\ Step.op \in UltraOps /\ maps'.abi = [maps.abi EXCEPT ![Step.op] = ABIFor(Step)]
          /\ \A op : op = Step.op => Backed(op)'
          /\ kept' = kept \cup Attempt
        BY <2>0, <2>3, BackedHooked DEF Hooked
    <3>2. ASSUME NEW op \in UltraOps, maps'.abi[op] # 0
          PROVE  Backed(op)'
      <4>1. CASE op = Step.op
        BY <3>1, <4>1
      <4>2. CASE op # Step.op
        <5>1. maps'.abi[op] = maps.abi[op]
            BY <2>0, <3>1, <4>2, Zenon
        <5> QED
            BY <2>0, <2>1, <3>1, <3>2, <5>1, BackedStays, Zenon
      <4> QED
        BY <4>1, <4>2
    <3>3. ASSUME NEW h \in kept', h.kind = "kprobe"
          PROVE  h.op \in UltraOps /\ maps'.abi[h.op] # 0
      <4>1. Mode = Ultra
        BY <2>3 DEF NeedsABI
      <4>2. CASE h \in Attempt
        <5>1. h.op = Step.op
            BY <4>2, AttemptOwned
        <5> QED
            BY <2>0, <3>1, <5>1, ABIValues
      <4>3. CASE h \in kept
        <5>1. h.op \in UltraOps /\ maps.abi[h.op] # 0
            BY <2>2, <3>3, <4>1, <4>3
        <5>2. maps'.abi[h.op] = maps.abi[h.op] \/ maps'.abi[h.op] = ABIFor(Step)
            BY <2>0, <3>1, <5>1
        <5> QED
            BY <5>1, <5>2, ABIValues
      <4> QED
        BY <3>1, <4>2, <4>3
    <3> QED
        BY <3>2, <3>3 DEF ABIInv
  <2>4. CASE ~(Hooked /\ NeedsABI)
    <3>1. maps'.abi = maps.abi
        BY <1>1, <2>4, Effects DEF Hooked
    <3>2. kept \subseteq kept'
        BY <1>1, Outcome DEF Moved, Failed, Passed, Hooked, Probing
    <3>3. \A op \in UltraOps : maps'.abi[op] # 0 => Backed(op)'
        BY <2>0, <2>1, <3>1, <3>2, BackedStays, Zenon
    <3>4. ASSUME NEW h \in kept', h.kind = "kprobe", Mode = Ultra
          PROVE  h \in kept
      <4>1. CASE Hooked
        <5>1. h \in kept \cup Attempt /\ ~NeedsABI
            BY <2>4, <4>1 DEF Hooked
        <5> QED
            BY <3>4, <5>1, AttemptOwned DEF NeedsABI
      <4>2. CASE ~Hooked
        BY <1>1, <4>2, Outcome DEF Moved, Failed, Passed, Probing
      <4> QED
        BY <4>1, <4>2
    <3> QED
        BY <2>0, <2>2, <3>1, <3>3, <3>4, Zenon DEF ABIInv
  <2> QED
    BY <2>3, <2>4
<1>2. CASE LoadObjects
  <2>1. kept' = {} /\ maps' = EmptyMaps
    BY <1>2, Zenon DEF LoadObjects, TypeInv, LinkInv
  <2> QED
    BY <2>1, EmptyMapsAre DEF ABIInv
<1>3. CASE Ready \/ UNCHANGED vars
  <2>1. /\ UNCHANGED <<env, modes, kept, maps>> /\ Mode' = Mode
        /\ phase' = phase \/ (phase = "initialize" /\ phase' = "ready")
    BY <1>3 DEF Ready, vars, Mode
  <2>2. \A op : Backed(op) => Backed(op)'
    BY <2>1, BackedStays
  <2> QED
    BY <2>1, <2>2, Zenon DEF ABIInv
<1>4. CASE phase' \notin {"initialize", "cleanup", "ready"}
    BY <1>4, Zenon DEF ABIInv
<1>5. LoadPolicy \/ LoadFails \/ Cleanup \/ CleanupFails \/ Stop =>
        phase' \notin {"initialize", "cleanup", "ready"}
    BY NextModeTypes, Zenon DEF TypeInv, LoadPolicy, LoadFails, Cleanup, CleanupFails, Stop
<1> QED
    BY <1>1, <1>2, <1>3, <1>4, <1>5 DEF Next, Start

-----------------------------------------------------------------------------
(* The theorems *)

\* At the end of initialize every hook that events depend on is kept.
LEMMA Complete ==
    ASSUME TypeInv, ReadyInv, phase \in {"initialize", "ready"}, stage = 13
    PROVE  RequiredHooks(Mode) \subseteq Keys(kept)
<1>1. \A n \in 1 .. 13 : \A r \in RowsOf(Mode, n) : r \in Behind
  <2>1. rows = {}
    BY RowKinds DEF TypeInv
  <2> QED
    BY <2>1 DEF Behind
<1>2. \A r \in Behind : Needed(r) => Programs({r}) \subseteq Keys(kept)
    BY DEF ReadyInv
<1>3. ASSUME NEW r \in RequiredRows(Mode)
      PROVE  Programs({r}) \subseteq Keys(kept)
  <2>0. /\ r \in IF Mode = Ultra THEN PairTable \cup ProbeTable ELSE TracepointTable
        /\ r.op \in Ops /\ ~r.optional
        /\ Mode = Ultra => Programs({r}) \subseteq BasePrograms(Ultra)
        /\ Mode # Ultra => ~OptionalSyscallTracepoint(r.op, env.arch)
    BY <1>3 DEF RequiredRows
  <2>1. CASE Mode # Ultra
    <3>1. r \in RowsOf(Mode, 6) /\ r.kind = "tracepoint"
        BY <2>0, <2>1, RowsAhead, TracepointRow, Zenon
    <3>2. Needed(r)
        BY <2>0, <2>1, <3>1 DEF Needed
    <3> QED
        BY <1>1, <1>2, <3>1, <3>2
  <2>2. CASE Mode = Ultra /\ (r \in PairTable \/ r.op \notin PairedProbes)
    <3>1. r \in RowsOf(Mode, 8) \/ r \in RowsOf(Mode, 9)
        BY <2>0, <2>2, RowsAhead
    <3>2. Needed(r)
        BY <2>0, <2>2 DEF Needed
    <3> QED
        BY <1>1, <1>2, <3>1, <3>2
  <2>3. CASE Mode = Ultra /\ r \in ProbeTable /\ r.op \in PairedProbes
    <3>1. r.op \in PairedProbes \ {"open"} /\ r.kind = "kprobe" /\ r.sides = Entry
        BY <2>0, <2>3, ProbeRow, Zenon DEF OptionalProbes, RequiredProbes
    <3>2. PICK q : q = [kind |-> "kprobe", op |-> r.op, sides |-> EntryExit, optional |-> FALSE]
        BY Zenon
    <3>7. q \in PairTable
        BY <3>1, <3>2, Zenon DEF PairTable, Rows
    <3>3. q \in RowsOf(Mode, 8)
        BY <2>0, <2>3, <3>2, <3>7, RowsAhead
    <3>4. Programs({q}) \subseteq BasePrograms(Ultra)
        BY <3>7, ProgramsAre DEF BasePrograms
    <3>5. Needed(q)
        BY <2>3, <3>2, <3>4 DEF Needed
    <3>6. Programs({r}) \subseteq Programs({q})
        BY <3>1, <3>2, SidesAre, ProgramsAre
    <3> QED
        <4>1. q \in Behind
            BY <1>1, <3>3
        <4>2. Programs({q}) \subseteq Keys(kept)
            BY <1>2, <3>5, <4>1
        <4> QED
            BY <3>6, <4>2
  <2> QED
    BY <2>0, <2>1, <2>2, <2>3
<1>4. ASSUME NEW p \in RequiredHooks(Mode)
      PROVE  p \in Keys(kept)
  <2>1. PICK r \in RequiredRows(Mode) : \E s \in Range(r.sides) : p = Prog(r.kind, r.op, s)
    BY <1>4, ProgramsAre DEF RequiredHooks
  <2>2. p \in Programs({r})
    BY <2>1, ProgramsAre
  <2> QED
    BY <1>3, <2>2
<1> QED
    BY <1>4

\* The invariant holds when the agent is started.
LEMMA InitIInv ==
    ASSUME Init
    PROVE  IInv
<1>1. TypeInv
  <2>1. /\ phase = "start" /\ stage = 1 /\ rows = {} /\ probe = NoProbe
        /\ maps = EmptyMaps /\ caps = NoCaps
    BY DEF Init
  <2> QED
    BY <2>1, EmptyMapsAre DEF TypeInv
<1> QED
    BY <1>1, Zenon DEF Init, IInv, LinkInv, SameVia, PolicyInv, PolicyBeforeHooks, ReadyInv, DenyInv, ABIInv, EmptyMaps

\* The inductive invariant: whatever fails during start-up, the hooks are kept
\* account of, the policy precedes them and the capabilities are theirs.
THEOREM Invariance == Spec => []IInv
<1>1. Init => IInv
    BY InitIInv
<1>2. IInv /\ [Next]_vars => IInv'
    BY TypeStep, LinkStep, SameViaStep, PolicyStep, ReadyStep, DenyStep, ABIStep DEF IInv
<1> QED
    BY <1>1, <1>2, PTL DEF Spec

\* A runtime that failed, and an agent that stopped, leave no hook, object or
\* reader behind, and the sensor handed out knows all its hooks.
THEOREM NothingStaysOpen == Spec => []NothingLeftOpen
<1>1. IInv => NothingLeftOpen
  <2>1. ASSUME IInv, phase = "ready", NEW h \in links
        PROVE  h.mode = Mode
    <3>1. PICK r \in Behind : Owns(r, h)
        BY <2>1 DEF IInv, LinkInv
    <3> QED
        BY <3>1 DEF Owns, Hook
  <2> QED
    BY <2>1 DEF IInv, LinkInv, NothingLeftOpen
<1> QED
    BY <1>1, Invariance, PTL

\* The kernel is armed, and READY sent, only when every needed hook is attached
\* and the reader is open.
THEOREM ArmedWhenCollecting == Spec => []InlineOnlyWhenReady
<1>1. ASSUME IInv
      PROVE  InlineOnlyWhenReady
  <2>1. ASSUME phase \in {"initialize", "ready"}, stage = 13
        PROVE  Collecting
    <3>1. kept \subseteq links
        BY <1>1, <2>1 DEF IInv, LinkInv
    <3>2. RequiredHooks(Mode) \subseteq Keys(kept) /\ reader
        BY <1>1, <2>1, Complete DEF IInv, ReadyInv
    <3> QED
        BY <3>1, <3>2 DEF Collecting, Keys
  <2>2. phase = "ready" => stage = 13
    BY <1>1 DEF IInv, TypeInv
  <2>3. maps.inline # "observe" =>
            ~env.dryRun /\ (phase = "ready" \/ (phase = "initialize" /\ stage = 13))
    BY <1>1 DEF IInv, ReadyInv
  <2> QED
    BY <2>1, <2>2, <2>3 DEF InlineOnlyWhenReady
<1> QED
    BY <1>1, Invariance, PTL

\* No hook is attached before the object has the whole policy.
THEOREM PolicyFirst == Spec => []PolicyBeforeHooks
<1>1. IInv => PolicyBeforeHooks
    BY DEF IInv, PolicyInv
<1> QED
    BY <1>1, Invariance, PTL

\* A live policy that denies has a hook that can, and the capabilities are true.
THEOREM DenialIsBacked == Spec => []DenyIsBacked
<1>1. ASSUME IInv
      PROVE  DenyIsBacked
  <2>1. phase \in {"initialize", "ready"} => kept \subseteq links
    BY <1>1 DEF IInv, LinkInv
  <2>2. phase = "ready" \/ maps.inline # "observe" => phase \in {"initialize", "ready"} /\ stage = 13
    BY <1>1, Zenon DEF IInv, TypeInv, ReadyInv
  <2>3. (phase = "ready" \/ maps.inline # "observe") /\ ~env.dryRun /\ WantsDeny => \E h \in kept : CanDeny(h)
    BY <1>1, <2>2 DEF IInv, DenyInv
  <2> QED
    BY <1>1, <2>1, <2>2, <2>3, Zenon DEF IInv, DenyInv, DenyIsBacked
<1> QED
    BY <1>1, Invariance, PTL

\* The probes of a call share one symbol, whose layout the object was told.
THEOREM ProbesShareSymbol == Spec => []ProbesAgree
<1>1. ASSUME IInv
      PROVE  ProbesAgree
  <2>1. \A g, h \in links : g.kind = h.kind /\ g.op = h.op => g.via = h.via
    BY <1>1 DEF IInv, SameVia
  <2>2. phase \in {"initialize", "cleanup", "ready"} => kept \subseteq links
    BY <1>1 DEF IInv, LinkInv
  <2>3. ASSUME NEW op \in UltraOps, maps.abi[op] # 0, phase # "failed"
        PROVE  phase \in {"initialize", "cleanup", "ready"} /\ Backed(op)
    <3>1. phase \notin {"start", "load", "stopped"}
        BY <1>1, <2>3, EmptyMapsAre DEF IInv, TypeInv
    <3> QED
        BY <1>1, <2>3, <3>1, Zenon DEF IInv, TypeInv, ABIInv
  <2>4. ASSUME NEW op \in UltraOps, maps.abi[op] # 0, phase # "failed"
        PROVE  \E r \in PairTable \cup ProbeTable, via \in Range(KprobeSymbols) :
                 /\ r.op = op /\ (op \in PairedProbes => r.sides = EntryExit)
                 /\ SyscallABI(via) = maps.abi[op]
                 /\ {Hook(r, s, via) : s \in Range(r.sides)} \subseteq links
    <3>1. kept \subseteq links
        BY <2>2, <2>3, <2>4, Zenon
    <3>2. PICK r \in PairTable \cup ProbeTable, via \in Range(KprobeSymbols) :
                 /\ r.op = op /\ (op \in PairedProbes => r.sides = EntryExit)
                 /\ SyscallABI(via) = maps.abi[op]
                 /\ {Hook(r, s, via) : s \in Range(r.sides)} \subseteq kept
        BY <2>3, <2>4, Zenon DEF Backed
    <3>3. {Hook(r, s, via) : s \in Range(r.sides)} \subseteq links
        BY <3>1, <3>2, Zenon
    <3> QED
        BY <3>2, <3>3, Zenon
  <2>5. phase = "ready" /\ Mode = Ultra => \A h \in links : h.kind = "kprobe" => maps.abi[h.op] # 0
    BY <1>1, Zenon DEF IInv, LinkInv, ABIInv
  <2> QED
    BY <2>1, <2>4, <2>5, Zenon DEF ProbesAgree
<1> QED
    BY <1>1, Invariance, PTL
===============================================================================
