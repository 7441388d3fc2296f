-------------------------- MODULE ProcessViewTrust --------------------------
(***************************************************************************)
(* TrustNotStale and WritesAccounted for any number of threads and system  *)
(* calls and any size of the pending maps and of the ring buffer.  For the *)
(* count of a write at its entry the thread must have no entry left over,  *)
(* which is what PendingMatchesCall says of a thread outside of calls.     *)
(*                                                                         *)
(* For the trust, two things can make the agent's cached executable        *)
(* stale: an exec whose events wait in the ring buffer behind the event    *)
(* judged, and an exec that was announced and has not succeeded yet.  The  *)
(* invariant orders the numbers of the execs along threads, buffer and     *)
(* cache: while an announced exec is under way the cache is marked, and a  *)
(* cache without a mark is as young as every event that waits.             *)
(***************************************************************************)
EXTENDS ProcessViewProofs, FiniteSetTheorems

-----------------------------------------------------------------------------
(* The executable the agent knows *)

InfoSet == [exe : Int, refresh : BOOLEAN, known : BOOLEAN]

Announces(e) == e.type = "exec" /\ e.phase = "attempt"
Confirms(e) == e.type = "exec" /\ e.phase = "success"

\* procInfo answers from the cache.
Usable(cached) == cached.known /\ cached.exe # NoExe /\ ~cached.refresh

\* An exec that may still succeed is younger than all that did.
NumbersInv ==
    /\ exe <= calls /\ \A n \in noticed : n <= calls
    /\ \A t \in Threads : Execing(t) => exe < thread[t].id /\ thread[t].id <= calls

\* An event is of an executable up to the present one; an exec that may still
\* succeed was not announced before one that did.
Placed(i) ==
    /\ ring[i].exe <= exe
    /\ ring[i].type = "exec" => ring[i].phase # "failure" /\ ring[i].new <= calls
    /\ Confirms(ring[i]) => ring[i].new = ring[i].exe
    /\ Announces(ring[i]) /\ (\E j \in i + 1 .. Len(ring) : Confirms(ring[j])) =>
         \A t \in Threads : Execing(t) => thread[t].id # ring[i].new

RingInv == \A i \in 1 .. Len(ring) : Placed(i)

\* Once an exec was noticed, the cache is not used until it is over; and a cache
\* that is used is as young as the executable of every event that was noticed.
CacheInv ==
    /\ info \in InfoSet /\ noticed \subseteq Int
    /\ ~info.refresh \/ (\E j \in 1 .. Len(ring) : Confirms(ring[j])) =>
         \A t \in Threads : Execing(t) => thread[t].id \notin noticed
    /\ Usable(info) =>
         /\ exe \in noticed => exe <= info.exe
         /\ \A i \in 1 .. Len(ring) : ring[i].exe \in noticed => ring[i].exe <= info.exe

TrustInv == NumbersInv /\ RingInv /\ CacheInv

\* At the start nothing is cached, announced or waiting.
LEMMA TrustInit == ViewInit => TrustInv
<1> SUFFICES ASSUME ViewInit PROVE TrustInv
    OBVIOUS
<1>1. ring = <<>> /\ exe = 0 /\ calls = 0 /\ noticed = {0} /\ info = NoInfo
    BY DEF ViewInit, Init
<1>2. \A t \in Threads : ~Execing(t)
    BY Values DEF ViewInit, Init, Execing
<1>3. info \in InfoSet /\ ~info.known
    BY <1>1 DEF NoInfo, InfoSet, NoExe
<1> QED
    BY <1>1, <1>2, <1>3 DEF TrustInv, NumbersInv, RingInv, CacheInv, Usable

\* What the three kinds of steps have in common: numbers grow, an exec under way
\* is an old one or has a new number, and the event that may be added is of the
\* executable after the step.
Advance ==
    /\ exe <= exe' /\ exe' \in Int /\ calls' \in Nat /\ calls <= calls'
    /\ \A u \in Threads : Execing(u)' =>
         \/ Execing(u) /\ thread'[u].id = thread[u].id
         \/ thread'[u].id > calls
    /\ \/ ring' = ring
       \/ \E e \in EventSet :
            /\ ring' = Append(ring, e) /\ e.exe = exe'
            /\ e.type = "exec" => e.phase # "failure" /\ e.new <= calls'
            /\ Confirms(e) => e.new = e.exe /\ \A u \in Threads : ~Execing(u)'

\* The events keep their order and stay valid.
LEMMA RingAdvances ==
    ASSUME IInv, EventTypes, RingInv, Advance
    PROVE  RingInv'
<1>n. PICK n \in Nat : n = Len(ring)
    BY DEF EventTypes
<1>0. /\ calls \in Nat /\ exe \in Int /\ \A i \in 1 .. n : ring[i] \in EventSet
      /\ exe <= exe' /\ exe' \in Int /\ calls' \in Nat /\ calls <= calls'
      /\ \A u \in Threads : thread[u].id \in Int
    BY <1>n DEF IInv, TypeInv, States, EventTypes, Advance
<1>1. ASSUME NEW i \in 1 .. n, ring'[i] = ring[i],
             \/ \A j \in i + 1 .. Len(ring') : Confirms(ring'[j]) =>
                    \E k \in i + 1 .. n : Confirms(ring[k])
             \/ \A u \in Threads : ~Execing(u)'
      PROVE  Placed(i)'
    <2>1. Placed(i) /\ ring[i].exe \in Int /\ ring[i].new \in Int
        BY <1>n, <1>0 DEF RingInv, EventSet
    <2>2. ring'[i].exe <= exe'
        BY <1>0, <1>1, <2>1 DEF Placed
    <2>3. ring'[i].type = "exec" => ring'[i].phase # "failure" /\ ring'[i].new <= calls'
        BY <1>0, <1>1, <2>1 DEF Placed
    <2>4. Confirms(ring'[i]) => ring'[i].new = ring'[i].exe
        BY <1>1, <2>1 DEF Placed
    <2>5. ASSUME Announces(ring'[i]), NEW j \in i + 1 .. Len(ring'), Confirms(ring'[j]),
                 NEW t \in Threads, Execing(t)'
          PROVE  thread'[t].id # ring'[i].new
        <3>1. \E k \in i + 1 .. n : Confirms(ring[k])
            BY <1>1, <2>5
        <3>2. ring[i].new <= calls /\ \A u \in Threads : Execing(u) => thread[u].id # ring[i].new
            BY <1>n, <1>1, <2>1, <2>5, <3>1 DEF Placed, Announces
        <3>3. \/ Execing(t) /\ thread'[t].id = thread[t].id
              \/ thread'[t].id > calls
            BY <2>5 DEF Advance
        <3> QED
            BY <1>0, <1>1, <2>1, <3>2, <3>3
    <2> QED
        BY <2>2, <2>3, <2>4, <2>5 DEF Placed
<1>2. CASE ring' = ring
    BY <1>n, <1>1, <1>2 DEF RingInv
<1>3. ASSUME NEW e \in EventSet, ring' = Append(ring, e), e.exe = exe',
             e.type = "exec" => e.phase # "failure" /\ e.new <= calls',
             Confirms(e) => e.new = e.exe /\ \A u \in Threads : ~Execing(u)'
      PROVE  RingInv'
    <2>1. /\ Len(ring') = n + 1 /\ ring'[n + 1] = e /\ \A i \in 1 .. n : ring'[i] = ring[i]
        BY <1>n, <1>3 DEF EventTypes
    <2>2. ASSUME NEW i \in 1 .. n PROVE Placed(i)'
        <3>1. CASE Confirms(e)
            BY <1>1, <1>3, <2>1, <3>1
        <3>2. CASE ~Confirms(e)
            <4>1. \A j \in i + 1 .. n + 1 : Confirms(ring'[j]) => j \in i + 1 .. n /\ Confirms(ring[j])
                BY <1>0, <2>1, <3>2
            <4> QED
                BY <1>1, <2>1, <4>1
        <3> QED
            BY <3>1, <3>2
    <2>3. Placed(n + 1)'
        <3>1. (n + 1) + 1 .. Len(ring') = {}
            BY <1>0, <2>1
        <3> QED
            BY <1>0, <1>3, <2>1, <3>1 DEF Placed
    <2>4. \A i \in 1 .. n + 1 : i \in 1 .. n \/ i = n + 1
        BY <1>0
    <2> QED
        BY <2>1, <2>2, <2>3, <2>4 DEF RingInv
<1> QED
    BY <1>2, <1>3 DEF Advance

\* The cache stays good when the executable of the process does not change.
LEMMA CacheAdvances ==
    ASSUME IInv, EventTypes, NumbersInv, CacheInv, Advance, exe' = exe, UNCHANGED <<info, noticed>>,
           \A i \in 1 .. Len(ring') : Confirms(ring'[i]) => \E j \in 1 .. Len(ring) : Confirms(ring[j])
    PROVE  CacheInv'
<1>1. ASSUME ~info.refresh \/ (\E j \in 1 .. Len(ring') : Confirms(ring'[j])),
             NEW t \in Threads, Execing(t)'
      PROVE  thread'[t].id \notin noticed
    <2>1. Execing(t) => thread[t].id \notin noticed
        BY <1>1 DEF CacheInv
    <2>2. \A k \in noticed : k <= calls /\ k \in Int
        BY DEF NumbersInv, CacheInv
    <2>3. calls \in Nat
        BY DEF IInv, TypeInv
    <2>4. \/ Execing(t) /\ thread'[t].id = thread[t].id
          \/ thread'[t].id > calls
        BY <1>1 DEF Advance
    <2> QED
        BY <2>1, <2>2, <2>3, <2>4
<1>2. ASSUME Usable(info), NEW i \in 1 .. Len(ring'), ring'[i].exe \in noticed
      PROVE  ring'[i].exe <= info.exe
    <2>1. \/ i \in 1 .. Len(ring) /\ ring'[i] = ring[i]
          \/ ring'[i].exe = exe
        BY DEF Advance, EventTypes
    <2> QED
        BY <1>2, <2>1 DEF CacheInv
<1> QED
    BY <1>1, <1>2 DEF CacheInv

\* A step of the hooks that is not about an exec.
LEMMA TrustPlain ==
    ASSUME IInv, EventTypes, TrustInv, PlainStep, UNCHANGED <<info, noticed>>
    PROVE  TrustInv'
<1>0. calls \in Nat /\ calls' \in Nat /\ calls <= calls' /\ exe' = exe /\ exe \in Int
    BY DEF IInv, TypeInv, PlainStep, EventTypes
<1>1. Advance
    <2>1. \/ ring' = ring
          \/ \E e \in EventSet : ring' = Append(ring, e) /\ e.exe = exe' /\ e.type # "exec"
        BY <1>0 DEF PlainStep
    <2> QED
        BY <1>0, <2>1 DEF PlainStep, Advance, Confirms
<1>2. NumbersInv'
    <2>1. \A t \in Threads : thread[t].id \in Int
        BY DEF IInv, TypeInv, States
    <2> QED
        BY <1>0, <2>1 DEF PlainStep, TrustInv, NumbersInv, CacheInv
<1>3. \A i \in 1 .. Len(ring') : Confirms(ring'[i]) => \E j \in 1 .. Len(ring) : Confirms(ring[j])
    BY DEF PlainStep, EventTypes, Confirms
<1> QED
    BY <1>0, <1>1, <1>2, <1>3, RingAdvances, CacheAdvances DEF TrustInv

\* A thread enters an exec.
LEMMA TrustExecBegins ==
    ASSUME IInv, EventTypes, TrustInv, NEW t \in Threads, ExecBegins(t), UNCHANGED <<info, noticed>>
    PROVE  TrustInv'
<1>0. calls \in Nat /\ calls' = calls + 1 /\ exe' = exe /\ exe \in Int
    BY DEF IInv, TypeInv, ExecBegins, EventTypes
<1>1. \A u \in Threads : Execing(u)' => \/ Execing(u) /\ thread'[u].id = thread[u].id
                                        \/ thread'[u].id = calls + 1
    BY DEF ExecBegins, Execing
<1>2. Advance
    <2>1. \/ ring' = ring
          \/ \E e \in EventSet : /\ ring' = Append(ring, e) /\ e.exe = exe'
                                 /\ e.phase = "attempt" /\ e.new = calls'
        BY <1>0 DEF ExecBegins
    <2>2. \A u \in Threads : Execing(u)' => \/ Execing(u) /\ thread'[u].id = thread[u].id
                                            \/ thread'[u].id > calls
        BY <1>0, <1>1
    <2>3. ASSUME NEW e \in EventSet, e.phase = "attempt", e.new = calls'
          PROVE  /\ e.type = "exec" => e.phase # "failure" /\ e.new <= calls'
                 /\ Confirms(e) => e.new = e.exe /\ \A u \in Threads : ~Execing(u)'
        BY <1>0, <2>3 DEF Confirms
    <2> QED
        BY <1>0, <2>1, <2>2, <2>3 DEF Advance
<1>3. NumbersInv'
    <2>1. \A u \in Threads : thread[u].id \in Int
        BY Zenon DEF IInv, TypeInv, States
    <2> QED
        BY <1>0, <1>1, <2>1 DEF TrustInv, NumbersInv, CacheInv
<1>4. \A i \in 1 .. Len(ring') : Confirms(ring'[i]) => \E j \in 1 .. Len(ring) : Confirms(ring[j])
    BY DEF ExecBegins, EventTypes, Confirms
<1> QED
    BY <1>0, <1>2, <1>3, <1>4, RingAdvances, CacheAdvances DEF TrustInv

\* An exec succeeds: a cache that is in use has not noticed it.
LEMMA TrustExecEnds ==
    ASSUME IInv, EventTypes, TrustInv, NEW t \in Threads, ExecEnds(t), UNCHANGED <<info, noticed>>
    PROVE  TrustInv'
<1>0. /\ calls \in Nat /\ calls' = calls /\ exe \in Int /\ exe' = thread[t].id /\ exe' \in Int
      /\ exe < exe' /\ exe' <= calls
    BY Zenon DEF IInv, TypeInv, States, ExecEnds, EventTypes, TrustInv, NumbersInv
<1>1. \A u \in Threads : ~Execing(u)'
    BY DEF ExecEnds, Execing
<1>2. Advance
    <2>1. \/ ring' = ring
          \/ \E e \in EventSet : /\ ring' = Append(ring, e) /\ e.exe = exe'
                                 /\ e.phase = "success" /\ e.new = exe'
        BY DEF ExecEnds
    <2> QED
        BY <1>0, <1>1, <2>1 DEF Advance
<1>3. NumbersInv'
    BY <1>0, <1>1 DEF TrustInv, NumbersInv
<1>4. CacheInv'
    <2>1. Usable(info) => exe' \notin noticed
        BY <1>0 DEF Usable, ExecEnds, TrustInv, CacheInv
    <2>2. ASSUME Usable(info), NEW i \in 1 .. Len(ring'), ring'[i].exe \in noticed
          PROVE  ring'[i].exe <= info.exe
        <3>1. \/ i \in 1 .. Len(ring) /\ ring'[i] = ring[i]
              \/ ring'[i].exe = exe'
            BY DEF ExecEnds, EventTypes
        <3> QED
            BY <2>1, <2>2, <3>1, Zenon DEF TrustInv, CacheInv
    <2> QED
        BY <1>1, <2>1, <2>2 DEF TrustInv, CacheInv
<1> QED
    BY <1>2, <1>3, <1>4, RingAdvances DEF TrustInv

\* The answer of procInfo to a judgement of ev, asked with the entry cached.
Answers(ev, cached) ==
    /\ info' \in InfoSet /\ info'.refresh = cached.refresh /\ judged'.event = ev
    /\ \/ Usable(cached) /\ info' = cached /\ judged'.exe = cached.exe
       \/ /\ judged'.exe \in {NoExe, exe}
          /\ Usable(info') => info'.exe = exe

\* A judgement is made on the entry cached or on a fresh reading of /proc.
LEMMA JudgeAnswers ==
    ASSUME EventTypes, NEW ev, NEW table, NEW cached \in InfoSet, Judge(ev, table, cached)
    PROVE  Answers(ev, cached)
<1>0. exe \in Int /\ NoExe \in Int
    BY DEF EventTypes, NoExe
<1>1. PICK answer \in ProcInfo(cached) :
        info' = answer.info /\ judged'.event = ev /\ judged'.exe = answer.exe
    BY DEF Judge
<1>2. CASE Usable(cached)
    <2>1. answer = [info |-> cached, exe |-> cached.exe]
        BY <1>1, <1>2 DEF ProcInfo, Usable, InfoSet
    <2> QED
        BY <1>1, <1>2, <2>1 DEF Answers
<1>3. CASE ~Usable(cached)
    <2>1. PICK read \in ReadProc :
            answer = [info |-> IF read.ok THEN [cached EXCEPT !.exe = read.exe, !.known = TRUE]
                               ELSE cached,
                      exe |-> Answered(cached, read)]
        BY <1>1, <1>3, Zenon DEF ProcInfo, Usable, InfoSet
    <2>2. read.exe \in {NoExe, exe}
        BY DEF ReadProc
    <2>3. judged'.exe \in {NoExe, exe}
        BY <1>1, <2>1, <2>2 DEF Answered
    <2>4. CASE read.ok
        <3>1. info' = [cached EXCEPT !.exe = read.exe, !.known = TRUE]
            BY <1>1, <2>1, <2>4
        <3>2. info' \in InfoSet /\ info'.refresh = cached.refresh /\ info'.exe = read.exe
            BY <1>0, <2>2, <3>1, Zenon DEF InfoSet
        <3> QED
            BY <1>1, <2>2, <2>3, <3>2 DEF Answers, Usable
    <2>5. CASE ~read.ok
        <3>1. info' = cached
            BY <1>1, <2>1, <2>5
        <3> QED
            BY <1>1, <1>3, <2>3, <3>1 DEF Answers
    <2> QED
        BY <2>4, <2>5
<1> QED
    BY <1>2, <1>3

\* What handle does to the agent's view of the executable.
HandleKinds(ev) ==
    \/ info' = info /\ noticed' = noticed /\ judged' = NoJudgement
    \/ noticed' = noticed /\ Answers(ev, info)
    \/ /\ Announces(ev) /\ noticed' = noticed \cup {ev.new} /\ judged'.event = ev
       /\ info' \in InfoSet /\ info'.refresh /\ judged'.exe \in {NoExe, exe}
    \/ /\ Confirms(ev) /\ noticed' = noticed \cup {ev.new} /\ judged' = NoJudgement
       /\ info' \in InfoSet /\ (~info'.refresh => info'.exe = exe)

\* What handle does to the cache, by the kind of the event.
LEMMA HandleView ==
    ASSUME EventTypes, info \in InfoSet, Handle
    PROVE  /\ ring # <<>> /\ ring' = Tail(ring) /\ HandleKinds(Head(ring))
           /\ UNCHANGED <<exe, thread, calls>>
<1>1. PICK ev : ev = Head(ring)
    OBVIOUS
<1>2. ring # <<>> /\ ring' = Tail(ring) /\ UNCHANGED <<exe, thread, calls>>
    BY DEF Handle, kernel
<1>3. CASE Ignored(ev) /\ judged' = NoJudgement /\ UNCHANGED view
    BY <1>1, <1>2, <1>3 DEF view, HandleKinds
<1>4. CASE judged' = NoJudgement /\ UNCHANGED <<info, noticed>>
    BY <1>1, <1>2, <1>4 DEF HandleKinds
<1>5. CASE Judge(ev, fdPaths', info) /\ UNCHANGED noticed
    BY <1>1, <1>2, <1>5, JudgeAnswers DEF HandleKinds
<1>6. CASE ev.type = "exec" /\ CacheExecInfo(ev)
    <2>1. PICK marked : marked = [info EXCEPT !.refresh = NeedsRefresh(ev, info), !.known = TRUE]
        OBVIOUS
    <2>2. marked \in InfoSet /\ marked.refresh
        BY <2>1, Zenon DEF InfoSet, NeedsRefresh
    <2>3. noticed' = noticed \cup {ev.new}
        BY <1>6 DEF CacheExecInfo
    <2>4. CASE ev.phase = "attempt" /\ Judge(ev, fdPaths, marked)
        <3>1. Answers(ev, marked)
            BY <2>2, <2>4, JudgeAnswers
        <3>2. /\ info' \in InfoSet /\ info'.refresh /\ judged'.event = ev
              /\ judged'.exe \in {NoExe, exe}
            BY <2>2, <3>1, Zenon DEF Answers, Usable
        <3> QED
            BY <1>1, <1>2, <1>6, <2>3, <2>4, <3>2 DEF HandleKinds, Announces
    <2>5. CASE /\ ev.phase = "success" /\ judged' = NoJudgement
               /\ \E read \in ReadProc :
                    info' = IF read.ok /\ read.exe # NoExe
                            THEN [exe |-> read.exe, refresh |-> FALSE, known |-> TRUE]
                            ELSE marked
        <3>1. PICK read \in ReadProc :
                    info' = IF read.ok /\ read.exe # NoExe
                            THEN [exe |-> read.exe, refresh |-> FALSE, known |-> TRUE]
                            ELSE marked
            BY <2>5, Zenon
        <3>2. read.exe \in {NoExe, exe} /\ exe \in Int
            BY DEF ReadProc, EventTypes
        <3>3. info' \in InfoSet /\ (~info'.refresh => info'.exe = exe)
            BY <2>2, <3>1, <3>2 DEF InfoSet
        <3> QED
            BY <1>1, <1>2, <1>6, <2>3, <2>5, <3>3 DEF HandleKinds, Confirms
    <2> QED
        BY <1>6, <2>1, <2>4, <2>5 DEF CacheExecInfo
<1> QED
    BY <1>1, <1>3, <1>4, <1>5, <1>6 DEF Handle

\* The head of the ring buffer is handled.
LEMMA TrustHandle ==
    ASSUME IInv, EventTypes, TrustInv, Handle
    PROVE  TrustInv' /\ TrustNotStale'
<1>n. PICK n \in Nat : n = Len(ring)
    BY DEF EventTypes
<1>e. PICK ev : ev = ring[1]
    OBVIOUS
<1>1. /\ ring # <<>> /\ ring' = Tail(ring) /\ HandleKinds(Head(ring))
      /\ UNCHANGED <<exe, thread, calls>>
    BY HandleView DEF TrustInv, CacheInv
<1>2. /\ n >= 1 /\ Len(ring') = n - 1 /\ \A i \in 1 .. n - 1 : ring'[i] = ring[i + 1]
      /\ Head(ring) = ev /\ 1 \in 1 .. n /\ ev \in EventSet
    BY <1>n, <1>e, <1>1 DEF EventTypes
<1>3. /\ calls \in Nat /\ exe \in Int /\ NumbersInv /\ CacheInv /\ HandleKinds(ev)
      /\ \A i \in 1 .. n : Placed(i) /\ ring[i] \in EventSet
      /\ \A t \in Threads : thread[t].id \in Int
    BY <1>n, <1>1, <1>2 DEF IInv, TypeInv, States, EventTypes, TrustInv, RingInv
<1>4. \A u \in Threads : (Execing(u)' <=> Execing(u)) /\ thread'[u].id = thread[u].id
    BY <1>1 DEF Execing
<1>5. Placed(1) /\ ev.exe <= exe /\ ev.exe \in Int /\ ev.new \in Int
    BY <1>e, <1>2, <1>3, Zenon DEF Placed, EventSet
<1>6. Confirms(ev) => ev.new <= exe /\ ev.new <= calls
    <2>1. exe <= calls /\ exe \in Int /\ calls \in Nat
        BY <1>3 DEF NumbersInv
    <2>2. Confirms(ev) => ev.new = ev.exe
        BY <1>e, <1>5 DEF Placed
    <2> QED
        BY <1>5, <2>1, <2>2
<1>7. Announces(ev) => ev.new <= calls
    BY <1>e, <1>5 DEF Placed, Announces
\* The rest of the ring buffer.
<1>8. RingInv'
    <2> SUFFICES ASSUME NEW i \in 1 .. n - 1 PROVE Placed(i)'
        BY <1>2 DEF RingInv
    <2>1. ring'[i] = ring[i + 1] /\ Placed(i + 1) /\ i + 1 \in 1 .. n
        BY <1>2, <1>3
    <2>2. ASSUME NEW j \in i + 1 .. Len(ring'), Confirms(ring'[j])
          PROVE  \E k \in (i + 1) + 1 .. Len(ring) : Confirms(ring[k])
        <3>1. j + 1 \in (i + 1) + 1 .. Len(ring) /\ ring'[j] = ring[j + 1]
            BY <1>n, <1>2
        <3> QED
            BY <2>2, <3>1
    <2> QED
        BY <1>1, <1>4, <2>1, <2>2, Zenon DEF Placed
<1>9. /\ NumbersInv' /\ noticed' \subseteq Int /\ info' \in InfoSet
    <2>1. noticed' \subseteq Int /\ \A k \in noticed' : k <= calls
        BY <1>3, <1>5, <1>6, <1>7, Zenon DEF HandleKinds, NumbersInv, CacheInv
    <2>2. info' \in InfoSet
        BY <1>3 DEF HandleKinds, CacheInv, Answers
    <2> QED
        BY <1>1, <1>3, <1>4, <2>1, <2>2 DEF NumbersInv
\* A confirmation is still there, or it is the one handled.
<1>10. (\E j \in 1 .. Len(ring') : Confirms(ring'[j])) => \E j \in 2 .. n : Confirms(ring[j])
    <2> SUFFICES ASSUME NEW j \in 1 .. n - 1, Confirms(ring'[j])
                 PROVE  \E k \in 2 .. n : Confirms(ring[k])
        BY <1>2
    <2>1. j + 1 \in 2 .. n /\ ring'[j] = ring[j + 1]
        BY <1>2
    <2> QED
        BY <2>1
<1>11. ASSUME ~info'.refresh \/ (\E j \in 1 .. Len(ring') : Confirms(ring'[j])),
              NEW t \in Threads, Execing(t)
       PROVE  thread[t].id \notin noticed'
    <2>1. exe < thread[t].id
        BY <1>3, <1>11, Zenon DEF NumbersInv
    <2>2. CASE Confirms(ev) /\ noticed' = noticed \cup {ev.new}
        <3>1. \E j \in 1 .. Len(ring) : Confirms(ring[j])
            BY Zenon, <1>n, <1>e, <1>2, <2>2
        <3>2. CacheInv /\ Execing(t)
            BY <1>3, <1>11
        <3>3. thread[t].id \notin noticed
            BY <3>1, <3>2, Zenon DEF CacheInv
        <3> QED
            BY <1>3, <1>5, <1>6, <2>1, <2>2, <3>3
    <2>3. CASE Announces(ev) /\ noticed' = noticed \cup {ev.new} /\ info'.refresh
        <3>1. \E j \in 2 .. n : Confirms(ring[j])
            BY <1>10, <1>11, <2>3
        <3>2. thread[t].id \notin noticed
            <4>1. \E j \in 1 .. Len(ring) : Confirms(ring[j])
                BY <1>n, <3>1
            <4>2. CacheInv /\ Execing(t)
                BY <1>3, <1>11
            <4> QED
                BY <4>1, <4>2, Zenon DEF CacheInv
        <3>3. thread[t].id # ev.new
            <4>1. Announces(ring[1]) /\ \E j \in 1 + 1 .. Len(ring) : Confirms(ring[j])
                BY <1>n, <1>e, <2>3, <3>1
            <4>2. Placed(1) /\ Execing(t)
                BY Zenon, <1>5, <1>11
            <4> QED
                BY <1>e, <4>1, <4>2, Zenon DEF Placed
        <3> QED
            BY <2>3, <3>2, <3>3
    <2>4. CASE noticed' = noticed /\ info'.refresh = info.refresh
        <3>1. (\E j \in 2 .. n : Confirms(ring[j])) => \E j \in 1 .. n : Confirms(ring[j])
            OBVIOUS
        <3> QED
            BY <1>n, <1>3, <1>10, <1>11, <2>4, <3>1 DEF CacheInv
    <2> QED
        BY <1>3, <2>2, <2>3, <2>4, Zenon DEF HandleKinds, Answers
<1>12. ASSUME Usable(info')
       PROVE  /\ exe \in noticed' => exe <= info'.exe
              /\ \A i \in 1 .. Len(ring') : ring'[i].exe \in noticed' => ring'[i].exe <= info'.exe
    <2>1. ASSUME NEW i \in 1 .. n - 1
          PROVE  ring'[i].exe <= exe /\ ring'[i].exe \in Int /\ ring'[i] = ring[i + 1]
        <3>1. i + 1 \in 1 .. n /\ ring'[i] = ring[i + 1]
            BY <1>2
        <3>2. ring[i + 1] \in EventSet /\ Placed(i + 1)
            BY <1>3, <3>1
        <3> QED
            BY <3>1, <3>2 DEF Placed, EventSet
    <2>2. CASE info'.exe = exe
        BY <1>2, <1>3, <2>1, <2>2
    <2>3. CASE info' = info /\ noticed' = noticed
        BY <1>n, <1>2, <1>3, <1>12, <2>1, <2>3 DEF CacheInv
    <2> QED
        BY <1>3, <1>12, <2>2, <2>3, Zenon DEF HandleKinds, Answers, Usable
<1>13. CacheInv'
    BY <1>1, <1>4, <1>9, <1>11, <1>12, Zenon DEF CacheInv
<1>14. TrustNotStale'
    <2>1. CASE judged' = NoJudgement
        BY <2>1 DEF TrustNotStale, NoJudgement
    <2>2. CASE judged'.event = ev /\ judged'.exe \in {NoExe, exe}
        BY <1>3, <1>5, <2>2 DEF TrustNotStale
    <2>3. CASE noticed' = noticed /\ judged'.event = ev /\ Usable(info) /\ judged'.exe = info.exe
        <3>1. ev.exe \in noticed => ev.exe <= info.exe
            BY <1>n, <1>e, <1>2, <1>3, <2>3 DEF CacheInv
        <3>2. info.exe \in Int
            BY <1>3 DEF CacheInv, InfoSet
        <3> QED
            BY <1>5, <2>3, <3>1, <3>2, Zenon DEF TrustNotStale
    <2> QED
        BY <1>3, <2>1, <2>2, <2>3, Zenon DEF HandleKinds, Answers
<1> QED
    BY <1>8, <1>9, <1>13, <1>14 DEF TrustInv

\* Every step of the model keeps TrustInv and judges on no stale executable.
LEMMA TrustNext ==
    ASSUME IInv, EventTypes, TrustInv, TrustNotStale, [Next]_vars
    PROVE  TrustInv' /\ TrustNotStale'
<1>1. CASE Hooks /\ UNCHANGED view /\ judged' = NoJudgement
    <2>1. UNCHANGED <<info, noticed>> /\ TrustNotStale'
        BY <1>1 DEF view, TrustNotStale, NoJudgement
    <2>2. CASE PlainStep
        BY <2>1, <2>2, TrustPlain
    <2>3. CASE \E t \in Threads : ExecBegins(t) \/ ExecEnds(t)
        BY <2>1, <2>3, TrustExecBegins, TrustExecEnds
    <2> QED
        BY Zenon, <1>1, <2>1, <2>2, <2>3, HookSteps
<1>2. CASE Handle
    BY Zenon, <1>2, TrustHandle
<1>3. CASE PruneIdle
    <2>1. /\ ring = <<>> /\ info' \in {info, NoInfo} /\ judged' = NoJudgement
          /\ UNCHANGED <<ring, exe, thread, calls, noticed>>
          /\ \A t \in Threads : thread[t] \in {Out, Dead}
        BY <1>3 DEF PruneIdle, capture, kernel
    <2>2. /\ \A t \in Threads : ~Execing(t) /\ ~Execing(t)'
          /\ \A i \in 1 .. Len(ring) : FALSE
        BY <2>1 DEF Execing, Out, Dead
    <2>3. NoInfo \in InfoSet /\ ~Usable(NoInfo)
        BY DEF NoInfo, InfoSet, Usable, NoExe
    <2>4. NumbersInv' /\ RingInv' /\ CacheInv'
        BY <2>1, <2>2, <2>3, Zenon DEF TrustInv, NumbersInv, RingInv, CacheInv
    <2> QED
        BY <2>1, <2>4 DEF TrustInv, TrustNotStale, NoJudgement
<1>4. CASE UNCHANGED vars
    <2>1. UNCHANGED <<ring, exe, thread, calls, noticed, info, judged>>
        BY <1>4, Zenon DEF vars, capture, kernel, view
    <2>2. TrustInv'
        BY <2>1 DEF TrustInv, NumbersInv, RingInv, CacheInv, Placed, Execing
    <2> QED
        BY <2>1, <2>2 DEF TrustNotStale
<1> QED
    BY <1>1, <1>2, <1>3, <1>4 DEF Next

\* No judgement is made on an executable that the process had replaced before
\* it caused the judged event, when one of the events of that replacement was
\* handled: for any number of threads, any ring buffer and any interleaving of
\* exec with the other calls.
THEOREM TrustIsCurrent == Spec => []TrustNotStale
<1>1. ViewInit => IInv /\ EventTypes /\ TrustInv /\ TrustNotStale
    <2>1. ViewInit => TrustNotStale
        BY DEF ViewInit, TrustNotStale, NoJudgement
    <2> QED
        BY Zenon, <2>1, InitInv, EventTypesInit, TrustInit
<1>2. /\ IInv /\ EventTypes /\ TrustInv /\ TrustNotStale /\ [Next]_vars
      => (IInv /\ EventTypes /\ TrustInv /\ TrustNotStale)'
    BY NextInv, EventTypesNext, TrustNext
<1> QED
    BY <1>1, <1>2, PTL DEF Spec

-----------------------------------------------------------------------------
(* The count of the writes *)

Held(map) == {t \in Threads : map[t] # NoPending}

\* A write that was entered is completed, pending or a gap.
CountInv ==
    gaps \in Nat /\ unpaired \in Int /\ unpaired = gaps + Cardinality(Held(writes))

\* There are finitely many entries.
LEMMA HeldFinite ==
    ASSUME NEW map PROVE IsFiniteSet(Held(map)) /\ Cardinality(Held(map)) \in Nat
BY CaptureAssumption, FS_Subset, FS_CardinalityType DEF Held

\* An entry is added when there is room.
LEMMA RememberHeld ==
    ASSUME NEW map \in [Threads -> Entries], NEW t \in Threads, NEW e \in Entries,
           map[t] = NoPending, e # NoPending
    PROVE  /\ Room(map, t) => Cardinality(Held(Remember(map, t, e))) = Cardinality(Held(map)) + 1
           /\ ~Room(map, t) => Remember(map, t, e) = map
<1>1. ASSUME Room(map, t) PROVE Held(Remember(map, t, e)) = Held(map) \cup {t}
    BY <1>1 DEF Remember, Held
<1>2. t \notin Held(map)
    BY DEF Held
<1>3. Cardinality(Held(map) \cup {t}) = Cardinality(Held(map)) + 1
    BY <1>2, HeldFinite, FS_AddElement, Zenon
<1>4. ~Room(map, t) => Remember(map, t, e) = map
    BY DEF Remember
<1> QED
    BY <1>1, <1>3, <1>4

\* An entry is taken out.
LEMMA ForgetHeld ==
    ASSUME NEW map \in [Threads -> Entries], NEW t \in Threads, map[t] # NoPending
    PROVE  Cardinality(Held(Forget(map, t))) = Cardinality(Held(map)) - 1
<1>1. Held(Forget(map, t)) = Held(map) \ {t} /\ t \in Held(map)
    BY DEF Forget, Held
<1> QED
    BY <1>1, HeldFinite, FS_RemoveElement, Zenon

\* The entries of ending threads are taken out.
LEMMA CleanHeld ==
    ASSUME NEW map \in [Threads -> Entries], NEW dying \in SUBSET Threads,
           NEW new, new = [t \in Threads |-> IF t \in dying THEN NoPending ELSE map[t]]
    PROVE  /\ Cardinality({t \in dying : map[t] # NoPending}) \in Nat
           /\ Cardinality(Held(map)) =
                Cardinality(Held(new)) + Cardinality({t \in dying : map[t] # NoPending})
<1> DEFINE D == {t \in dying : map[t] # NoPending}
<1>1. Held(map) = Held(new) \cup D /\ Held(new) \cap D = {}
    BY DEF Held
<1>2. IsFiniteSet(D) /\ Cardinality(D) \in Nat
    <2>1. D \in SUBSET Threads
        BY Zenon
    <2> QED
        BY <2>1, CaptureAssumption, FS_Subset, FS_CardinalityType
<1>3. Cardinality(Held(new) \cup D) = Cardinality(Held(new)) + Cardinality(D) - Cardinality(Held(new) \cap D)
    BY <1>2, HeldFinite, FS_Union
<1>4. Cardinality(Held(new)) \in Nat /\ Cardinality(Held(new) \cap D) = 0
    BY <1>1, HeldFinite, FS_EmptySet
<1>5. Cardinality(Held(map)) = Cardinality(Held(new) \cup D)
    BY <1>1
<1> HIDE DEF D
<1>6. Cardinality(Held(map)) = Cardinality(Held(new)) + Cardinality(D)
    BY <1>2, <1>3, <1>4, <1>5
<1> QED
    BY <1>2, <1>6 DEF D

\* Nothing of the count changes.
LEMMA CountSame == ASSUME CountInv, UNCHANGED <<writes, gaps, unpaired>> PROVE CountInv'
<1>1. Held(writes)' = Held(writes)
    BY Zenon DEF Held
<1> QED
    BY <1>1 DEF CountInv

\* A write is counted on its entry and remembered, or else counted as a gap.
LEMMA CountEnter ==
    ASSUME IInv, CountInv, NEW t \in Threads, NEW f \in Fds, EnterWrite(t, f)
    PROVE  CountInv'
<1>1. PICK e : e = [fd |-> f, path |-> Untracked]
    BY Zenon
<1>2. e \in Entries /\ e # NoPending
    BY <1>1, CaptureAssumption, Values DEF Entries
<1>3. writes \in [Threads -> Entries] /\ writes[t] = NoPending
    BY OutHasNothing DEF EnterWrite, Enter, IInv, TypeInv
<1>4. /\ writes' = Remember(writes, t, e) /\ unpaired' = unpaired + 1
      /\ gaps' = IF Room(writes, t) THEN gaps ELSE gaps + 1
    BY <1>1, Zenon DEF EnterWrite, GapsAfterEntry
<1>5. /\ Room(writes, t) => Cardinality(Held(writes')) = Cardinality(Held(writes)) + 1
      /\ ~Room(writes, t) => writes' = writes
    BY Zenon, <1>2, <1>3, <1>4, RememberHeld
<1>6. Cardinality(Held(writes)) \in Nat /\ Held(writes)' = Held(writes')
    BY HeldFinite DEF Held
<1> QED
    BY <1>4, <1>5, <1>6 DEF CountInv

\* An exit hook counts the write as completed, or leaves the count alone.
LEMMA CountExit == ASSUME IInv, CountInv, NEW t \in Threads, Exit(t) PROVE CountInv'
<1>1. CASE UNCHANGED <<writes, gaps, unpaired>>
    BY <1>1, CountSame
<1>2. CASE /\ writes[t] # NoPending /\ writes' = Forget(writes, t)
           /\ unpaired' = unpaired - 1 /\ gaps' = gaps
    <2>1. Cardinality(Held(writes')) = Cardinality(Held(writes)) - 1
        BY <1>2, ForgetHeld, Zenon DEF IInv, TypeInv
    <2>2. Cardinality(Held(writes)) \in Nat /\ Held(writes)' = Held(writes')
        BY HeldFinite, Zenon DEF Held
    <2> QED
        BY <1>2, <2>1, <2>2 DEF CountInv
<1> QED
    BY <1>1, <1>2, Zenon DEF Exit, pending

\* A pending write of a thread that ends is a gap.
LEMMA CountCleanUp ==
    ASSUME IInv, CountInv, NEW dying \in SUBSET Threads, CleanUp(dying) PROVE CountInv'
<1>1. /\ writes \in [Threads -> Entries]
      /\ writes' = [t \in Threads |-> IF t \in dying THEN NoPending ELSE writes[t]]
      /\ gaps' = gaps + Cardinality({t \in dying : writes[t] # NoPending})
      /\ unpaired' = unpaired
    BY DEF CleanUp, IInv, TypeInv
<1>2. /\ Cardinality({t \in dying : writes[t] # NoPending}) \in Nat
      /\ Cardinality(Held(writes)) =
            Cardinality(Held(writes')) + Cardinality({t \in dying : writes[t] # NoPending})
    BY <1>1, CleanHeld, Zenon
<1>3. Cardinality(Held(writes')) \in Nat /\ Held(writes)' = Held(writes')
    BY HeldFinite DEF Held
<1> QED
    BY <1>1, <1>2, <1>3 DEF CountInv

\* Every step keeps the count.
LEMMA CountNext == IInv /\ CountInv /\ [Next]_vars => CountInv'
<1> SUFFICES ASSUME IInv, CountInv, [Next]_vars PROVE CountInv'
    BY Zenon
<1>1. CASE Hooks
    <2>1. PICK t \in Threads :
            \/ \E p \in Paths : EnterOpen(t, p)
            \/ \E old \in Fds, new \in Fds \cup {None} : EnterDup(t, old, new)
            \/ \E f \in Fds : EnterClose(t, f)
            \/ \E f \in Fds : EnterWrite(t, f)
            \/ EnterExec(t)
            \/ Fails(t) \/ Performs(t) \/ OpenUntracked(t)
            \/ Exit(t)
            \/ ThreadExit(t) \/ Spawn(t) \/ ExecSucceeds(t)
        BY <1>1, Zenon DEF Hooks
    <2>2. CASE Fails(t) \/ Performs(t)
        <3>1. \E result, table : Done(t, result, table)
            BY <2>2, Zenon DEF Fails, Performs
        <3> QED
            BY <3>1, CountSame DEF Done, pending, counts
    <2>3. CASE \/ \E p \in Paths : EnterOpen(t, p)
               \/ \E old \in Fds, new \in Fds \cup {None} : EnterDup(t, old, new)
               \/ \E f \in Fds : EnterClose(t, f)
               \/ EnterExec(t) \/ OpenUntracked(t) \/ Spawn(t)
        <3>1. UNCHANGED <<writes, gaps, unpaired>>
            BY <2>3, Zenon DEF EnterOpen, EnterDup, EnterClose, EnterExec, OpenUntracked, Spawn,
                               pending, counts
        <3> QED
            BY <3>1, CountSame
    <2>4. CASE ThreadExit(t) \/ ExecSucceeds(t)
        <3>1. \E dying \in SUBSET Threads : CleanUp(dying)
            BY <2>4 DEF ThreadExit, ExecSucceeds
        <3> QED
            BY <3>1, CountCleanUp
    <2> QED
        BY <2>1, <2>2, <2>3, <2>4, CountEnter, CountExit
<1>2. CASE Handle \/ PruneIdle \/ UNCHANGED vars
    <2>1. UNCHANGED <<writes, gaps, unpaired>>
        BY <1>2 DEF Handle, PruneIdle, vars, capture, pending, counts
    <2> QED
        BY Zenon, <2>1, CountSame
<1> QED
    BY <1>1, <1>2 DEF Next

\* Every write that was entered is completed, pending or a counted gap, also
\* when pending_writes is full and when threads are killed inside a write.
THEOREM NoWriteIsLost == Spec => []WritesAccounted
<1>1. ViewInit => CountInv
    <2> SUFFICES ASSUME ViewInit PROVE CountInv
        OBVIOUS
    <2>1. Held(writes) = {}
        BY DEF ViewInit, Init, Held
    <2>2. Cardinality(Held(writes)) = 0
        BY <2>1, FS_EmptySet, Zenon
    <2>3. gaps = 0 /\ unpaired = 0
        BY DEF ViewInit, Init
    <2> QED
        BY <2>2, <2>3 DEF CountInv
<1>2. CountInv => WritesAccounted
    BY DEF CountInv, Held, WritesAccounted
<1> QED
    BY <1>1, <1>2, InitInv, NextInv, CountNext, PTL DEF Spec

===============================================================================
