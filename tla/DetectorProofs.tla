---------------------------- MODULE DetectorProofs ----------------------------
(***************************************************************************)
(* Proofs about Detector: who is remembered as blocked is marked in the    *)
(* kernel, a score that reached the threshold is latched, and rules and    *)
(* threshold act on a latched process again only after BlockTTL.  The last *)
(* needs an invariant that ties the latch of a process to the events that  *)
(* went through its window.                                                *)
(***************************************************************************)
EXTENDS Detector, TLAPS, WellFoundedInduction

-----------------------------------------------------------------------------
(* The least and the greatest of a set of numbers *)

\* A set of natural numbers that is not empty has a least element.
LEMMA LeastElement ==
    ASSUME NEW S \in SUBSET Nat, S # {}
    PROVE  \E m \in S : \A n \in S : m <= n
<1>1. IsWellFoundedOn(OpToRel(<, Nat), Nat)
  BY NatLessThanWellFounded, Zenon
<1>2. PICK m \in S : \A y \in S : ~ (<<y, m>> \in OpToRel(<, Nat))
  BY <1>1, WFMin, Zenon
<1>3. \A y \in S : ~ (y < m)
  BY <1>2, Zenon DEF OpToRel
<1> QED
  BY <1>3

\* Max is the greatest element of a set of numbers up to b.
LEMMA MaxIsGreatest ==
    ASSUME NEW b \in Nat, NEW S \in SUBSET (0 .. b), S # {}
    PROVE  Max(S) \in S /\ \A n \in S : n <= Max(S)
<1> DEFINE T == {m \in Nat : \E n \in S : m = b - n}
<1>1. T \in SUBSET Nat /\ T # {}
  <2>1. PICK n \in S : TRUE
    BY Zenon
  <2>2. b - n \in T
    OBVIOUS
  <2> QED
    BY <2>2, Zenon
<1>2. PICK m \in T : \A n \in T : m <= n
  <2> HIDE DEF T
  <2> QED
    BY <1>1, LeastElement
<1>3. PICK k \in S : m = b - k
  OBVIOUS
<1>4. \A n \in S : k >= n
  BY <1>2, <1>3
<1> QED
  BY <1>4, Zenon DEF Max

\* matchRule answers with one of the policy's rules or with none.
LEMMA MatchRuleInRange ==
    ASSUME NEW s
    PROVE  MatchRule(s) # 0 => MatchRule(s) \in 1 .. Len(Rules)
<1> DEFINE I == {i \in 1 .. Len(Rules) : RuleMatches(s, Rules[i])}
<1>1. MatchRule(s) = IF I # {} THEN Min(I) ELSE 0
  BY DEF MatchRule, SelectInSeq
<1>2. I # {} => Min(I) \in I
  <2>1. I \in SUBSET Nat
    OBVIOUS
  <2> HIDE DEF I
  <2> QED
    BY <2>1, LeastElement, Zenon DEF Min
<1> QED
  BY <1>1, <1>2

\* What a verdict on the window may ask for.
LEMMA DecideResult ==
    ASSUME NEW s, NEW at
    PROVE  LET d == Decide(s, at)
           IN  \/ d.verdict = "none" /\ d.action = "none"
                  /\ (StateBlocked(s, at) \/ ~(s.score >= Threshold))
               \/ /\ d.verdict # "none" /\ ~StateBlocked(s, at)
                  /\ \/ d.action = Action
                     \/ \E k \in 1 .. Len(Rules) : d.action = Rules[k].action
  BY MatchRuleInRange DEF Decide

-----------------------------------------------------------------------------
(* The latch is left alone by everything that works on the window *)

StateFields == DOMAIN NewState(0)

StateOK(s) == DOMAIN s = StateFields /\ s.blocked \in BOOLEAN /\ s.blockedAt \in Int

\* r is s with its latch unchanged.
Keeps(s, r) ==
    DOMAIN r = DOMAIN s /\ r.blocked = s.blocked /\ r.blockedAt = s.blockedAt

\* rebuildWindow keeps the latch.
LEMMA RebuildKeeps ==
    ASSUME NEW s, DOMAIN s = StateFields
    PROVE  Keeps(s, RebuildWindow(s))
  BY Zenon DEF RebuildWindow, Cleared, Keeps, StateFields, NewState

\* prune keeps the latch, whatever it takes out of the window.
LEMMA PruneKeeps ==
    ASSUME NEW s, NEW now, DOMAIN s = StateFields
    PROVE  Keeps(s, Prune(s, now))
<1> DEFINE cut == [s EXCEPT !.history = SelectSeq(s.history, LAMBDA e : InWindow(e.at, now))]
<1>1. DOMAIN cut = StateFields /\ Keeps(s, cut)
  BY DEF Keeps, StateFields, NewState
<1>2. Keeps(cut, RebuildWindow(cut))
  BY <1>1, RebuildKeeps
<1>3. Keeps(s, RebuildWindow(cut))
  BY <1>1, <1>2 DEF Keeps
<1>4. Keeps(s, [Cleared(s) EXCEPT !.firstSeen = now])
  BY Zenon DEF Cleared, Keeps, StateFields, NewState
<1>5. Keeps(s, s)
  BY DEF Keeps
<1> HIDE DEF cut
<1>6. Prune(s, now) \in {s, [Cleared(s) EXCEPT !.firstSeen = now], RebuildWindow(cut)}
  BY DEF Prune, cut
<1> QED
  BY <1>3, <1>4, <1>5, <1>6

\* So do recordFeatures, the score and the history.
LEMMA WindowKeeps ==
    ASSUME NEW s, NEW ev, NEW x, NEW y, DOMAIN s = StateFields
    PROVE  /\ Keeps(s, RecordFeatures(s, ev, x))
           /\ Keeps(s, AddScore(s, ev, x))
           /\ Keeps(s, AppendHistory(s, y))
           /\ Keeps(s, Raise(s))
<1>1. Keeps(s, RecordFeatures(s, ev, x))
  BY DEF RecordFeatures, Keeps, StateFields, NewState
<1>2. Keeps(s, AddScore(s, ev, x))
  BY DEF AddScore, Keeps, StateFields, NewState
<1>3. Keeps(s, AppendHistory(s, y))
  <2> DEFINE cut == [s EXCEPT !.history = Tail(Append(s.history, y))]
  <2>1. DOMAIN cut = StateFields /\ Keeps(s, cut)
    BY DEF Keeps, StateFields, NewState
  <2>2. Keeps(cut, RebuildWindow(cut))
    BY <2>1, RebuildKeeps
  <2>3. Keeps(s, RebuildWindow(cut))
    BY <2>1, <2>2 DEF Keeps
  <2>4. Keeps(s, [s EXCEPT !.history = Append(s.history, y)])
    BY DEF Keeps, StateFields, NewState
  <2> HIDE DEF cut
  <2>5. AppendHistory(s, y) \in {RebuildWindow(cut), [s EXCEPT !.history = Append(s.history, y)]}
    BY DEF AppendHistory, cut
  <2> QED
    BY <2>3, <2>4, <2>5
<1>4. Keeps(s, Raise(s))
  BY DEF Raise, Keeps, StateFields, NewState
<1> QED
  BY <1>1, <1>2, <1>3, <1>4

\* Lifting the latch, and setting it.
LEMMA LatchKeeps ==
    ASSUME NEW s, NEW at \in Int, NEW action, StateOK(s)
    PROVE  /\ StateOK(Unlatch(s, at)) /\ StateOK(Latch(s, action, at))
           /\ StateBlocked(s, at) => Unlatch(s, at) = s
           /\ ~StateBlocked(s, at) => ~Unlatch(s, at).blocked
           /\ action = "log" => Latch(s, action, at) = s
           /\ action # "log" => /\ Latch(s, action, at).blocked
                                /\ Latch(s, action, at).blockedAt = at
<1>1. /\ StateOK(Unlatch(s, at))
      /\ StateBlocked(s, at) => Unlatch(s, at) = s
      /\ ~StateBlocked(s, at) => ~Unlatch(s, at).blocked
  <2>1. CASE StateBlocked(s, at)
    BY <2>1 DEF Unlatch
  <2>2. CASE ~StateBlocked(s, at)
    <3>1. Unlatch(s, at) = [s EXCEPT !.blocked = FALSE, !.blockedAt = NoTime]
      BY <2>2 DEF Unlatch
    <3> QED
      BY <2>2, <3>1 DEF StateOK, StateFields, NewState, NoTime
  <2> QED
    BY <2>1, <2>2
<1>2. CASE action = "log"
  BY <1>1, <1>2 DEF Latch
<1>3. CASE action # "log"
  <2>1. Latch(s, action, at) = [s EXCEPT !.blocked = TRUE, !.blockedAt = at]
    BY <1>3 DEF Latch
  <2> QED
    BY <1>1, <1>3, <2>1 DEF StateOK, StateFields, NewState
<1> QED
  BY <1>2, <1>3

-----------------------------------------------------------------------------
(* The events of a process that went through its window *)

IsSeq(l) == \E S : l \in Seq(S)

LogOK(l) == IsSeq(l) /\ \A i \in 1 .. Len(l) : l[i].at \in Int

\* i is the last event of l that latched the process.
IsLastLatch(l, i) ==
    /\ i \in 1 .. Len(l) /\ l[i].latches # "no"
    /\ \A j \in 1 .. Len(l) : l[j].latches # "no" => j <= i

\* The latch of s is the one l ended with: still set, at the time of the event
\* that set it last, or lifted by an event more than BlockTTL after that one.
Latched(l, s) ==
    \A i \in 1 .. Len(l) : IsLastLatch(l, i) =>
        IF s.blocked THEN s.blockedAt = l[i].at
        ELSE BlockTTL > 0 /\ \E k \in i + 1 .. Len(l) : l[k].at - l[i].at > BlockTTL

\* OneActionPerTTL for the events l of one process.
OncePerTTL(l) ==
    \A j \in DOMAIN l : l[j].latches = "window" =>
        LET before == {i \in 1 .. j - 1 : l[i].latches # "no"}
            latch == Max(before)
        IN  before # {} =>
                /\ BlockTTL > 0
                /\ \E k \in latch + 1 .. j : l[k].at - l[latch].at > BlockTTL

\* A sequence of anything, one longer.
LEMMA AppendAny ==
    ASSUME NEW l, NEW e, IsSeq(l)
    PROVE  LET m == Append(l, e)
           IN  /\ IsSeq(m)
               /\ Len(l) \in Nat /\ Len(m) = Len(l) + 1
               /\ DOMAIN l = 1 .. Len(l) /\ DOMAIN m = 1 .. Len(m)
               /\ \A i \in 1 .. Len(l) : m[i] = l[i]
               /\ m[Len(l) + 1] = e
<1>1. PICK R : l \in Seq(R)
  BY DEF IsSeq
<1>2. PICK S : S = R \cup {e}
  BY Zenon
<1>3. l \in Seq(S) /\ e \in S
  BY <1>1, <1>2
<1>4. Append(l, e) \in Seq(S)
  BY <1>3
<1>5. IsSeq(Append(l, e))
  BY <1>4 DEF IsSeq
<1> QED
  BY <1>3, <1>5

\* One more event through the window: it latches, it leaves the latch alone, or
\* it lifts one that is over; and the window latches only when no latch holds.
LEMMA AppendLatched ==
    ASSUME NEW l, NEW b, NEW s, NEW at \in Int, NEW e, NEW la,
           LogOK(l), OncePerTTL(l), StateOK(b), StateOK(s), Latched(l, b),
           la = "window" => ~StateBlocked(b, at),
           \/ la # "no" /\ s.blocked /\ s.blockedAt = at
           \/ la = "no" /\ s.blocked = b.blocked /\ s.blockedAt = b.blockedAt
           \/ la = "no" /\ ~StateBlocked(b, at) /\ ~s.blocked
    PROVE  LET m == Append(l, [at |-> at, entry |-> e, latches |-> la])
           IN  LogOK(m) /\ OncePerTTL(m) /\ Latched(m, s)
<1> DEFINE r == [at |-> at, entry |-> e, latches |-> la]
           m == Append(l, r)
           n == Len(l)
<1>0. r.at = at /\ r.latches = la
  OBVIOUS
<1> HIDE DEF r
<1>1. /\ IsSeq(m) /\ n \in Nat /\ Len(m) = n + 1
      /\ DOMAIN l = 1 .. n /\ DOMAIN m = 1 .. n + 1
      /\ \A i \in 1 .. n : m[i] = l[i]
      /\ m[n + 1] = r
  BY AppendAny DEF LogOK
<1>2. \A i \in 1 .. n : l[i].at \in Int
  BY DEF LogOK
<1> HIDE DEF m, n
<1>3. LogOK(m)
  BY <1>0, <1>1, <1>2 DEF LogOK
\* A latch that no longer holds was lifted, or this event is late enough.
<1>4. ASSUME ~StateBlocked(b, at), NEW i \in 1 .. n, IsLastLatch(l, i)
      PROVE  BlockTTL > 0 /\ \E k \in i + 1 .. n + 1 : m[k].at - m[i].at > BlockTTL
  <2>1. CASE b.blocked
    <3>1. b.blockedAt = l[i].at
      BY <1>1, <1>4, <2>1 DEF Latched, n
    <3>2. BlockTTL # 0 /\ at - b.blockedAt > BlockTTL
      BY <1>4, <2>1, PolicyAssumption DEF StateBlocked, StateOK
    <3>3. m[n + 1].at - m[i].at > BlockTTL
      BY <1>0, <1>1, <3>1, <3>2
    <3>4. n + 1 \in i + 1 .. n + 1
      BY <1>1
    <3> QED
      BY <3>2, <3>3, <3>4, PolicyAssumption
  <2>2. CASE ~b.blocked
    <3>1. BlockTTL > 0 /\ \E k \in i + 1 .. n : l[k].at - l[i].at > BlockTTL
      BY <1>1, <1>4, <2>2 DEF Latched, n
    <3> QED
      BY <1>1, <3>1
  <2> QED
    BY <2>1, <2>2
<1>5. OncePerTTL(m)
  <2> SUFFICES ASSUME NEW j \in 1 .. n + 1, m[j].latches = "window",
                      {i \in 1 .. j - 1 : m[i].latches # "no"} # {}
               PROVE  LET latch == Max({i \in 1 .. j - 1 : m[i].latches # "no"})
                      IN  /\ BlockTTL > 0
                          /\ \E k \in latch + 1 .. j : m[k].at - m[latch].at > BlockTTL
    BY <1>1, Zenon DEF OncePerTTL
  <2> DEFINE before == {i \in 1 .. j - 1 : m[i].latches # "no"}
  <2>1. PICK p \in 1 .. j - 1 : p = Max(before) /\ p \in before /\ \A i \in before : i <= p
    <3>1. before \in SUBSET (0 .. n) /\ before # {} /\ before \subseteq 1 .. j - 1
      BY <1>1
    <3> HIDE DEF before
    <3> QED
      BY <1>1, <3>1, MaxIsGreatest, Zenon
  <2>2. p \in 1 .. n /\ l[p].latches # "no" /\ \A i \in 1 .. j - 1 : l[i].latches # "no" => i <= p
    BY <1>1, <2>1
  <2> SUFFICES BlockTTL > 0 /\ \E k \in p + 1 .. j : m[k].at - m[p].at > BlockTTL
    BY <2>1, Zenon
  <2>3. CASE j \in 1 .. n
    <3>1. l[j].latches = "window"
      BY <1>1, <2>3
    <3>2. before = {i \in 1 .. j - 1 : l[i].latches # "no"}
      BY <1>1, <2>3
    <3>3. BlockTTL > 0 /\ \E k \in p + 1 .. j : l[k].at - l[p].at > BlockTTL
      BY <1>1, <2>1, <2>3, <3>1, <3>2, Zenon DEF OncePerTTL
    <3> QED
      BY <1>1, <2>2, <2>3, <3>3
  <2>4. CASE j = n + 1
    <3>1. la = "window"
      BY <1>0, <1>1, <2>4
    <3>2. IsLastLatch(l, p)
      BY <1>1, <2>2, <2>4 DEF IsLastLatch, n
    <3> QED
      BY <1>4, <2>2, <2>4, <3>1, <3>2
  <2> QED
    BY <1>1, <2>3, <2>4
<1>6. Latched(m, s)
  <2> SUFFICES ASSUME NEW i \in 1 .. n + 1, IsLastLatch(m, i)
               PROVE  IF s.blocked THEN s.blockedAt = m[i].at
                      ELSE BlockTTL > 0 /\ \E k \in i + 1 .. n + 1 : m[k].at - m[i].at > BlockTTL
    BY <1>1 DEF Latched
  <2>1. CASE la # "no"
    <3>1. i = n + 1
      BY <1>0, <1>1, <2>1 DEF IsLastLatch
    <3> QED
      BY <1>0, <1>1, <2>1, <3>1
  <2>2. CASE la = "no"
    <3>1. i \in 1 .. n
      BY <1>0, <1>1, <2>2 DEF IsLastLatch
    <3>2. IsLastLatch(l, i)
      BY <1>1, <3>1 DEF IsLastLatch, n
    <3>3. CASE ~StateBlocked(b, at) /\ ~s.blocked
      BY <1>4, <3>1, <3>2, <3>3
    <3>4. CASE s.blocked = b.blocked /\ s.blockedAt = b.blockedAt
      <4>1. IF b.blocked THEN b.blockedAt = l[i].at
            ELSE BlockTTL > 0 /\ \E k \in i + 1 .. n : l[k].at - l[i].at > BlockTTL
        BY <3>1, <3>2 DEF Latched, n
      <4> QED
        BY <1>1, <3>1, <3>4, <4>1
    <3> QED
      BY <2>2, <3>3, <3>4
  <2> QED
    BY <2>1, <2>2
<1> QED
  BY <1>3, <1>5, <1>6 DEF m, r

-----------------------------------------------------------------------------
(* The handlers that take an event through the window *)

\* The inductive invariant: windows and events of a process agree on its latch.
IInv ==
    /\ clock \in Int
    /\ DOMAIN procs = Tgids /\ DOMAIN log = Tgids
    /\ \A t \in Tgids :
        /\ LogOK(log[t]) /\ OncePerTTL(log[t])
        /\ IF procs[t] = NoState THEN log[t] = <<>>
           ELSE StateOK(procs[t]) /\ Latched(log[t], procs[t])

\* What an event at time at may do to the latch of b, recorded as la.
Moved(b, s, at, la) ==
    /\ la = "window" => ~StateBlocked(b, at)
    /\ \/ la # "no" /\ s.blocked /\ s.blockedAt = at
       \/ la = "no" /\ s.blocked = b.blocked /\ s.blockedAt = b.blockedAt
       \/ la = "no" /\ ~StateBlocked(b, at) /\ ~s.blocked

\* The policy and all its rules deny or kill.
Enforcing == Action # "log" /\ \A k \in 1 .. Len(Rules) : Rules[k].action # "log"

\* The event leaves process t with the window s.
WindowStep(t, b, s, at, e, la) ==
    /\ StateOK(s) /\ Moved(b, s, at, la)
    /\ Enforcing /\ s.score >= Threshold => s.blocked
    /\ procs' = [procs EXCEPT ![t] = s]
    /\ log' = [log EXCEPT ![t] = Append(log[t], [at |-> at, entry |-> e, latches |-> la])]

\* The window an event finds is the one the process had, or a new one.
LEMMA StateOfOK ==
    ASSUME IInv, NEW ev, ev.tgid \in Tgids, NEW at \in Int
    PROVE  StateOK(StateOf(ev, at)) /\ Latched(log[ev.tgid], StateOf(ev, at))
<1>1. CASE procs[ev.tgid] = NoState
  <2>1. StateOf(ev, at) = NewState(at)
    BY <1>1 DEF StateOf
  <2>2. StateOK(NewState(at))
    BY DEF StateOK, StateFields, NewState, NoTime
  <2>3. log[ev.tgid] = <<>>
    BY <1>1 DEF IInv
  <2> QED
    BY <2>1, <2>2, <2>3 DEF Latched
<1>2. CASE procs[ev.tgid] # NoState
  <2>1. StateOf(ev, at) = [procs[ev.tgid] EXCEPT !.lastSeen = at]
    BY <1>2 DEF StateOf
  <2>2. StateOK(procs[ev.tgid]) /\ Latched(log[ev.tgid], procs[ev.tgid])
    BY <1>2 DEF IInv
  <2>3. Keeps(procs[ev.tgid], StateOf(ev, at))
    BY <2>1, <2>2 DEF StateOK, Keeps, StateFields, NewState
  <2> QED
    BY <2>2, <2>3 DEF Keeps, StateOK, Latched
<1> QED
  BY <1>1, <1>2

\* A window with the same latch is as blocked and as well formed.
LEMMA KeepsOK ==
    ASSUME NEW b, NEW s, NEW at, StateOK(b), Keeps(b, s)
    PROVE  StateOK(s) /\ (StateBlocked(s, at) <=> StateBlocked(b, at))
  BY DEF Keeps, StateOK, StateBlocked

\* handleInlineIOCBlock
LEMMA InlineWindowStep ==
    ASSUME IInv, NEW ev, ev.tgid \in Tgids, NEW at \in Int, HandleInlineIOCBlock(ev, at)
    PROVE  \E s, e, la : WindowStep(ev.tgid, StateOf(ev, at), s, at, e, la)
<1> DEFINE b == StateOf(ev, at)
           s == Prune(b, at)
           u == Unlatch(s, at)
<1>1. StateOK(b)
  BY StateOfOK
<1> HIDE DEF b
<1>2. Keeps(b, s)
  BY <1>1, PruneKeeps DEF StateOK
<1> HIDE DEF s
<1>3. StateOK(s) /\ (StateBlocked(s, at) <=> StateBlocked(b, at))
  BY <1>1, <1>2, KeepsOK
<1>4. CASE StateBlocked(s, at)
  <2>1. procs' = [procs EXCEPT ![ev.tgid] = s]
    BY <1>4 DEF HandleInlineIOCBlock, b, s
  <2>2. log' = [log EXCEPT ![ev.tgid] =
                  Append(log[ev.tgid], [at |-> at, entry |-> NoEntry, latches |-> "no"])]
    BY <1>4 DEF HandleInlineIOCBlock, Logged, b, s
  <2>3. s.blocked /\ Moved(b, s, at, "no")
    BY <1>2, <1>4 DEF Moved, Keeps, StateBlocked
  <2> QED
    BY <1>3, <2>1, <2>2, <2>3, Zenon DEF WindowStep, b
<1>5. CASE ~StateBlocked(s, at)
  <2> DEFINE r == Latch(Raise(u), ev.action, at)
  <2>1. StateOK(u)
    BY <1>3, LatchKeeps
  <2>2. Keeps(u, Raise(u))
    BY <2>1, WindowKeeps DEF StateOK
  <2>3. StateOK(Raise(u))
    BY <2>1, <2>2, KeepsOK
  <2>4. ev.action # "log"
    BY DEF HandleInlineIOCBlock
  <2>5. StateOK(r) /\ r.blocked /\ r.blockedAt = at
    BY <2>3, <2>4, LatchKeeps
  <2>6. procs' = [procs EXCEPT ![ev.tgid] = r]
    BY <1>5 DEF HandleInlineIOCBlock, b, s
  <2>7. log' = [log EXCEPT ![ev.tgid] =
                  Append(log[ev.tgid], [at |-> at, entry |-> NoEntry, latches |-> "indicator"])]
    BY <1>5 DEF HandleInlineIOCBlock, Logged, b, s
  <2> HIDE DEF r, u
  <2> QED
    BY <2>5, <2>6, <2>7, Zenon DEF WindowStep, Moved, b
<1> QED
  BY <1>4, <1>5

\* handleIOC
LEMMA IOCWindowStep ==
    ASSUME IInv, NEW ev, ev.tgid \in Tgids, NEW at \in Int, NEW fds, HandleIOC(ev, fds, at)
    PROVE  \E s, e, la : WindowStep(ev.tgid, StateOf(ev, at), s, at, e, la)
<1> DEFINE b == StateOf(ev, at)
           p == Prune(b, at)
           f == RecordFeatures(p, ev, FdPath(fds, ev.tgid, ev.fd))
           r == Latch(Raise(f), Action, at)
           la == IF Action = "log" THEN "no" ELSE "indicator"
<1>1. StateOK(b)
  BY StateOfOK
<1>2. procs' = [procs EXCEPT ![ev.tgid] = r]
  BY DEF HandleIOC
<1>3. log' = [log EXCEPT ![ev.tgid] =
                Append(log[ev.tgid], [at |-> at, entry |-> NoEntry, latches |-> la])]
  BY DEF HandleIOC, Logged
<1> HIDE DEF b, la
<1>4. Keeps(b, p)
  BY <1>1, PruneKeeps DEF StateOK
<1> HIDE DEF p
<1>5. Keeps(p, f)
  BY <1>1, <1>4, WindowKeeps DEF StateOK, Keeps
<1> HIDE DEF f
<1>6. Keeps(f, Raise(f))
  BY <1>1, <1>4, <1>5, WindowKeeps DEF StateOK, Keeps
<1>7. Keeps(b, Raise(f))
  BY <1>4, <1>5, <1>6 DEF Keeps
<1>8. StateOK(Raise(f))
  BY <1>1, <1>7, KeepsOK
<1>9. /\ StateOK(r)
      /\ Action = "log" => r = Raise(f)
      /\ Action # "log" => r.blocked /\ r.blockedAt = at
  BY <1>8, LatchKeeps
<1> HIDE DEF r
<1>10. Moved(b, r, at, la)
  BY <1>7, <1>9 DEF Moved, Keeps, la
<1> QED
  BY <1>2, <1>3, <1>9, <1>10, Zenon DEF WindowStep, Enforcing, b

\* The window with a scored event added has the latch it had.
LEMMA AccumulateKeeps ==
    ASSUME NEW ev, NEW at, NEW fds, DOMAIN StateOf(ev, at) = StateFields
    PROVE  Keeps(StateOf(ev, at), Accumulate(ev, fds, at))
<1>1. PICK p : p = Prune(StateOf(ev, at), at)
  OBVIOUS
<1>2. Keeps(StateOf(ev, at), p)
  BY <1>1, PruneKeeps
<1>3. PICK f : f = RecordFeatures(p, ev, FdPath(fds, ev.tgid, ev.fd))
  OBVIOUS
<1>4. Keeps(p, f)
  BY <1>2, <1>3, WindowKeeps DEF Keeps
<1>5. PICK a : a = AddScore(f, ev, ScoreOf(ev, fds))
  OBVIOUS
<1>6. Keeps(f, a)
  <2>1. DOMAIN f = StateFields
    BY <1>2, <1>4 DEF Keeps
  <2> QED
    BY <1>5, <2>1, WindowKeeps
<1>7. PICK e : e = HistoryEvent(ev, at, ScoreOf(ev, fds), FdPath(fds, ev.tgid, ev.fd))
  OBVIOUS
<1>8. Accumulate(ev, fds, at) = AppendHistory(a, e)
  BY <1>1, <1>3, <1>5, <1>7 DEF Accumulate
<1>9. Keeps(a, AppendHistory(a, e))
  BY <1>2, <1>4, <1>6, WindowKeeps DEF Keeps
<1> QED
  BY <1>2, <1>4, <1>6, <1>8, <1>9 DEF Keeps

\* The scored event: decision and latch.
LEMMA ScoreWindowStep ==
    ASSUME IInv, NEW ev, ev.tgid \in Tgids, NEW at \in Int, NEW fds, ScoreEvent(ev, fds, at)
    PROVE  \E s, e, la : WindowStep(ev.tgid, StateOf(ev, at), s, at, e, la)
<1>1. PICK b : b = StateOf(ev, at)
  OBVIOUS
<1>2. PICK s : s = Accumulate(ev, fds, at)
  OBVIOUS
<1>3. PICK d : d = Decide(s, at)
  OBVIOUS
<1>4. PICK u : u = Unlatch(s, at)
  OBVIOUS
<1>5. PICK la : la = IF d.action \in {"deny", "kill"} THEN "window" ELSE "no"
  OBVIOUS
<1>6. PICK e : e = HistoryEvent(ev, at, ScoreOf(ev, fds), FdPath(fds, ev.tgid, ev.fd))
  OBVIOUS
<1>7. log' = [log EXCEPT ![ev.tgid] =
                Append(log[ev.tgid], [at |-> at, entry |-> e, latches |-> la])]
  BY <1>2, <1>3, <1>5, <1>6 DEF ScoreEvent, Logged
<1>8. \/ d.verdict = "none" /\ procs' = [procs EXCEPT ![ev.tgid] = u]
      \/ d.verdict # "none" /\ procs' = [procs EXCEPT ![ev.tgid] = Latch(u, d.action, at)]
  BY <1>2, <1>3, <1>4 DEF ScoreEvent
<1>9. StateOK(b) /\ Keeps(b, s)
  BY <1>1, <1>2, StateOfOK, AccumulateKeeps DEF StateOK
<1>10. StateOK(s) /\ (StateBlocked(s, at) <=> StateBlocked(b, at))
  BY <1>9, KeepsOK
<1>11. /\ StateOK(u) /\ (StateBlocked(s, at) => u = s)
       /\ (~StateBlocked(s, at) => ~u.blocked) /\ u.score = s.score
  BY <1>4, <1>10, LatchKeeps, Zenon DEF Unlatch, StateOK, StateFields, NewState
<1>12. CASE d.verdict = "none"
  <2>1. d.action = "none" /\ (StateBlocked(s, at) \/ ~(s.score >= Threshold))
    BY <1>3, <1>12, DecideResult
  <2>2. la = "no"
    BY <1>5, <2>1
  <2>3. Moved(b, u, at, "no")
    BY <1>9, <1>10, <1>11 DEF Moved, Keeps
  <2>4. u.score >= Threshold => u.blocked
    BY <1>11, <2>1 DEF StateBlocked
  <2>5. procs' = [procs EXCEPT ![ev.tgid] = u]
    BY <1>8, <1>12
  <2> QED
    BY <1>1, <1>7, <1>11, <2>2, <2>3, <2>4, <2>5, Zenon DEF WindowStep
<1>13. CASE d.verdict # "none"
  <2>1. PICK r : r = Latch(u, d.action, at)
    OBVIOUS
  <2>2. /\ ~StateBlocked(s, at)
        /\ d.action = Action \/ \E k \in 1 .. Len(Rules) : d.action = Rules[k].action
    BY <1>3, <1>13, DecideResult
  <2>3. procs' = [procs EXCEPT ![ev.tgid] = r]
    BY <1>8, <1>13, <2>1
  <2>4. d.action \in {"log", "deny", "kill"} /\ (Enforcing => d.action # "log")
    BY <2>2, PolicyAssumption, RulesAssumption DEF Enforcing
  <2>5. /\ StateOK(r)
        /\ d.action = "log" => r = u
        /\ d.action # "log" => r.blocked /\ r.blockedAt = at
    BY <1>11, <2>1, LatchKeeps
  <2>6. Moved(b, r, at, la)
    BY <1>5, <1>10, <1>11, <2>2, <2>4, <2>5 DEF Moved
  <2>7. Enforcing => r.blocked
    BY <2>4, <2>5
  <2> QED
    BY <1>1, <1>7, <2>3, <2>5, <2>6, <2>7, Zenon DEF WindowStep
<1> QED
  BY <1>12, <1>13

-----------------------------------------------------------------------------
(* Steps and theorems *)

\* What handle does to windows, events and marks: the event of some process
\* went through its window, or no window was touched.
LEMMA HandleStep ==
    ASSUME IInv, NEW ev \in Events, NEW at \in Int, Handle(ev, at)
    PROVE  /\ \/ UNCHANGED <<procs, log>>
              \/ \E t \in Tgids : \E b, s, e, la :
                    StateOK(b) /\ Latched(log[t], b) /\ WindowStep(t, b, s, at, e, la)
           /\ clock' = clock
<1>1. clock' = clock
  BY DEF Handle
<1>2. CASE HandleInlineIOCBlock(ev, at)
  BY <1>1, <1>2, EventsAssumption, InlineWindowStep, StateOfOK
<1>3. CASE LogBlock(ev) \/ DropCompletion(ev)
  BY <1>1, <1>3 DEF LogBlock, DropCompletion, NoWindow
<1>4. ASSUME NEW seen, NEW fds, seen.tgid \in Tgids,
             \/ StopEarly(seen, fds) \/ KillLineage(seen, fds) \/ EnforceBlacklist(seen, fds)
             \/ SkipTrusted(seen, fds, at) \/ IgnoreUnscored(seen, fds, at)
             \/ HandleIOC(seen, fds, at) \/ ScoreEvent(seen, fds, at)
      PROVE  \/ UNCHANGED <<procs, log>>
             \/ \E t \in Tgids : \E b, s, e, la :
                    StateOK(b) /\ Latched(log[t], b) /\ WindowStep(t, b, s, at, e, la)
  <2>1. CASE HandleIOC(seen, fds, at)
    BY <1>4, <2>1, IOCWindowStep, StateOfOK, Zenon
  <2>2. CASE ScoreEvent(seen, fds, at)
    BY <1>4, <2>2, ScoreWindowStep, StateOfOK
  <2>3. CASE \/ StopEarly(seen, fds) \/ KillLineage(seen, fds) \/ EnforceBlacklist(seen, fds)
             \/ SkipTrusted(seen, fds, at) \/ IgnoreUnscored(seen, fds, at)
    BY <2>3 DEF StopEarly, KillLineage, EnforceBlacklist, SkipTrusted, IgnoreUnscored, NoWindow
  <2> QED
    BY <1>4, <2>1, <2>2, <2>3, Zenon
<1>5. Resolved(ev).tgid \in Tgids
  BY EventsAssumption DEF Resolved
<1> QED
  BY <1>1, <1>2, <1>3, <1>4, <1>5, Zenon DEF Handle

\* The log of a process without events.
LEMMA EmptyLog == LogOK(<<>>) /\ OncePerTTL(<<>>)
<1>1. IsSeq(<<>>) /\ Len(<<>>) = 0 /\ DOMAIN <<>> = {}
  BY DEF IsSeq
<1> QED
  BY <1>1 DEF LogOK, OncePerTTL

\* The invariant holds at the start.
LEMMA InitIInv == Init => IInv
<1> SUFFICES ASSUME Init PROVE IInv
  OBVIOUS
<1> QED
  BY EmptyLog, PolicyAssumption DEF Init, IInv

\* Every step keeps the invariant.
LEMMA NextIInv == IInv /\ [Next]_vars => IInv'
<1> SUFFICES ASSUME IInv, [Next]_vars PROVE IInv'
  OBVIOUS
<1>1. CASE UNCHANGED <<procs, log, clock>>
  BY <1>1 DEF IInv
<1>2. ASSUME NEW ev \in Events, NEW at \in clock - Lag .. clock, Handle(ev, at)
      PROVE  IInv'
  <2>1. at \in Int
    BY PolicyAssumption DEF IInv
  <2>2. CASE UNCHANGED <<procs, log>>
    BY <1>1, <1>2, <2>1, <2>2, HandleStep
  <2>3. ASSUME NEW t \in Tgids, NEW b, NEW s, NEW e, NEW la,
               StateOK(b), Latched(log[t], b), WindowStep(t, b, s, at, e, la)
        PROVE  IInv'
    <3>1. PICK m : m = Append(log[t], [at |-> at, entry |-> e, latches |-> la])
      BY Zenon
    <3>2. LogOK(m) /\ OncePerTTL(m) /\ Latched(m, s) /\ StateOK(s)
      BY <2>1, <2>3, <3>1, AppendLatched, Zenon DEF IInv, WindowStep, Moved
    <3>3. s # NoState
      BY <3>2 DEF StateOK, StateFields, NewState, NoState
    <3>4. procs' = [procs EXCEPT ![t] = s] /\ log' = [log EXCEPT ![t] = m]
      BY <2>3, <3>1 DEF WindowStep
    <3>5. clock' = clock
      BY <1>2 DEF Handle
    <3> QED
      BY <3>2, <3>3, <3>4, <3>5 DEF IInv
  <2> QED
    BY <1>2, <2>1, <2>2, <2>3, HandleStep
<1>3. CASE Tick
  <2>1. clock' \in Int
    BY <1>3 DEF Tick, IInv
  <2>2. UNCHANGED <<procs, log>>
    BY <1>3 DEF Tick
  <2> QED
    BY <2>1, <2>2, Zenon DEF IInv
<1>4. CASE PruneIdle
  <2>1. LogOK(<<>>) /\ OncePerTTL(<<>>)
    BY EmptyLog
  <2>2. \A t \in Tgids : \/ procs'[t] = NoState /\ log'[t] = <<>>
                         \/ procs'[t] = procs[t] /\ log'[t] = log[t]
    BY <1>4, Zenon DEF PruneIdle
  <2>3. clock' = clock /\ DOMAIN procs' = Tgids /\ DOMAIN log' = Tgids
    BY <1>4 DEF PruneIdle
  <2> QED
    BY <2>1, <2>2, <2>3, Zenon DEF IInv
<1> QED
  BY <1>1, <1>2, <1>3, <1>4 DEF Next, vars

\* The inductive invariant is an invariant of the detector.
THEOREM Invariance == Spec => []IInv
  BY InitIInv, NextIInv, PTL DEF Spec

\* Once a process is latched, rules and threshold act on it again only after an
\* event more than BlockTTL later than the one that latched it: handle with
\* stateBlocked, prune, rebuildWindow, handleIOC and handleInlineIOCBlock.
THEOREM LatchLasts == Spec => []OneActionPerTTL
<1>1. IInv => OneActionPerTTL
  BY DEF IInv, OneActionPerTTL, OncePerTTL
<1> QED
  BY <1>1, Invariance, PTL

\* When the policy and its rules deny or kill, a process whose score has
\* reached the threshold is latched as blocked after every event and every
\* cleaning.
THEOREM ThresholdLatches ==
    ASSUME Enforcing
    PROVE  Spec => []ThresholdBlocks
<1>1. Init => ThresholdBlocks
  BY DEF Init, ThresholdBlocks
<1>2. IInv /\ ThresholdBlocks /\ [Next]_vars => ThresholdBlocks'
  <2> SUFFICES ASSUME IInv, ThresholdBlocks, [Next]_vars PROVE ThresholdBlocks'
    OBVIOUS
  <2>1. CASE UNCHANGED procs
    BY <2>1 DEF ThresholdBlocks
  <2>2. ASSUME NEW ev \in Events, NEW at \in clock - Lag .. clock, Handle(ev, at)
        PROVE  ThresholdBlocks'
    <3>1. at \in Int
      BY PolicyAssumption DEF IInv
    <3>2. ASSUME NEW t \in Tgids, NEW b, NEW s, NEW e, NEW la, WindowStep(t, b, s, at, e, la)
          PROVE  ThresholdBlocks'
      BY <3>2, Enforcing, Zenon DEF WindowStep, ThresholdBlocks, IInv
    <3> QED
      BY <2>1, <2>2, <3>1, <3>2, HandleStep
  <2>3. CASE Tick
    BY <2>1, <2>3 DEF Tick
  <2>4. CASE PruneIdle
    BY <2>4, Zenon DEF PruneIdle, ThresholdBlocks
  <2> QED
    BY <2>1, <2>2, <2>3, <2>4 DEF Next, vars
<1> QED
  BY <1>1, <1>2, Invariance, PTL DEF Spec

-----------------------------------------------------------------------------
(* Marks *)

\* What holds of a mark and the kernel's map in a run that is dry or live.
Backed(dry, marks, map) ==
    /\ DOMAIN marks = Tgids /\ DOMAIN map = Tgids
    /\ \A t \in Tgids : IF dry THEN map[t] = "none" ELSE marks[t] # NoTime => map[t] # "none"

\* The marks an exec asked for are among those there were.
LEMMA MarksBacked ==
    ASSUME NEW ev, Backed(dryRun, blocked, kernel)
    PROVE  Backed(dryRun, Marks(ev), kernel)
  BY DEF Backed, Marks

\* enforceTGID remembers a process only with its mark in the map.
LEMMA EnforceBacked ==
    ASSUME NEW t \in Tgids, NEW action, action # "none", NEW marks,
           dryRun \in BOOLEAN, Backed(dryRun, marks, kernel), EnforceTGID(t, action, marks)
    PROVE  Backed(dryRun, blocked', kernel')
<1>1. CASE ~dryRun /\ kernel' = [kernel EXCEPT ![t] = action] /\ blocked' = [marks EXCEPT ![t] = clock]
  BY <1>1 DEF Backed
<1>2. CASE blocked' = marks /\ kernel' = kernel
  BY <1>2
<1> QED
  BY <1>1, <1>2 DEF EnforceTGID

\* So does alertAndEnforce; a dry run leaves the map alone.
LEMMA AlertBacked ==
    ASSUME NEW t \in Tgids, NEW action, action # "none", NEW marks,
           dryRun \in BOOLEAN, Backed(dryRun, marks, kernel), AlertAndEnforce(t, action, marks)
    PROVE  Backed(dryRun, blocked', kernel')
<1>1. CASE action = "log" \/ dryRun
  <2>1. kernel' = kernel /\ (blocked' = marks \/ (dryRun /\ blocked' = [marks EXCEPT ![t] = clock]))
    BY <1>1 DEF AlertAndEnforce
  <2> QED
    BY <2>1 DEF Backed
<1>2. CASE ~(action = "log" \/ dryRun)
  BY <1>2, EnforceBacked DEF AlertAndEnforce
<1> QED
  BY <1>1, <1>2

\* Every step keeps marks and map in agreement.
LEMMA NextBacked ==
    ASSUME dryRun \in BOOLEAN, Backed(dryRun, blocked, kernel), [Next]_vars
    PROVE  dryRun' = dryRun /\ Backed(dryRun, blocked', kernel')
<1>1. CASE UNCHANGED <<dryRun, blocked, kernel>>
  BY <1>1
<1>2. ASSUME NEW ev \in Events, NEW at, Handle(ev, at)
      PROVE  dryRun' = dryRun /\ Backed(dryRun, blocked', kernel')
  <2>1. dryRun' = dryRun
    BY <1>2 DEF Handle
  <2>2. CASE HandleInlineIOCBlock(ev, at) \/ LogBlock(ev) \/ DropCompletion(ev)
    BY <1>1, <2>1, <2>2 DEF HandleInlineIOCBlock, LogBlock, DropCompletion, NoAlert
  <2>3. ASSUME NEW seen, NEW fds, seen.tgid \in Tgids,
               \/ StopEarly(seen, fds) \/ KillLineage(seen, fds) \/ EnforceBlacklist(seen, fds)
               \/ SkipTrusted(seen, fds, at) \/ IgnoreUnscored(seen, fds, at)
               \/ HandleIOC(seen, fds, at) \/ ScoreEvent(seen, fds, at)
        PROVE  Backed(dryRun, blocked', kernel')
    <3>1. Backed(dryRun, Marks(seen), kernel)
      BY MarksBacked
    <3>2. CASE StopEarly(seen, fds)
      BY <3>2 DEF StopEarly, NoAlert
    <3>3. CASE KillLineage(seen, fds)
      BY <2>3, <3>1, <3>3, EnforceBacked DEF KillLineage
    <3>4. CASE EnforceBlacklist(seen, fds)
      BY <2>3, <3>1, <3>4, EnforceBacked DEF EnforceBlacklist
    <3>5. CASE SkipTrusted(seen, fds, at) \/ IgnoreUnscored(seen, fds, at)
      BY <3>1, <3>5 DEF SkipTrusted, IgnoreUnscored
    <3>6. CASE HandleIOC(seen, fds, at)
      <4>1. AlertAndEnforce(seen.tgid, Action, Marks(seen))
        BY <3>6, Zenon DEF HandleIOC
      <4>2. Action # "none"
        BY PolicyAssumption
      <4> QED
        BY <2>3, <3>1, <4>1, <4>2, AlertBacked
    <3>7. CASE ScoreEvent(seen, fds, at)
      <4>1. PICK d : d = Decide(Accumulate(seen, fds, at), at)
        OBVIOUS
      <4>2. \/ blocked' = Marks(seen) /\ kernel' = kernel
            \/ d.verdict # "none" /\ AlertAndEnforce(seen.tgid, d.action, Marks(seen))
        BY <3>7, <4>1 DEF ScoreEvent
      <4>3. d.verdict # "none" => d.action \in {"log", "deny", "kill"}
        BY <4>1, DecideResult, PolicyAssumption, RulesAssumption, Zenon
      <4> QED
        BY <2>3, <3>1, <4>2, <4>3, AlertBacked
    <3> QED
      BY <2>3, <3>2, <3>3, <3>4, <3>5, <3>6, <3>7
  <2>4. Resolved(ev).tgid \in Tgids
    BY EventsAssumption DEF Resolved
  <2> QED
    BY <1>2, <2>1, <2>2, <2>3, <2>4 DEF Handle
<1>3. CASE Tick
  BY <1>1, <1>3 DEF Tick
<1>4. CASE PruneIdle
  BY <1>4, Zenon DEF PruneIdle, Backed
<1> QED
  BY <1>1, <1>2, <1>3, <1>4 DEF Next, vars

\* A process is remembered as blocked only when its mark is in the kernel's
\* map, and a dry run marks nobody: enforceTGID with its failing update,
\* alertAndEnforce, isBlocked and pruneIdle.
THEOREM MarkedWhenRemembered == Spec => []RememberedIsMarked
<1> DEFINE Inv == dryRun \in BOOLEAN /\ Backed(dryRun, blocked, kernel)
<1>1. Init => Inv
  BY PolicyAssumption DEF Init, Backed
<1>2. Inv /\ [Next]_vars => Inv'
  BY NextBacked
<1>3. Inv => RememberedIsMarked
  BY DEF Backed, RememberedIsMarked
<1> QED
  BY <1>1, <1>2, <1>3, PTL DEF Spec
===============================================================================
