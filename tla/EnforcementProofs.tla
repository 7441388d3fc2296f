--------------------------- MODULE EnforcementProofs ---------------------------
(***************************************************************************)
(* Proofs about Enforcement, for every set of processes and all lifetimes: *)
(* its type invariant, and that the agent forgets a block only after its   *)
(* time to live.                                                           *)
(***************************************************************************)
EXTENDS Enforcement, TLAPS

-----------------------------------------------------------------------------
(* The inductive invariant *)

Sets ==
    /\ alive \subseteq Tgids /\ expiring \subseteq Tgids /\ execs \subseteq Tgids
    /\ hashed \subseteq Tgids /\ todo \subseteq Tgids

MarksType == marks \in [Tgids -> [action : {"none", "deny", "kill"}, left : Lefts]]
BlockedType == blocked \in [Tgids -> Ages \cup {NoTime}]
LatchType == latch \in [Tgids -> Ages \cup {NoTime}]
IdleType == idle \in [Tgids -> Ages \cup {NoTime}]
QueueType == queue \in Seq(Tgids) /\ Len(queue) <= QueueSize
AskType == ask \in [tgid : Tgids \cup {0}, todo : Seq(Tgids), seen : Ages \cup {NoTime}]
JobType ==
    job \in [Goroutines -> [pc : {"idle", "uptime", "put", "remember", "signal"},
                            tgid : Tgids \cup {0}, action : {"none", "deny", "kill"},
                            left : Lefts]]

\* What the handler is about to drop it has found outlived, and it is the
\* entry of the process it asks for.
AskInv ==
    /\ ask.seen # NoTime => ask.todo # <<>> /\ Outlived(ask.seen)
    /\ ask # NoAsk => ask.tgid \in Tgids

\* A goroutine inside enforceTGID is there for a process.
JobInv == \A g \in Goroutines : job[g].pc # "idle" => job[g].tgid \in Tgids

Inv ==
    /\ Sets /\ MarksType /\ BlockedType /\ LatchType /\ IdleType
    /\ QueueType /\ AskType /\ JobType /\ AskInv /\ JobInv

-----------------------------------------------------------------------------
(* Facts about the parts *)

\* The type invariant is the invariant's typing part.
LEMMA InvImpliesTypeOK == Inv => TypeOK
  BY DEF Inv, TypeOK, Sets, MarksType, BlockedType, LatchType, IdleType, QueueType, AskType, JobType

\* Ages stay ages as the clock goes on, and an entry that is there stays there.
LEMMA OlderType ==
    \A a \in Ages \cup {NoTime} :
        /\ Older(a) \in Ages \cup {NoTime}
        /\ Older(a) = NoTime <=> a = NoTime
        /\ Outlived(a) => Outlived(Older(a))
  BY TTLAssumption DEF Older, Ages, NoTime, Cap, Outlived

\* So do the times left.
LEMMA ShorterType == \A l \in Lefts : Shorter(l) \in Lefts
  BY TTLAssumption DEF Shorter, Lefts, NoExpiry, Expired

\* Entering enforceTGID for a process keeps the goroutines' part.
LEMMA EnforceInv ==
    ASSUME NEW g \in Goroutines, NEW t \in Tgids, NEW a \in {"deny", "kill"},
           JobType, JobInv, Enforce(g, t, a)
    PROVE  JobType' /\ JobInv'
  BY DEF Enforce, JobType, JobInv, Lefts, NoExpiry

\* So does leaving it.
LEMMA FinishInv ==
    ASSUME NEW g \in Goroutines, JobType, JobInv, Finish(g)
    PROVE  JobType' /\ JobInv'
  BY DEF Finish, NoJob, JobType, JobInv, Lefts, NoExpiry

\* And an unchanged job.
LEMMA SameJob == JobType /\ JobInv /\ UNCHANGED job => JobType' /\ JobInv'
  BY DEF JobType, JobInv

\* The question of an idle handler is void.
LEMMA NoAskInv == ask' = NoAsk => AskType' /\ AskInv'
  BY DEF NoAsk, AskType, AskInv, NoTime, Ages

-----------------------------------------------------------------------------
(* Every step keeps the invariant *)

\* The steps of the handler up to enforceTGID.
LEMMA HandlerStep == Inv /\ Handler => Inv'
<1> SUFFICES ASSUME Inv, Handler PROVE Inv'
    OBVIOUS
<1> USE DEF Inv
<1>g. "handler" \in Goroutines /\ "worker" \in Goroutines /\ "scanner" \in Goroutines
    BY DEF Goroutines
<1>0. 0 \in Ages /\ NoTime \notin Ages
    BY TTLAssumption DEF Ages, Cap, NoTime
<1>1. ASSUME NEW t \in Tgids, HandleOffence(t) PROVE Inv'
  <2>1. JobType' /\ JobInv'
    <3>1. CASE Latched(t)
        BY <1>1, <3>1, SameJob DEF HandleOffence
    <3>2. CASE ~Latched(t)
        BY <1>1, <3>2, <1>g, EnforceInv, ProcessAssumption DEF HandleOffence
    <3> QED BY <3>1, <3>2
  <2>2. IdleType' /\ LatchType'
      BY <1>1, <1>0 DEF HandleOffence, IdleType, LatchType
  <2>3. Sets' /\ MarksType' /\ BlockedType' /\ QueueType' /\ AskType' /\ AskInv'
      BY <1>1 DEF HandleOffence, Sets, MarksType, BlockedType, QueueType, AskType, AskInv
  <2> QED BY <2>1, <2>2, <2>3
<1>2. ASSUME NEW t \in Tgids, HandleExec(t) PROVE Inv'
  <2>1. JobType' /\ JobInv'
      BY <1>2, SameJob DEF HandleExec
  <2>2. AskType' /\ AskInv'
      BY <1>2, ProcessAssumption DEF HandleExec, AskType, AskInv, NoTime
  <2>3. Sets' /\ MarksType' /\ BlockedType' /\ LatchType' /\ IdleType' /\ QueueType'
      BY <1>2 DEF HandleExec, Sets, MarksType, BlockedType, LatchType, IdleType, QueueType
  <2> QED BY <2>1, <2>2, <2>3
<1>3. CASE IsBlocked
  <2>1. ask # NoAsk /\ ask.tgid \in Tgids /\ Head(ask.todo) \in Tgids /\ Tail(ask.todo) \in Seq(Tgids)
      BY <1>3 DEF IsBlocked, AskType, AskInv, NoAsk
  <2>2. Sets' /\ MarksType' /\ BlockedType' /\ LatchType' /\ IdleType' /\ QueueType'
      BY <1>3 DEF IsBlocked, Sets, MarksType, BlockedType, LatchType, IdleType, QueueType
  <2>3. CASE blocked[Head(ask.todo)] = NoTime
    <3>1. ask' = [ask EXCEPT !.todo = Tail(@)] /\ UNCHANGED job
        BY <1>3, <2>3 DEF IsBlocked
    <3>2. AskType' /\ AskInv'
        BY Zenon, <1>3, <2>1, <3>1 DEF IsBlocked, AskType, AskInv
    <3> QED BY <2>2, <3>1, <3>2, SameJob
  <2>4. CASE blocked[Head(ask.todo)] # NoTime /\ Outlived(blocked[Head(ask.todo)])
    <3>1. ask' = [ask EXCEPT !.seen = blocked[Head(ask.todo)]] /\ UNCHANGED job
        BY <1>3, <2>4 DEF IsBlocked
    <3>2. AskType' /\ AskInv'
        BY <1>3, <2>1, <2>4, <3>1 DEF IsBlocked, AskType, AskInv, BlockedType
    <3> QED BY <2>2, <3>1, <3>2, SameJob
  <2>5. CASE blocked[Head(ask.todo)] # NoTime /\ ~Outlived(blocked[Head(ask.todo)])
    <3>1. ask' = NoAsk /\ Enforce("handler", ask.tgid, "kill")
        BY <1>3, <2>5 DEF IsBlocked
    <3> QED BY <1>g, <2>1, <2>2, <3>1, NoAskInv, EnforceInv
  <2> QED BY <2>3, <2>4, <2>5
<1>4. CASE DropOutlived
  <2>1. ask.todo # <<>> /\ ask # NoAsk /\ Head(ask.todo) \in Tgids /\ Tail(ask.todo) \in Seq(Tgids)
      BY <1>4 DEF DropOutlived, AskType, AskInv, NoAsk
  <2>2. BlockedType'
      BY <1>4, <2>1 DEF DropOutlived, Forget, BlockedType
  <2>3. AskType' /\ AskInv'
      BY Zenon, <1>4, <2>1 DEF DropOutlived, AskType, AskInv
  <2>4. JobType' /\ JobInv'
      BY <1>4, SameJob DEF DropOutlived
  <2>5. Sets' /\ MarksType' /\ LatchType' /\ IdleType' /\ QueueType'
      BY <1>4 DEF DropOutlived, Sets, MarksType, LatchType, IdleType, QueueType
  <2> QED BY <2>2, <2>3, <2>4, <2>5
<1>5. CASE CheckBlacklist
  <2>1. ask.tgid \in Tgids
      BY <1>5 DEF CheckBlacklist, AskInv
  <2>2. AskType' /\ AskInv'
      BY <1>5, NoAskInv DEF CheckBlacklist
  <2>3. JobType' /\ JobInv'
      BY <1>5, <1>g, <2>1, SameJob, EnforceInv DEF CheckBlacklist
  <2>4. QueueType'
      BY <1>5, <2>1, TTLAssumption DEF CheckBlacklist, Enqueue, QueueType
  <2>5. Sets' /\ MarksType' /\ BlockedType' /\ LatchType' /\ IdleType'
      BY <1>5 DEF CheckBlacklist, Sets, MarksType, BlockedType, LatchType, IdleType
  <2> QED BY <2>2, <2>3, <2>4, <2>5
<1>6. CASE PruneIdle
  <2>1. BlockedType' /\ LatchType' /\ IdleType'
      BY <1>6 DEF PruneIdle, BlockedType, LatchType, IdleType
  <2>2. JobType' /\ JobInv'
      BY <1>6, SameJob DEF PruneIdle
  <2>3. Sets' /\ MarksType' /\ QueueType' /\ AskType' /\ AskInv'
      BY <1>6 DEF PruneIdle, Sets, MarksType, QueueType, AskType, AskInv
  <2> QED BY <2>1, <2>2, <2>3
<1> QED BY <1>1, <1>2, <1>3, <1>4, <1>5, <1>6 DEF Handler

\* The steps of the hash worker and of the scanner up to enforceTGID.
LEMMA BlacklistStep == Inv /\ (WorkerHash \/ Scanner) => Inv'
<1> SUFFICES ASSUME Inv, WorkerHash \/ Scanner PROVE Inv'
    OBVIOUS
<1> USE DEF Inv
<1>g. "worker" \in Goroutines /\ "scanner" \in Goroutines
    BY DEF Goroutines
<1>1. CASE WorkerHash
  <2>1. Head(queue) \in Tgids /\ QueueType'
      BY <1>1, TTLAssumption DEF WorkerHash, QueueType
  <2>2. JobType' /\ JobInv'
      BY <1>1, <1>g, <2>1, SameJob, EnforceInv DEF WorkerHash
  <2>3. Sets'
      BY <1>1, <2>1 DEF WorkerHash, Sets
  <2>4. MarksType' /\ BlockedType' /\ LatchType' /\ IdleType' /\ AskType' /\ AskInv'
      BY <1>1 DEF WorkerHash, MarksType, BlockedType, LatchType, IdleType, AskType, AskInv
  <2> QED BY <2>1, <2>2, <2>3, <2>4
<1>2. CASE StartScan
  <2>1. JobType' /\ JobInv'
      BY <1>2, SameJob DEF StartScan
  <2>2. Sets' /\ MarksType' /\ BlockedType' /\ LatchType' /\ IdleType' /\ QueueType' /\ AskType' /\ AskInv'
      BY <1>2 DEF StartScan, Sets, MarksType, BlockedType, LatchType, IdleType, QueueType, AskType, AskInv
  <2> QED BY <2>1, <2>2
<1>3. ASSUME NEW t \in Tgids, ScanMatch(t) PROVE Inv'
  <2>1. JobType' /\ JobInv'
      BY <1>3, <1>g, EnforceInv DEF ScanMatch
  <2>2. Sets'
      BY <1>3 DEF ScanMatch, ScanMatches, Sets
  <2>3. MarksType' /\ BlockedType' /\ LatchType' /\ IdleType' /\ QueueType' /\ AskType' /\ AskInv'
      BY <1>3 DEF ScanMatch, MarksType, BlockedType, LatchType, IdleType, QueueType, AskType, AskInv
  <2> QED BY <2>1, <2>2, <2>3
<1>4. ASSUME NEW t \in Tgids, ScanPass(t) PROVE Inv'
  <2>1. JobType' /\ JobInv'
      BY <1>4, SameJob DEF ScanPass
  <2>2. Sets'
      BY <1>4 DEF ScanPass, Sets
  <2>3. MarksType' /\ BlockedType' /\ LatchType' /\ IdleType' /\ QueueType' /\ AskType' /\ AskInv'
      BY <1>4 DEF ScanPass, MarksType, BlockedType, LatchType, IdleType, QueueType, AskType, AskInv
  <2> QED BY <2>1, <2>2, <2>3
<1> QED BY <1>1, <1>2, <1>3, <1>4 DEF Scanner

\* The steps of enforceTGID.
LEMMA EnforceStep == ASSUME NEW g \in Goroutines, Inv, EnforceTGID(g) PROVE Inv'
<1> USE DEF Inv
<1>1. CASE ReadUptime(g)
  <2>1. JobType' /\ JobInv'
    <3> DEFINE left == IF BlockTTL > 0 THEN BlockTTL ELSE NoExpiry
    <3>1. left \in Lefts
        BY TTLAssumption DEF Lefts, NoExpiry, Expired
    <3>2. job' = [job EXCEPT ![g] = [job[g] EXCEPT !.pc = "put", !.left = left]]
        BY Zenon, <1>1 DEF ReadUptime, JobType
    <3>3. job[g].tgid \in Tgids
        BY <1>1 DEF ReadUptime, JobInv
    <3> HIDE DEF left
    <3> QED BY Zenon, <3>1, <3>2, <3>3 DEF JobType, JobInv
  <2>2. Sets' /\ MarksType' /\ BlockedType' /\ LatchType' /\ IdleType' /\ QueueType' /\ AskType' /\ AskInv'
      BY <1>1 DEF ReadUptime, Sets, MarksType, BlockedType, LatchType, IdleType, QueueType, AskType, AskInv
  <2> QED BY <2>1, <2>2
<1>2. CASE Put(g)
  <2>1. job[g].tgid \in Tgids
      BY <1>2 DEF Put, JobInv
  <2>2. JobType' /\ JobInv'
      BY <1>2, <2>1 DEF Put, JobType, JobInv
  <2>3. MarksType'
      BY <1>2, <2>1 DEF Put, JobType, MarksType
  <2>4. Sets' /\ BlockedType' /\ LatchType' /\ IdleType' /\ QueueType' /\ AskType' /\ AskInv'
      BY <1>2 DEF Put, Sets, BlockedType, LatchType, IdleType, QueueType, AskType, AskInv
  <2> QED BY <2>2, <2>3, <2>4
<1>3. CASE BlockFails(g)
  <2>1. JobType' /\ JobInv'
      BY <1>3, FinishInv DEF BlockFails
  <2>2. Sets' /\ MarksType' /\ BlockedType' /\ LatchType' /\ IdleType' /\ QueueType' /\ AskType' /\ AskInv'
      BY <1>3 DEF BlockFails, Sets, MarksType, BlockedType, LatchType, IdleType, QueueType, AskType, AskInv
  <2> QED BY <2>1, <2>2
<1>4. CASE RememberBlocked(g)
  <2>1. job[g].tgid \in Tgids
      BY <1>4 DEF RememberBlocked, JobInv
  <2>2. JobType' /\ JobInv'
    <3>1. CASE job' = [job EXCEPT ![g].pc = "signal"]
        BY <2>1, <3>1 DEF JobType, JobInv
    <3> QED BY <1>4, <3>1, FinishInv DEF RememberBlocked
  <2>3. BlockedType'
      BY <1>4, <2>1, TTLAssumption DEF RememberBlocked, BlockedType, Ages, Cap
  <2>4. Sets' /\ MarksType' /\ LatchType' /\ IdleType' /\ QueueType' /\ AskType' /\ AskInv'
      BY <1>4 DEF RememberBlocked, Sets, MarksType, LatchType, IdleType, QueueType, AskType, AskInv
  <2> QED BY <2>2, <2>3, <2>4
<1>5. CASE Signal(g)
  <2>1. JobType' /\ JobInv'
      BY <1>5, FinishInv DEF Signal
  <2>2. Sets' /\ MarksType' /\ BlockedType' /\ LatchType' /\ IdleType' /\ QueueType' /\ AskType' /\ AskInv'
      BY <1>5 DEF Signal, Sets, MarksType, BlockedType, LatchType, IdleType, QueueType, AskType, AskInv
  <2> QED BY <2>1, <2>2
<1> QED BY <1>1, <1>2, <1>3, <1>4, <1>5 DEF EnforceTGID

\* The steps of the processes and of the kernel for them.
LEMMA ProcessStep == ASSUME NEW t \in Tgids, Inv, Process(t) PROVE Inv'
<1> USE DEF Inv
<1>1. UNCHANGED agentVars
    BY DEF Process, LookUpMark, DeleteMark, Exec, Exit
<1>2. /\ BlockedType' /\ LatchType' /\ IdleType' /\ QueueType'
      /\ AskType' /\ AskInv' /\ JobType' /\ JobInv'
    BY <1>1 DEF agentVars, BlockedType, LatchType, IdleType, QueueType,
                AskType, AskInv, JobType, JobInv
<1>3. MarksType'
    BY DEF Process, LookUpMark, DeleteMark, Exec, Exit, MarksType, NoMark, Lefts
<1>4. Sets'
    BY <1>1 DEF Process, LookUpMark, DeleteMark, Exec, Exit, Sets, agentVars
<1> QED BY <1>2, <1>3, <1>4

\* The clock.
LEMMA TickStep == Inv /\ Tick => Inv'
<1> SUFFICES ASSUME Inv, Tick PROVE Inv'
    OBVIOUS
<1> USE DEF Inv
<1>1. MarksType'
    BY ShorterType DEF Tick, MarksType
<1>2. BlockedType' /\ LatchType' /\ IdleType'
    BY OlderType DEF Tick, BlockedType, LatchType, IdleType
<1>3. AskType' /\ AskInv'
  <2>1. /\ ask.seen \in Ages \cup {NoTime}
        /\ ask' = [ask EXCEPT !.seen = Older(ask.seen)]
      BY DEF Tick, AskType
  <2>2. AskType'
      BY <2>1, OlderType DEF AskType
  <2>3. ask'.seen # NoTime => ask'.todo # <<>> /\ Outlived(ask'.seen)
      BY <2>1, OlderType DEF AskType, AskInv
  <2>4. ask' # NoAsk => ask'.tgid \in Tgids
    <3>1. CASE ask = NoAsk
      <4>1. ask'.seen = NoTime
          BY <2>1, <3>1, OlderType DEF NoAsk, AskType
      <4>2. ask' = NoAsk
          BY <2>1, <3>1, <4>1 DEF NoAsk
      <4> QED BY <4>2
    <3>2. CASE ask # NoAsk
        BY <2>1, <3>2 DEF AskInv, AskType
    <3> QED BY <3>1, <3>2
  <2> QED BY <2>2, <2>3, <2>4 DEF AskInv
<1>4. JobType' /\ JobInv'
  <2>1. job' = [g \in Goroutines |-> [job[g] EXCEPT !.left = Shorter(job[g].left)]]
      BY Zenon DEF Tick
  <2>2. JobType'
      BY Zenon, <2>1, ShorterType DEF JobType
  <2>3. JobInv'
      BY Zenon, <2>1 DEF JobType, JobInv
  <2> QED BY Zenon, <2>2, <2>3
<1>5. Sets' /\ QueueType'
    BY DEF Tick, Sets, QueueType
<1> QED BY <1>1, <1>2, <1>3, <1>4, <1>5

-----------------------------------------------------------------------------
(* The theorems *)

\* The inductive invariant holds in every reachable state.
THEOREM Invariance == Spec => []Inv
<1>1. Init => Inv
  <2> SUFFICES ASSUME Init PROVE Inv
      OBVIOUS
  <2>1. AskType /\ AskInv
      BY DEF Init, NoAsk, AskType, AskInv, NoTime, Ages
  <2>2. JobType /\ JobInv
      BY DEF Init, NoJob, JobType, JobInv, Lefts
  <2>3. Sets /\ MarksType /\ BlockedType /\ LatchType /\ IdleType /\ QueueType
      BY TTLAssumption DEF Init, Sets, MarksType, BlockedType, LatchType, IdleType, QueueType, NoMark, Lefts
  <2> QED BY <2>1, <2>2, <2>3 DEF Inv
<1>2. Inv /\ [Next]_vars => Inv'
  <2>1. Inv /\ UNCHANGED vars => Inv'
      BY DEF Inv, vars, Sets, MarksType, BlockedType, LatchType, IdleType, QueueType,
             AskType, AskInv, JobType, JobInv
  <2> QED
      BY <2>1, HandlerStep, BlacklistStep, EnforceStep, ProcessStep, TickStep DEF Next
<1> QED BY <1>1, <1>2, PTL DEF Spec

\* The state keeps its type, and the hash queue its capacity.
THEOREM TypeCorrect == Spec => []TypeOK
  BY Invariance, InvImpliesTypeOK, PTL

\* No interleaving of isBlocked and pruneIdle with the goroutines that renew
\* marks lets the agent forget a block before its time to live is over.
THEOREM LineageMarksLast == Spec => LineageMarkLasts
<1> DEFINE Step == \A t \in Tgids :
        BlockTTL > 0 /\ blocked[t] # NoTime /\ blocked'[t] = NoTime => blocked[t] > BlockTTL
<1>1. Inv /\ [Next]_vars => Step
  <2> SUFFICES ASSUME Inv, [Next]_vars, NEW t \in Tgids,
                      BlockTTL > 0, blocked[t] # NoTime, blocked'[t] = NoTime
               PROVE  blocked[t] > BlockTTL
      OBVIOUS
  <2>0. blocked[t] \in Ages
      BY DEF Inv, BlockedType
  <2>1. CASE DropOutlived
    <3>1. t = Head(ask.todo) /\ blocked[t] = ask.seen
        BY <2>1 DEF DropOutlived, Forget, Inv, BlockedType
    <3> QED BY <2>1, <3>1 DEF DropOutlived, Inv, AskInv, Outlived
  <2>2. CASE PruneIdle
    <3>1. IsIdle(blocked[t])
        BY <2>2 DEF PruneIdle
    <3> QED BY <2>0, <3>1, TTLAssumption DEF IsIdle, Ages, Cap
  <2>3. ASSUME NEW g \in Goroutines, RememberBlocked(g) PROVE FALSE
    <3>1. blocked' = [blocked EXCEPT ![job[g].tgid] = 0]
        BY <2>3 DEF RememberBlocked
    <3>2. blocked'[t] \in {0, blocked[t]}
        BY <3>1 DEF Inv, BlockedType
    <3> QED BY <3>2 DEF NoTime
  <2>4. CASE Tick
      BY <2>0, <2>4, OlderType DEF Tick
  <2>5. CASE UNCHANGED blocked
      BY <2>5
  <2>6. Handler => DropOutlived \/ PruneIdle \/ UNCHANGED blocked
      BY DEF Handler, HandleOffence, HandleExec, IsBlocked, CheckBlacklist
  <2>7. WorkerHash \/ Scanner => UNCHANGED blocked
      BY DEF WorkerHash, Scanner, StartScan, ScanMatch, ScanPass
  <2>8. ASSUME NEW g \in Goroutines, EnforceTGID(g)
        PROVE  RememberBlocked(g) \/ UNCHANGED blocked
      BY <2>8 DEF EnforceTGID, ReadUptime, Put, BlockFails, Signal
  <2>9. ASSUME NEW u \in Tgids, Process(u) PROVE UNCHANGED blocked
      BY <2>9 DEF Process, LookUpMark, DeleteMark, Exec, Exit, agentVars
  <2>10. UNCHANGED vars => UNCHANGED blocked
      BY DEF vars
  <2> QED
      BY <2>1, <2>2, <2>3, <2>4, <2>5, <2>6, <2>7, <2>8, <2>9, <2>10 DEF Next
<1>2. Step => [Step]_vars
    OBVIOUS
<1> QED BY <1>1, <1>2, Invariance, PTL DEF Spec, LineageMarkLasts
===============================================================================
