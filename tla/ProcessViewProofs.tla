-------------------------- MODULE ProcessViewProofs --------------------------
(***************************************************************************)
(* PendingMatchesCall for any number of threads, descriptors and system     *)
(* calls and any size of the pending maps and of the ring buffer.           *)
(* Then the types of the events and the three kinds of steps the hooks      *)
(* take, for the proofs about what the agent makes of the events, of which  *)
(* the last part of the module is one: AttributionExact.                    *)
(***************************************************************************)
EXTENDS ProcessView, TLAPS

MaybePaths == Paths \cup {Untracked}
Entries == [fd : Int, path : MaybePaths]
Places == {"out", "in", "done", "dead"}
CallNames == {"none", "open", "dup", "close", "write", "exec"}
States == [at : Places, call : CallNames, fd : Int, new : Int, path : MaybePaths, id : Int]

TypeInv ==
    /\ calls \in Nat
    /\ thread \in [Threads -> States]
    /\ opens \in [Threads -> Entries]
    /\ dups \in [Threads -> Entries]
    /\ writes \in [Threads -> Entries]

\* PendingMatchesCall, for one thread.
Matches(t) ==
    /\ opens[t] # NoPending => thread[t].call = "open" /\ opens[t].path = thread[t].path
    /\ dups[t] # NoPending => thread[t].call = "dup" /\ dups[t].fd = thread[t].fd
    /\ writes[t] # NoPending => thread[t].call = "write" /\ writes[t].fd = thread[t].fd

IInv == TypeInv /\ \A t \in Threads : Matches(t)

-----------------------------------------------------------------------------
(* The pending maps *)

\* The values of a thread outside of calls and of a free slot.
LEMMA Values ==
    /\ Out \in States /\ Out.call = "none" /\ Dead \in States /\ Dead.call = "none"
    /\ NoPending \in Entries /\ NoPending.fd = -1 /\ None \in Int /\ Untracked \in MaybePaths
<1>1. None \in Int /\ None = -1 /\ Untracked \in MaybePaths
    BY DEF None, MaybePaths
<1>2. Out \in States /\ Out.call = "none"
    BY <1>1 DEF Out, States, Places, CallNames
<1>3. Dead \in States /\ Dead.call = "none"
    BY <1>2 DEF Dead, States, Places
<1>4. NoPending \in Entries /\ NoPending.fd = -1
    BY <1>1 DEF NoPending, Entries
<1> QED
    BY <1>1, <1>2, <1>3, <1>4

-----------------------------------------------------------------------------
\* Nothing is pending and nothing is counted at first.
LEMMA InitInv == ViewInit => IInv
<1> SUFFICES ASSUME ViewInit PROVE IInv
    OBVIOUS
<1>1. TypeInv
    BY Values DEF ViewInit, Init, TypeInv
<1>2. \A t \in Threads : Matches(t)
    BY DEF ViewInit, Init, Matches
<1> QED
    BY <1>1, <1>2 DEF IInv

\* Nothing the invariant speaks of changes.
LEMMA StutterInv ==
    ASSUME IInv, calls' \in Nat, UNCHANGED <<thread, opens, dups, writes>>
    PROVE  IInv'
<1>1. TypeInv' /\ \A t \in Threads : Matches(t)'
    BY DEF IInv, TypeInv, Matches
<1> QED
    BY <1>1 DEF IInv

\* A step of one thread changes nothing of the others.
LEMMA OtherThreads ==
    ASSUME IInv, NEW t \in Threads, NEW r, NEW o, NEW d, NEW w,
           thread' = [thread EXCEPT ![t] = r], opens' = [opens EXCEPT ![t] = o],
           dups' = [dups EXCEPT ![t] = d], writes' = [writes EXCEPT ![t] = w]
    PROVE  /\ \A u \in Threads \ {t} : Matches(u)'
           /\ thread'[t] = r /\ opens'[t] = o /\ dups'[t] = d /\ writes'[t] = w
<1>1. \A u \in Threads \ {t} : /\ thread'[u] = thread[u] /\ opens'[u] = opens[u]
                               /\ dups'[u] = dups[u] /\ writes'[u] = writes[u]
    BY DEF IInv, TypeInv
<1>2. \A u \in Threads \ {t} : Matches(u)'
    BY <1>1 DEF IInv, Matches
<1> QED
    BY <1>2 DEF IInv, TypeInv

\* One thread moves on; what it leaves in the maps belongs to its call.
LEMMA OneThread ==
    ASSUME IInv, NEW t \in Threads, NEW r \in States, NEW o \in Entries, NEW d \in Entries,
           NEW w \in Entries,
           thread' = [thread EXCEPT ![t] = r], opens' = [opens EXCEPT ![t] = o],
           dups' = [dups EXCEPT ![t] = d], writes' = [writes EXCEPT ![t] = w],
           calls' \in Nat,
           o # NoPending => r.call = "open" /\ o.path = r.path,
           d # NoPending => r.call = "dup" /\ d.fd = r.fd,
           w # NoPending => r.call = "write" /\ w.fd = r.fd
    PROVE  IInv'
<1>1. TypeInv'
    BY DEF IInv, TypeInv
<1>2. /\ \A u \in Threads \ {t} : Matches(u)'
      /\ thread'[t] = r /\ opens'[t] = o /\ dups'[t] = d /\ writes'[t] = w
    BY OtherThreads, Zenon
<1>3. Matches(t)'
    BY <1>2, Zenon DEF Matches
<1>4. \A u \in Threads : Matches(u)'
    BY <1>2, <1>3, Zenon
<1> QED
    BY <1>1, <1>4 DEF IInv

\* A thread outside of calls has nothing pending.
LEMMA OutHasNothing ==
    ASSUME IInv, NEW t \in Threads, thread[t] \in {Out, Dead}
    PROVE  opens[t] = NoPending /\ dups[t] = NoPending /\ writes[t] = NoPending
<1>1. thread[t].call = "none"
    BY Values
<1> QED
    BY <1>1 DEF IInv, Matches

-----------------------------------------------------------------------------
\* The state a thread is in after it entered a call.
Entered(call, fd, new, path) ==
    [at |-> "in", call |-> call, fd |-> fd, new |-> new, path |-> path,
     id |-> IF call = "exec" THEN calls + 1 ELSE 0]

\* What the entry of any call does to the thread.
LEMMA EnterThread ==
    ASSUME IInv, NEW t \in Threads, NEW call \in CallNames, NEW fd \in Int, NEW new \in Int,
           NEW path \in MaybePaths, Enter(t, call, fd, new, path)
    PROVE  /\ Entered(call, fd, new, path) \in States
           /\ Entered(call, fd, new, path).call = call
           /\ Entered(call, fd, new, path).fd = fd
           /\ Entered(call, fd, new, path).path = path
           /\ thread' = [thread EXCEPT ![t] = Entered(call, fd, new, path)]
           /\ calls' \in Nat
           /\ opens[t] = NoPending /\ dups[t] = NoPending /\ writes[t] = NoPending
<1>1. calls \in Nat /\ calls' = calls + 1
    BY DEF IInv, TypeInv, Enter
<1>2. (IF call = "exec" THEN calls + 1 ELSE 0) \in Int
    BY <1>1
<1>3. Entered(call, fd, new, path) \in States
    BY <1>2 DEF Entered, States, Places
<1>4. thread' = [thread EXCEPT ![t] = Entered(call, fd, new, path)]
    BY DEF Enter, Entered
<1>5. thread[t] \in {Out, Dead}
    BY DEF Enter
<1> QED
    BY <1>1, <1>3, <1>4, <1>5, OutHasNothing DEF Entered

\* A map that a step leaves alone, or adds an entry to.
LEMMA MapStep ==
    ASSUME NEW map \in [Threads -> Entries], NEW t \in Threads, NEW e
    PROVE  /\ map = [map EXCEPT ![t] = map[t]]
           /\ Remember(map, t, e) = [map EXCEPT ![t] = IF Room(map, t) THEN e ELSE map[t]]
BY Zenon DEF Remember

\* The hooks at the entry of open, dup, close and exec leave the writes alone.
LEMMA EnterInv ==
    ASSUME IInv, NEW t \in Threads,
           \/ \E p \in Paths : EnterOpen(t, p)
           \/ \E old \in Fds, new \in Fds \cup {None} : EnterDup(t, old, new)
           \/ \E f \in Fds : EnterClose(t, f)
           \/ EnterExec(t)
    PROVE  IInv'
<1>0. /\ calls \in Nat
      /\ opens \in [Threads -> Entries] /\ dups \in [Threads -> Entries]
      /\ writes \in [Threads -> Entries]
      /\ opens[t] \in Entries /\ dups[t] \in Entries /\ writes[t] \in Entries
    BY DEF IInv, TypeInv
<1>1. ASSUME NEW p \in Paths, EnterOpen(t, p) PROVE IInv'
    <2> DEFINE e == [fd |-> None, path |-> p]
               r == Entered("open", None, None, p)
               o == IF Room(opens, t) THEN e ELSE opens[t]
    <2>1. p \in MaybePaths /\ e \in Entries /\ e.path = p /\ "open" \in CallNames
        BY Values DEF MaybePaths, Entries, CallNames
    <2>2. Enter(t, "open", None, None, p)
        BY <1>1 DEF EnterOpen
    <2>3. /\ r \in States /\ r.call = "open" /\ r.path = p
          /\ thread' = [thread EXCEPT ![t] = r] /\ calls' \in Nat
          /\ opens[t] = NoPending /\ dups[t] = NoPending /\ writes[t] = NoPending
        BY <2>1, <2>2, Values, EnterThread
    <2>4. /\ opens' = Remember(opens, t, e)
          /\ dups' = dups /\ writes' = writes
        BY <1>1 DEF EnterOpen
    <2> HIDE DEF e, r
    <2>5. /\ opens' = [opens EXCEPT ![t] = o] /\ dups' = [dups EXCEPT ![t] = dups[t]]
          /\ writes' = [writes EXCEPT ![t] = writes[t]]
        BY <1>0, <2>4, MapStep
    <2>6. o \in Entries /\ (o # NoPending => o.path = p)
        BY <1>0, <2>1, <2>3
    <2> HIDE DEF o
    <2>8. opens[t] \in Entries /\ dups[t] \in Entries /\ writes[t] \in Entries
        BY <1>0
    <2> QED
        BY <2>3, <2>5, <2>6, <2>8, OneThread, Zenon
<1>2. ASSUME NEW old \in Fds, NEW new \in Fds \cup {None}, EnterDup(t, old, new) PROVE IInv'
    <2> DEFINE e == [fd |-> old, path |-> Untracked]
               r == Entered("dup", old, new, Untracked)
               d == IF Room(dups, t) THEN e ELSE dups[t]
    <2>0. old \in Int /\ new \in Int
        BY CaptureAssumption, Values
    <2>1. e \in Entries /\ e.fd = old /\ "dup" \in CallNames
        BY <2>0, Values DEF Entries, CallNames
    <2>2. Enter(t, "dup", old, new, Untracked)
        BY <1>2 DEF EnterDup
    <2>3. /\ r \in States /\ r.call = "dup" /\ r.fd = old
          /\ thread' = [thread EXCEPT ![t] = r] /\ calls' \in Nat
          /\ opens[t] = NoPending /\ dups[t] = NoPending /\ writes[t] = NoPending
        BY <2>0, <2>1, <2>2, Values, EnterThread
    <2>4. /\ dups' = Remember(dups, t, e)
          /\ opens' = opens /\ writes' = writes
        BY <1>2 DEF EnterDup
    <2> HIDE DEF e, r
    <2>5. /\ dups' = [dups EXCEPT ![t] = d] /\ opens' = [opens EXCEPT ![t] = opens[t]]
          /\ writes' = [writes EXCEPT ![t] = writes[t]]
        BY <1>0, <2>4, MapStep
    <2>6. d \in Entries /\ (d # NoPending => d.fd = old)
        BY <1>0, <2>1, <2>3
    <2> HIDE DEF d
    <2>8. opens[t] \in Entries /\ dups[t] \in Entries /\ writes[t] \in Entries
        BY <1>0
    <2> QED
        BY <2>3, <2>5, <2>6, <2>8, OneThread, Zenon
<1>3. ASSUME NEW call \in {"close", "exec"}, NEW fd \in Int,
             Enter(t, call, fd, None, Untracked), UNCHANGED pending
      PROVE  IInv'
    <2> DEFINE r == Entered(call, fd, None, Untracked)
    <2>1. /\ r \in States /\ thread' = [thread EXCEPT ![t] = r] /\ calls' \in Nat
          /\ opens[t] = NoPending /\ dups[t] = NoPending /\ writes[t] = NoPending
        BY <1>3, Values, EnterThread DEF CallNames
    <2>2. /\ opens' = [opens EXCEPT ![t] = opens[t]] /\ dups' = [dups EXCEPT ![t] = dups[t]]
          /\ writes' = [writes EXCEPT ![t] = writes[t]]
        BY <1>0, <1>3, MapStep DEF pending
    <2> HIDE DEF r
    <2> QED
        BY <1>0, <2>1, <2>2, OneThread, Zenon
<1>4. ASSUME NEW f \in Fds, EnterClose(t, f) PROVE IInv'
    <2>1. f \in Int
        BY CaptureAssumption
    <2> QED
        BY <1>3, <1>4, <2>1 DEF EnterClose
<1>5. CASE EnterExec(t)
    BY <1>3, <1>5, Values DEF EnterExec
<1> QED
    BY <1>1, <1>2, <1>4, <1>5

\* A write is remembered when there is room.
LEMMA EnterWriteInv == ASSUME IInv, NEW t \in Threads, NEW f \in Fds, EnterWrite(t, f) PROVE IInv'
<1> DEFINE e == [fd |-> f, path |-> Untracked]
           r == Entered("write", f, None, Untracked)
           w == IF Room(writes, t) THEN e ELSE writes[t]
<1>0. /\ f \in Nat
      /\ opens \in [Threads -> Entries] /\ dups \in [Threads -> Entries]
      /\ writes \in [Threads -> Entries]
      /\ opens[t] \in Entries /\ dups[t] \in Entries /\ writes[t] \in Entries
    BY CaptureAssumption DEF IInv, TypeInv
<1>1. e \in Entries /\ e.fd = f /\ "write" \in CallNames
    BY <1>0, Values DEF Entries, CallNames
<1>2. Enter(t, "write", f, None, Untracked)
    BY DEF EnterWrite
<1>3. /\ r \in States /\ r.call = "write" /\ r.fd = f
      /\ thread' = [thread EXCEPT ![t] = r] /\ calls' \in Nat
      /\ opens[t] = NoPending /\ dups[t] = NoPending /\ writes[t] = NoPending
    BY <1>0, <1>1, <1>2, Values, EnterThread
<1>4. /\ opens' = [opens EXCEPT ![t] = opens[t]] /\ dups' = [dups EXCEPT ![t] = dups[t]]
      /\ writes' = [writes EXCEPT ![t] = w]
    BY <1>0, MapStep, Zenon DEF EnterWrite
<1> HIDE DEF e, r
<1>5. w \in Entries /\ (w # NoPending => w.fd = f)
    BY <1>0, <1>1, <1>3
<1> HIDE DEF w
<1> QED
    BY <1>0, <1>3, <1>4, <1>5, OneThread, Zenon

-----------------------------------------------------------------------------
\* The kernel's part of a call does not touch the pending maps.
LEMMA DoneInv ==
    ASSUME IInv, NEW t \in Threads, NEW result \in Int, NEW table, Done(t, result, table)
    PROVE  IInv'
<1> DEFINE r == [thread[t] EXCEPT !.at = "done", !.new = result]
<1>0. /\ thread \in [Threads -> States] /\ thread[t] \in States /\ calls \in Nat
      /\ opens \in [Threads -> Entries] /\ dups \in [Threads -> Entries]
      /\ writes \in [Threads -> Entries]
      /\ opens[t] \in Entries /\ dups[t] \in Entries /\ writes[t] \in Entries /\ Matches(t)
    BY DEF IInv, TypeInv
<1>1. /\ r \in States /\ r.call = thread[t].call /\ r.fd = thread[t].fd
      /\ r.path = thread[t].path
    BY <1>0, Zenon DEF States, Places
<1>2. /\ thread' = [thread EXCEPT ![t] = r] /\ calls' = calls
      /\ opens' = opens /\ dups' = dups /\ writes' = writes
    BY <1>0, Zenon DEF Done, pending, States
<1> HIDE DEF r
<1>3. /\ opens' = [opens EXCEPT ![t] = opens[t]] /\ dups' = [dups EXCEPT ![t] = dups[t]]
      /\ writes' = [writes EXCEPT ![t] = writes[t]]
    BY <1>0, <1>2, MapStep
<1>4. /\ opens[t] # NoPending => r.call = "open" /\ opens[t].path = r.path
      /\ dups[t] # NoPending => r.call = "dup" /\ dups[t].fd = r.fd
      /\ writes[t] # NoPending => r.call = "write" /\ writes[t].fd = r.fd
    BY <1>0, <1>1 DEF Matches
<1>5. calls' \in Nat
    BY <1>0, <1>2
<1>6. opens[t] \in Entries /\ dups[t] \in Entries /\ writes[t] \in Entries
    BY <1>0
<1>7. r \in States /\ thread' = [thread EXCEPT ![t] = r]
    BY <1>1, <1>2
<1> QED
    BY <1>3, <1>4, <1>5, <1>6, <1>7, OneThread, Zenon

\* The kernel carries a call out or fails it.
LEMMA KernelInv ==
    ASSUME IInv, NEW t \in Threads, Fails(t) \/ Performs(t) \/ OpenUntracked(t) PROVE IInv'
<1>1. CASE Fails(t)
    BY <1>1, Values, DoneInv DEF Fails
<1>2. CASE Performs(t)
    <2>1. thread[t].new \in Int /\ Lowest \subseteq Int
        <3>1. thread[t].new \in Int
            BY DEF IInv, TypeInv, States
        <3>2. Lowest \subseteq Fds /\ Fds \subseteq Int
            BY CaptureAssumption DEF Lowest
        <3> QED
            BY <3>1, <3>2
    <2>2. \E result \in Int : \E table : Done(t, result, table)
        <3>1. CASE \E f \in Lowest : Done(t, f, [fds EXCEPT ![f] = thread[t].path])
            BY <2>1, <3>1
        <3>2. CASE \E f \in IF thread[t].new = None THEN Lowest ELSE {thread[t].new} :
                        Done(t, f, [fds EXCEPT ![f] = fds[thread[t].fd]])
            BY <2>1, <3>2
        <3>3. CASE Done(t, None, [fds EXCEPT ![thread[t].fd] = Closed])
            BY <3>3, Values
        <3>4. CASE Done(t, Written, fds)
            BY <3>4 DEF Written
        <3> QED
            BY <1>2, <3>1, <3>2, <3>3, <3>4 DEF Performs
    <2> QED
        BY <2>2, DoneInv
<1>3. CASE OpenUntracked(t)
    <2>1. calls' \in Nat /\ UNCHANGED <<thread, opens, dups, writes>>
        BY <1>3 DEF OpenUntracked, IInv, TypeInv, pending
    <2> QED
        BY <2>1, StutterInv
<1> QED
    BY <1>1, <1>2, <1>3

\* An exit hook takes out its own entry.
LEMMA ExitInv == ASSUME IInv, NEW t \in Threads, Exit(t) PROVE IInv'
<1>0. /\ calls \in Nat
      /\ opens \in [Threads -> Entries] /\ dups \in [Threads -> Entries]
      /\ writes \in [Threads -> Entries]
      /\ opens[t] \in Entries /\ dups[t] \in Entries /\ writes[t] \in Entries
      /\ Matches(t) /\ NoPending \in Entries /\ Out \in States
    BY Values DEF IInv, TypeInv
<1>1. /\ thread' = [thread EXCEPT ![t] = Out] /\ calls' = calls
    BY DEF Exit
<1>2. /\ opens = [opens EXCEPT ![t] = opens[t]] /\ dups = [dups EXCEPT ![t] = dups[t]]
      /\ writes = [writes EXCEPT ![t] = writes[t]]
    BY <1>0, MapStep
<1>3. CASE /\ thread[t].call = "open" /\ opens' = Forget(opens, t)
           /\ UNCHANGED <<dups, writes>>
    <2>1. dups[t] = NoPending /\ writes[t] = NoPending
        BY <1>0, <1>3 DEF Matches
    <2>2. /\ opens' = [opens EXCEPT ![t] = NoPending] /\ dups' = [dups EXCEPT ![t] = NoPending]
          /\ writes' = [writes EXCEPT ![t] = NoPending]
        BY <1>2, <1>3, <2>1 DEF Forget
    <2> QED
        BY <1>0, <1>1, <2>2, OneThread, Zenon
<1>4. CASE /\ thread[t].call = "dup" /\ dups' = Forget(dups, t)
           /\ UNCHANGED <<opens, writes>>
    <2>1. opens[t] = NoPending /\ writes[t] = NoPending
        BY <1>0, <1>4 DEF Matches
    <2>2. /\ opens' = [opens EXCEPT ![t] = NoPending] /\ dups' = [dups EXCEPT ![t] = NoPending]
          /\ writes' = [writes EXCEPT ![t] = NoPending]
        BY <1>2, <1>4, <2>1 DEF Forget
    <2> QED
        BY <1>0, <1>1, <2>2, OneThread, Zenon
<1>5. CASE /\ thread[t].call = "write" /\ writes[t] # NoPending /\ writes' = Forget(writes, t)
           /\ UNCHANGED <<opens, dups>>
    <2>1. opens[t] = NoPending /\ dups[t] = NoPending
        BY <1>0, <1>5 DEF Matches
    <2>2. /\ opens' = [opens EXCEPT ![t] = NoPending] /\ dups' = [dups EXCEPT ![t] = NoPending]
          /\ writes' = [writes EXCEPT ![t] = NoPending]
        BY <1>2, <1>5, <2>1 DEF Forget
    <2> QED
        BY <1>0, <1>1, <2>2, OneThread, Zenon
<1>6. CASE /\ thread[t].call = "open" => opens[t] = NoPending
           /\ thread[t].call = "dup" => dups[t] = NoPending
           /\ thread[t].call = "write" => writes[t] = NoPending
           /\ UNCHANGED pending
    <2>1. opens[t] = NoPending /\ dups[t] = NoPending /\ writes[t] = NoPending
        BY <1>0, <1>6 DEF Matches
    <2>2. /\ opens' = [opens EXCEPT ![t] = NoPending] /\ dups' = [dups EXCEPT ![t] = NoPending]
          /\ writes' = [writes EXCEPT ![t] = NoPending]
        BY <1>2, <1>6, <2>1 DEF pending
    <2> QED
        BY <1>0, <1>1, <2>2, OneThread, Zenon
<1> QED
    BY <1>3, <1>4, <1>5, <1>6 DEF Exit

\* Threads end, and their entries go.
LEMMA CleanUpInv ==
    ASSUME IInv, NEW dying \in SUBSET Threads, CleanUp(dying), calls' \in Nat,
           thread' \in [Threads -> States],
           \A u \in Threads \ dying : thread'[u] = thread[u] \/ thread[u].call = "exec"
    PROVE  IInv'
<1>0. /\ NoPending \in Entries
      /\ opens \in [Threads -> Entries] /\ dups \in [Threads -> Entries]
      /\ writes \in [Threads -> Entries]
      /\ \A t \in Threads : Matches(t)
    BY Values DEF IInv, TypeInv
<1>1. /\ opens' = [t \in Threads |-> IF t \in dying THEN NoPending ELSE opens[t]]
      /\ dups' = [t \in Threads |-> IF t \in dying THEN NoPending ELSE dups[t]]
      /\ writes' = [t \in Threads |-> IF t \in dying THEN NoPending ELSE writes[t]]
    BY DEF CleanUp
<1>5. TypeInv'
    BY <1>0, <1>1 DEF TypeInv
<1>6. ASSUME NEW u \in Threads PROVE Matches(u)'
    <2>1. CASE u \in dying
        <3>1. opens'[u] = NoPending /\ dups'[u] = NoPending /\ writes'[u] = NoPending
            BY <1>1, <2>1
        <3> QED
            BY <3>1 DEF Matches
    <2>2. CASE u \notin dying
        <3>1. opens'[u] = opens[u] /\ dups'[u] = dups[u] /\ writes'[u] = writes[u]
            BY <1>1, <2>2
        <3>2. CASE thread'[u] = thread[u]
            BY <1>0, <3>1, <3>2 DEF Matches
        <3>3. CASE thread[u].call = "exec"
            <4>1. opens[u] = NoPending /\ dups[u] = NoPending /\ writes[u] = NoPending
                BY <1>0, <3>3 DEF Matches
            <4> QED
                BY <3>1, <4>1 DEF Matches
        <3> QED
            BY <2>2, <3>2, <3>3
    <2> QED
        BY <2>1, <2>2
<1> QED
    BY <1>5, <1>6 DEF IInv

\* A thread ends or begins, or an exec ends the other threads.
LEMMA LifeInv ==
    ASSUME IInv, NEW t \in Threads, ThreadExit(t) \/ Spawn(t) \/ ExecSucceeds(t) PROVE IInv'
<1>0. /\ thread \in [Threads -> States] /\ calls \in Nat
      /\ opens \in [Threads -> Entries] /\ dups \in [Threads -> Entries]
      /\ writes \in [Threads -> Entries]
      /\ Out \in States /\ Dead \in States
    BY Values DEF IInv, TypeInv
<1>1. CASE ThreadExit(t)
    <2>1. CleanUp({t}) /\ thread' = [thread EXCEPT ![t] = Dead] /\ calls' = calls
        BY <1>1 DEF ThreadExit
    <2>2. /\ thread' \in [Threads -> States]
          /\ \A u \in Threads \ {t} : thread'[u] = thread[u]
        BY <1>0, <2>1
    <2> QED
        BY <1>0, <2>1, <2>2, CleanUpInv
<1>2. CASE ExecSucceeds(t)
    <2>1. /\ CleanUp(Threads \ {t}) /\ calls' = calls /\ thread[t].call = "exec"
          /\ thread' = [u \in Threads |-> IF u = t THEN Out ELSE Dead]
        BY <1>2 DEF ExecSucceeds
    <2>2. /\ thread' \in [Threads -> States]
          /\ \A u \in Threads \ (Threads \ {t}) : thread[u].call = "exec"
        BY <1>0, <2>1
    <2> QED
        BY <1>0, <2>1, <2>2, CleanUpInv
<1>3. CASE Spawn(t)
    <2>1. opens[t] = NoPending /\ dups[t] = NoPending /\ writes[t] = NoPending
        BY <1>3, OutHasNothing DEF Spawn
    <2>2. /\ thread' = [thread EXCEPT ![t] = Out] /\ calls' = calls + 1
          /\ opens' = opens /\ dups' = dups /\ writes' = writes
        BY <1>3 DEF Spawn, pending
    <2>3. /\ opens' = [opens EXCEPT ![t] = NoPending] /\ dups' = [dups EXCEPT ![t] = NoPending]
          /\ writes' = [writes EXCEPT ![t] = NoPending]
        BY <1>0, <2>1, <2>2, MapStep
    <2>4. calls' \in Nat /\ NoPending \in Entries /\ Out \in States
        BY <1>0, <2>2, Values
    <2> QED
        BY <2>2, <2>3, <2>4, OneThread, Zenon
<1> QED
    BY <1>1, <1>2, <1>3

-----------------------------------------------------------------------------
\* Every step keeps the invariant; the agent's own steps do not touch it.
LEMMA NextInv == IInv /\ [Next]_vars => IInv'
<1> SUFFICES ASSUME IInv, [Next]_vars PROVE IInv'
    OBVIOUS
<1>1. CASE Hooks
    <2>1. PICK t \in Threads :
            \/ \E p \in Paths : EnterOpen(t, p)
            \/ \E old \in Fds, new \in Fds \cup {None} : EnterDup(t, old, new)
            \/ \E f \in Fds : EnterClose(t, f)
            \/ \E f \in Fds : EnterWrite(t, f)
            \/ EnterExec(t)
            \/ Fails(t) \/ Performs(t) \/ OpenUntracked(t)
            \/ Exit(t)
            \/ ThreadExit(t) \/ Spawn(t) \/ ExecSucceeds(t)
        BY <1>1, Zenon DEF Hooks
    <2> QED
        BY <2>1, EnterInv, EnterWriteInv, KernelInv, ExitInv, LifeInv
<1>2. CASE UNCHANGED <<thread, pending, calls>>
    <2>1. calls' \in Nat /\ UNCHANGED <<thread, opens, dups, writes>>
        BY <1>2 DEF IInv, TypeInv, pending
    <2> QED
        BY <2>1, StutterInv
<1>3. Handle \/ PruneIdle \/ UNCHANGED vars => UNCHANGED <<thread, pending, calls>>
    BY DEF Handle, PruneIdle, vars, capture
<1> QED
    BY <1>1, <1>2, <1>3 DEF Next

\* No entry of a pending map outlives its call: an exit hook never pairs its
\* result with the arguments of another call.
THEOREM PendingIsOfItsCall == Spec => []PendingMatchesCall
<1>1. IInv => PendingMatchesCall
    BY DEF IInv, Matches, PendingMatchesCall
<1> QED
    BY <1>1, InitInv, NextInv, PTL DEF Spec


-----------------------------------------------------------------------------
(* The events: their types, and what a step of the hooks does to them *)

Contents == MaybePaths \cup {Closed}
Phases == {"attempt", "success", "failure"}
EventSet == [type : CallNames, phase : Phases, fd : Int, new : Int, path : MaybePaths,
             truth : Contents, exe : Int]

EventTypes ==
    /\ fds \in [Fds -> Contents]
    /\ exe \in Int
    /\ ring \in Seq(EventSet)
    /\ \A t \in Threads : thread[t].call \in {"dup", "close", "write"} => thread[t].fd \in Fds

\* The thread has entered an exec that may still succeed.
Execing(t) == thread[t].at = "in" /\ thread[t].call = "exec"

\* A step of a hook or of the kernel that is not about an exec.
PlainStep ==
    /\ exe' = exe /\ calls' \in {calls, calls + 1}
    /\ \A u \in Threads :
        /\ Execing(u)' => Execing(u) /\ thread'[u].id = thread[u].id
        /\ thread'[u].call \in {"dup", "close", "write"} => thread'[u].fd \in Fds
    /\ \/ ring' = ring
       \/ \E e \in EventSet : e.exe = exe /\ e.type # "exec" /\ ring' = Append(ring, e)

\* An event is of its type.
LEMMA EventIsTyped ==
    ASSUME EventTypes, NEW type \in CallNames, NEW phase \in Phases, NEW fd \in Int,
           NEW new \in Int, NEW path \in MaybePaths
    PROVE  /\ Event(type, phase, fd, new, path) \in EventSet
           /\ Event(type, phase, fd, new, path).type = type
           /\ Event(type, phase, fd, new, path).phase = phase
           /\ Event(type, phase, fd, new, path).new = new
           /\ Event(type, phase, fd, new, path).exe = exe
<1>1. (IF fd \in Fds THEN fds[fd] ELSE Untracked) \in Contents
    BY DEF EventTypes, Contents, MaybePaths
<1> QED
    BY <1>1 DEF Event, EventSet, EventTypes

\* Emitting an event that is not of an exec.
LEMMA EmitPlain ==
    ASSUME NEW e \in EventSet, e.exe = exe, e.type # "exec", Emit(e) \/ Silently
    PROVE  \/ ring' = ring
           \/ \E f \in EventSet : f.exe = exe /\ f.type # "exec" /\ ring' = Append(ring, f)
    BY DEF Emit, Silently

\* A thread that enters another call, or leaves one, is not in an exec.
LEMMA NotExecing ==
    ASSUME IInv, EventTypes, NEW t \in Threads, NEW r, thread' = [thread EXCEPT ![t] = r],
           r.at # "in" \/ r.call # "exec",
           r.call \in {"dup", "close", "write"} => r.fd \in Fds
    PROVE  \A u \in Threads :
             /\ Execing(u)' => Execing(u) /\ thread'[u].id = thread[u].id
             /\ thread'[u].call \in {"dup", "close", "write"} => thread'[u].fd \in Fds
<1>1. thread'[t] = r /\ \A u \in Threads \ {t} : thread'[u] = thread[u]
    BY DEF IInv, TypeInv
<1> QED
    BY <1>1 DEF Execing, EventTypes

\* The entry of any call but exec.
LEMMA EnterPlain ==
    ASSUME IInv, EventTypes, NEW t \in Threads,
           \/ \E p \in Paths : EnterOpen(t, p)
           \/ \E old \in Fds, new \in Fds \cup {None} : EnterDup(t, old, new)
           \/ \E f \in Fds : EnterClose(t, f)
           \/ \E f \in Fds : EnterWrite(t, f)
    PROVE  PlainStep /\ fds' = fds
<1>1. ASSUME NEW call, call # "exec", NEW fd, NEW new, NEW path, Enter(t, call, fd, new, path),
             call \in {"dup", "close", "write"} => fd \in Fds
      PROVE  /\ exe' = exe /\ fds' = fds /\ calls' \in {calls, calls + 1}
             /\ \A u \in Threads :
                 /\ Execing(u)' => Execing(u) /\ thread'[u].id = thread[u].id
                 /\ thread'[u].call \in {"dup", "close", "write"} => thread'[u].fd \in Fds
    <2>1. thread' = [thread EXCEPT ![t] = Entered(call, fd, new, path)]
        BY <1>1 DEF Enter, Entered
    <2>2. Entered(call, fd, new, path).call = call /\ Entered(call, fd, new, path).fd = fd
        BY DEF Entered
    <2> QED
        BY <1>1, <2>1, <2>2, NotExecing, Zenon DEF Enter, kernel
<1>2. CASE \E p \in Paths : EnterOpen(t, p)
    BY <1>1, <1>2, Zenon DEF EnterOpen, PlainStep, Silently
<1>3. CASE \E old \in Fds, new \in Fds \cup {None} : EnterDup(t, old, new)
    BY <1>1, <1>3, Zenon DEF EnterDup, PlainStep, Silently
<1>4. ASSUME NEW f \in Fds, EnterClose(t, f) \/ EnterWrite(t, f)
      PROVE  PlainStep /\ fds' = fds
    <2>1. PICK call \in {"close", "write"} :
             /\ Enter(t, call, f, None, Untracked)
             /\ Emit(Event(call, "attempt", f, None, Untracked))
        BY <1>4 DEF EnterClose, EnterWrite
    <2>2. PICK e : e = Event(call, "attempt", f, None, Untracked)
        OBVIOUS
    <2>3. e \in EventSet /\ e.exe = exe /\ e.type # "exec"
        BY <2>2, CaptureAssumption, Values, EventIsTyped DEF CallNames, Phases
    <2>4. \/ ring' = ring
          \/ \E g \in EventSet : g.exe = exe /\ g.type # "exec" /\ ring' = Append(ring, g)
        BY <2>1, <2>2, <2>3, EmitPlain
    <2> QED
        BY <1>1, <2>1, <2>4, Zenon DEF PlainStep
<1> QED
    BY <1>2, <1>3, <1>4

\* The kernel's part of a call.
LEMMA KernelPlain ==
    ASSUME IInv, EventTypes, NEW t \in Threads, Fails(t) \/ Performs(t) \/ OpenUntracked(t)
    PROVE  PlainStep /\ fds' \in [Fds -> Contents]
<1>0. /\ thread[t].path \in Contents /\ Closed \in Contents /\ Untracked \in Contents
      /\ fds \in [Fds -> Contents] /\ thread \in [Threads -> States] /\ thread[t] \in States
    BY DEF IInv, TypeInv, States, Contents, MaybePaths, EventTypes
<1>1. ASSUME NEW result, NEW table, Done(t, result, table) PROVE PlainStep /\ fds' = table
    <2>1. PICK r : r = [thread[t] EXCEPT !.at = "done", !.new = result]
        OBVIOUS
    <2>2. /\ thread' = [thread EXCEPT ![t] = r] /\ r.at # "in"
          /\ r.call = thread[t].call /\ r.fd = thread[t].fd
        BY <1>0, <1>1, <2>1, Zenon DEF Done, States
    <2> QED
        BY <1>1, <2>2, NotExecing, Zenon DEF Done, PlainStep, EventTypes
<1>2. CASE Fails(t)
    BY <1>0, <1>1, <1>2 DEF Fails
<1>3. CASE Performs(t)
    <2>1. Lowest \subseteq Fds
        BY DEF Lowest
    <2>2. CASE thread[t].call = "open"
        <3>1. PICK f \in Fds : Done(t, f, [fds EXCEPT ![f] = thread[t].path])
            BY <1>3, <2>1, <2>2 DEF Performs
        <3>2. [fds EXCEPT ![f] = thread[t].path] \in [Fds -> Contents]
            BY <1>0
        <3> QED
            BY <1>1, <3>1, <3>2, Zenon
    <2>3. CASE thread[t].call = "dup"
        <3>1. PICK f : Done(t, f, [fds EXCEPT ![f] = fds[thread[t].fd]])
            BY <1>3, <2>3 DEF Performs
        <3>2. fds[thread[t].fd] \in Contents
            BY <1>0, <2>3 DEF EventTypes
        <3>3. [fds EXCEPT ![f] = fds[thread[t].fd]] \in [Fds -> Contents]
            BY <1>0, <3>2, Zenon
        <3> QED
            BY <1>1, <3>1, <3>3, Zenon
    <2>4. CASE thread[t].call = "close"
        <3>1. Done(t, None, [fds EXCEPT ![thread[t].fd] = Closed])
            BY <1>3, <2>4 DEF Performs
        <3>2. [fds EXCEPT ![thread[t].fd] = Closed] \in [Fds -> Contents]
            BY <1>0, Zenon
        <3> QED
            BY <1>1, <3>1, <3>2, Zenon
    <2>5. CASE thread[t].call = "write"
        <3>1. Done(t, Written, fds)
            BY <1>3, <2>5 DEF Performs
        <3> QED
            BY <1>0, <1>1, <3>1
    <2> QED
        BY <1>3, <2>2, <2>3, <2>4, <2>5 DEF Performs
<1>4. CASE OpenUntracked(t)
    <2>1. PICK f \in Fds : fds' = [fds EXCEPT ![f] = Untracked]
        BY <1>4, Zenon DEF OpenUntracked, Lowest
    <2> QED
        BY <1>0, <1>4, <2>1, Zenon DEF OpenUntracked, PlainStep, Execing, EventTypes
<1> QED
    BY <1>2, <1>3, <1>4

\* An exit hook, and the end and the start of a thread.
LEMMA ExitPlain ==
    ASSUME IInv, EventTypes, NEW t \in Threads, Exit(t) \/ ThreadExit(t) \/ Spawn(t)
    PROVE  PlainStep /\ fds' = fds
<1>0. /\ thread[t].new \in Int /\ opens[t].path \in MaybePaths /\ dups[t].fd \in Int
      /\ writes[t].fd \in Int /\ Phase(t) \in Phases /\ Out.call = "none" /\ Dead.call = "none"
      /\ None \in Int /\ Untracked \in MaybePaths
    BY Values DEF IInv, TypeInv, States, Entries, Phase, Phases
<1>1. ASSUME NEW r \in {Out, Dead}, thread' = [thread EXCEPT ![t] = r]
      PROVE  \A u \in Threads :
                 /\ Execing(u)' => Execing(u) /\ thread'[u].id = thread[u].id
                 /\ thread'[u].call \in {"dup", "close", "write"} => thread'[u].fd \in Fds
    BY <1>0, <1>1, NotExecing, Zenon
<1>2. CASE Exit(t)
    <2>1. /\ thread' = [thread EXCEPT ![t] = Out] /\ fds' = fds /\ exe' = exe /\ calls' = calls
        BY <1>2, Zenon DEF Exit, kernel
    <2>2. PICK e \in EventSet : e.exe = exe /\ e.type # "exec" /\ (Emit(e) \/ Silently)
        <3>1. ASSUME NEW type \in {"open", "dup", "write"}, NEW phase \in Phases, NEW fd \in Int,
                     NEW new \in Int, NEW path \in MaybePaths
              PROVE  /\ Event(type, phase, fd, new, path) \in EventSet
                     /\ Event(type, phase, fd, new, path).exe = exe
                     /\ Event(type, phase, fd, new, path).type # "exec"
            <4>1. type \in CallNames /\ type # "exec"
                BY Zenon DEF CallNames
            <4> QED
                BY <4>1, EventIsTyped
        <3>2. CASE Emit(Event("open", Phase(t), None, thread[t].new, opens[t].path))
            BY <1>0, <3>1, <3>2
        <3>3. CASE Emit(Event("dup", "success", dups[t].fd, thread[t].new, Untracked))
            <4>1. "success" \in Phases
                BY DEF Phases
            <4> QED
                BY <1>0, <3>1, <3>3, <4>1
        <3>4. CASE Emit(Event("write", Phase(t), writes[t].fd, None, Untracked))
            BY <1>0, <3>1, <3>4
        <3>5. CASE Silently
            BY <1>0, <3>1, <3>5
        <3> QED
            BY <1>2, <3>2, <3>3, <3>4, <3>5, Zenon DEF Exit
    <2>3. \/ ring' = ring
          \/ \E g \in EventSet : g.exe = exe /\ g.type # "exec" /\ ring' = Append(ring, g)
        BY <2>2, EmitPlain
    <2> QED
        BY <1>1, <2>1, <2>3 DEF PlainStep
<1>3. CASE ThreadExit(t)
    BY <1>1, <1>3 DEF ThreadExit, PlainStep, Silently, kernel
<1>4. CASE Spawn(t)
    BY <1>1, <1>4 DEF Spawn, PlainStep, Silently, kernel
<1> QED
    BY <1>2, <1>3, <1>4

\* A thread enters an exec: its number is new, and the attempt is reported.
ExecBegins(t) ==
    /\ exe' = exe /\ calls' = calls + 1 /\ fds' = fds
    /\ thread'[t].at = "in" /\ thread'[t].call = "exec" /\ thread'[t].id = calls + 1
    /\ \A u \in Threads \ {t} : thread'[u] = thread[u]
    /\ \/ ring' = ring
       \/ \E e \in EventSet : /\ e.type = "exec" /\ e.phase = "attempt" /\ e.new = calls + 1
                              /\ e.exe = exe /\ ring' = Append(ring, e)

\* An exec succeeds: no thread is in a call, and the success is reported.
ExecEnds(t) ==
    /\ Execing(t) /\ exe' = thread[t].id /\ calls' = calls
    /\ fds' \in [Fds -> Contents]
    /\ \A u \in Threads : thread'[u].call = "none"
    /\ \/ ring' = ring
       \/ \E e \in EventSet : /\ e.type = "exec" /\ e.phase = "success" /\ e.new = exe'
                              /\ e.exe = exe' /\ ring' = Append(ring, e)

\* An exec is announced with a new number, and succeeds with the one announced.
LEMMA ExecSteps ==
    ASSUME IInv, EventTypes, NEW t \in Threads, EnterExec(t) \/ ExecSucceeds(t)
    PROVE  ExecBegins(t) \/ ExecEnds(t)
<1>0. /\ calls \in Nat /\ thread \in [Threads -> States] /\ thread[t].id \in Int
      /\ None \in Int /\ Untracked \in MaybePaths /\ Out.call = "none" /\ Dead.call = "none"
    BY Values DEF IInv, TypeInv, States
<1>1. CASE EnterExec(t)
    <2>1. PICK e : e = Event("exec", "attempt", None, calls + 1, Untracked)
        OBVIOUS
    <2>2. /\ e \in EventSet /\ e.type = "exec" /\ e.phase = "attempt" /\ e.new = calls + 1
          /\ e.exe = exe
        BY <1>0, <2>1, EventIsTyped DEF CallNames, Phases
    <2>3. /\ thread' = [thread EXCEPT ![t] = Entered("exec", None, None, Untracked)]
          /\ exe' = exe /\ fds' = fds /\ calls' = calls + 1
        BY <1>1, Zenon DEF EnterExec, Enter, Entered, kernel
    <2>4. /\ Entered("exec", None, None, Untracked).at = "in"
          /\ Entered("exec", None, None, Untracked).call = "exec"
          /\ Entered("exec", None, None, Untracked).id = calls + 1
        BY DEF Entered
    <2>5. ring' = ring \/ ring' = Append(ring, e)
        BY <1>1, <2>1 DEF EnterExec, Emit
    <2> QED
        BY <1>0, <2>2, <2>3, <2>4, <2>5 DEF ExecBegins
<1>2. CASE ExecSucceeds(t)
    <2>1. PICK d : d = Event("exec", "success", None, exe', Untracked)
        OBVIOUS
    <2>2. exe' = thread[t].id /\ exe' \in Int
        BY <1>0, <1>2 DEF ExecSucceeds
    <2>3. d \in EventSet /\ d.type = "exec" /\ d.phase = "success" /\ d.new = exe'
        BY <1>0, <2>1, <2>2, EventIsTyped DEF CallNames, Phases
    <2>4. PICK e : e = [d EXCEPT !.exe = exe']
        BY Zenon
    <2>5. /\ e \in EventSet /\ e.type = "exec" /\ e.phase = "success" /\ e.new = exe'
          /\ e.exe = exe'
        BY <2>2, <2>3, <2>4 DEF EventSet
    <2>6. ring' = ring \/ ring' = Append(ring, e)
        BY <1>2, <2>1, <2>4 DEF ExecSucceeds, Emit
    <2>7. fds' \in [Fds -> Contents]
        BY <1>2 DEF ExecSucceeds, EventTypes, Contents
    <2>8. Execing(t) /\ calls' = calls /\ \A u \in Threads : thread'[u].call = "none"
        BY <1>0, <1>2 DEF ExecSucceeds, Execing
    <2> QED
        BY <2>2, <2>5, <2>6, <2>7, <2>8 DEF ExecEnds
<1> QED
    BY <1>1, <1>2

\* Every step of hooks and kernel is one of three kinds.
LEMMA HookSteps ==
    ASSUME IInv, EventTypes, Hooks
    PROVE  \/ PlainStep /\ fds' \in [Fds -> Contents]
           \/ \E t \in Threads : ExecBegins(t) \/ ExecEnds(t)
<1>1. PICK t \in Threads :
        \/ \E p \in Paths : EnterOpen(t, p)
        \/ \E old \in Fds, new \in Fds \cup {None} : EnterDup(t, old, new)
        \/ \E f \in Fds : EnterClose(t, f)
        \/ \E f \in Fds : EnterWrite(t, f)
        \/ EnterExec(t)
        \/ Fails(t) \/ Performs(t) \/ OpenUntracked(t)
        \/ Exit(t)
        \/ ThreadExit(t) \/ Spawn(t) \/ ExecSucceeds(t)
    BY Zenon DEF Hooks
<1>2. CASE EnterExec(t) \/ ExecSucceeds(t)
    BY <1>2, ExecSteps
<1>3. CASE Fails(t) \/ Performs(t) \/ OpenUntracked(t)
    BY <1>3, KernelPlain
<1>4. CASE Exit(t) \/ ThreadExit(t) \/ Spawn(t)
    BY <1>4, ExitPlain DEF EventTypes
<1>5. CASE \/ \E p \in Paths : EnterOpen(t, p)
           \/ \E old \in Fds, new \in Fds \cup {None} : EnterDup(t, old, new)
           \/ \E f \in Fds : EnterClose(t, f)
           \/ \E f \in Fds : EnterWrite(t, f)
    <2>1. PlainStep /\ fds' = fds
        BY <1>5, EnterPlain, Zenon
    <2> QED
        BY <2>1 DEF EventTypes
<1> QED
    BY <1>1, <1>2, <1>3, <1>4, <1>5

\* Types of what the hooks emit, at the start and after every step.
LEMMA EventTypesInit == ViewInit => EventTypes
    BY Values DEF ViewInit, Init, EventTypes, Contents

\* Every step keeps the types of the events.
LEMMA EventTypesNext ==
    ASSUME IInv, EventTypes, [Next]_vars
    PROVE  EventTypes'
<1>0. calls \in Nat /\ thread \in [Threads -> States]
    BY DEF IInv, TypeInv
<1>1. CASE Hooks
    <2>1. CASE PlainStep /\ fds' \in [Fds -> Contents]
        BY <1>0, <2>1 DEF PlainStep, EventTypes
    <2>2. ASSUME NEW t \in Threads, ExecBegins(t) PROVE EventTypes'
        <3>1. \A u \in Threads : thread'[u].call \in {"dup", "close", "write"} => thread'[u].fd \in Fds
            BY <2>2 DEF ExecBegins, EventTypes
        <3>2. ring' \in Seq(EventSet)
            BY <2>2 DEF ExecBegins, EventTypes
        <3> QED
            BY <2>2, <3>1, <3>2 DEF ExecBegins, EventTypes
    <2>3. ASSUME NEW t \in Threads, ExecEnds(t) PROVE EventTypes'
        <3>1. exe' \in Int
            BY <1>0, <2>3 DEF ExecEnds, States
        <3>2. ring' \in Seq(EventSet)
            BY <2>3 DEF ExecEnds, EventTypes
        <3> QED
            BY <2>3, <3>1, <3>2 DEF ExecEnds, EventTypes
    <2> QED
        BY <1>1, <2>1, <2>2, <2>3, HookSteps
<1>2. CASE Handle
    <2>1. Tail(ring) \in Seq(EventSet)
        BY <1>2 DEF Handle, EventTypes
    <2> QED
        BY <1>2, <2>1, Zenon DEF Handle, EventTypes, kernel
<1>3. CASE PruneIdle \/ UNCHANGED vars
    BY <1>3 DEF PruneIdle, vars, capture, kernel, EventTypes
<1> QED
    BY <1>1, <1>2, <1>3 DEF Next

-----------------------------------------------------------------------------
(***************************************************************************)
(* AttributionExact for any number of threads, descriptors and paths, any   *)
(* ring buffer and any number of system calls.  The agent's table lags      *)
(* behind the kernel's by the events in the ring buffer, so the invariant   *)
(* speaks of the table the agent will have once it has handled them all:    *)
(* Foreseen(T) says that handling the ring buffer leads from fdPaths to T   *)
(* and scores every write on the way under the right path.  T agrees with   *)
(* the kernel's table wherever no call is between its effect and its event. *)
(***************************************************************************)

\* updateFD on the table T, for an event that is not ignored.
Applied(T, ev) ==
    IF Ignored(ev) THEN T
    ELSE CASE ev.type = "open" -> [T EXCEPT ![ev.new] = ev.path]
           [] ev.type = "close" -> [T EXCEPT ![ev.fd] = Untracked]
           [] ev.type = "dup" -> [T EXCEPT ![ev.new] = T[ev.fd]]
           [] OTHER -> T

\* The agent's entry p is right for a descriptor that is open on c.
Fits(p, c) == p = c \/ (p = Untracked /\ (c = Closed \/ pruned))

Tables == [Fds -> MaybePaths]

ScoredWrite(ev) == ev.type = "write" /\ ev.phase = "attempt"

\* W holds the agent's tables while it handles the ring buffer.
Course(W) ==
    /\ W \in [0 .. Len(ring) -> Tables]
    /\ W[0] = fdPaths
    /\ \A i \in 1 .. Len(ring) : W[i] = Applied(W[i - 1], ring[i])
    /\ \A i \in 1 .. Len(ring) :
         ScoredWrite(ring[i]) => Fits(W[i - 1][ring[i].fd], ring[i].truth)

Foreseen(T) == \E W : Course(W) /\ W[Len(ring)] = T

\* A call in state c is between its effect on f and its event, or the other way
\* round.
Between(c, f) ==
    \/ c.at = "in" /\ c.call = "close" /\ c.fd = f
    \/ c.at = "done" /\ c.call \in {"open", "dup"} /\ c.new = f

\* T agrees with the kernel's table, and a close under way is in it already.
Agrees(T) ==
    /\ \A f \in Fds : (\A t \in Threads : ~Between(thread[t], f)) => Fits(T[f], fds[f])
    /\ \A t \in Threads :
         thread[t].at = "in" /\ thread[t].call = "close" => T[thread[t].fd] = Untracked

Complete == drops = 0 /\ ~silent /\ ~swept

FilesInv == Complete => \E T \in Tables : Foreseen(T) /\ Agrees(T)

\* The descriptors no other thread may name or create while a call is in state c.
Holds(c) ==
    Fds \cap (IF \/ c.at = "in" /\ c.call \in {"dup", "close", "write"}
                 \/ c.at = "done" /\ c.call \in {"open", "dup"}
              THEN {c.fd, c.new} ELSE {})

\* A call in state c and the kernel's table.
Shape(c, table) ==
    /\ c.call = "open" => c.fd = None
    /\ c.call = "dup" => c.fd # c.new
    /\ c.call \in {"open", "dup"} => c.new \in Fds \cup {None}
    /\ c.at = "done" /\ c.new # None /\ c.call = "open" => table[c.new] = c.path
    /\ c.at = "done" /\ c.new # None /\ c.call = "dup" => table[c.new] = table[c.fd]

LockInv ==
    \A t \in Threads :
        /\ Shape(thread[t], fds)
        /\ \A f \in Holds(thread[t]) :
             fds[f] # Closed /\ \A u \in Threads \ {t} : f \notin Holds(thread[u])

\* Unless an open or a dup went unreported, each one under way has its entry.
EntryInv ==
    /\ drops \in Nat
    /\ ~silent => \A t \in Threads : /\ thread[t].call = "open" => opens[t] # NoPending
                                     /\ thread[t].call = "dup" => dups[t] # NoPending

-----------------------------------------------------------------------------
(* The ring buffer *)

\* The result of updateFD is a table.
LEMMA AppliedIsTable ==
    ASSUME NEW T \in Tables, NEW ev \in EventSet,
           ev.type = "dup" /\ ev.new \in Fds => ev.fd \in Fds
    PROVE  Applied(T, ev) \in Tables
<1>1. Untracked \in MaybePaths /\ ev.path \in MaybePaths
    BY Values DEF EventSet
<1>2. CASE Ignored(ev)
    BY <1>2 DEF Applied
<1>3. CASE ~Ignored(ev) /\ ev.type = "open"
    BY <1>1, <1>3, Zenon DEF Applied, Tables
<1>4. CASE ~Ignored(ev) /\ ev.type = "close"
    BY <1>1, <1>4, Zenon DEF Applied, Tables
<1>5. CASE ~Ignored(ev) /\ ev.type = "dup"
    <2>1. Applied(T, ev) = [T EXCEPT ![ev.new] = T[ev.fd]]
        BY <1>5 DEF Applied
    <2> QED
        BY <1>5, <2>1, Zenon DEF Tables
<1>6. CASE ~Ignored(ev) /\ ev.type \notin {"open", "close", "dup"}
    <2>1. Applied(T, ev) = T
        BY <1>6 DEF Applied
    <2> QED
        BY <2>1
<1> QED
    BY <1>2, <1>3, <1>4, <1>5, <1>6

\* An event is added: it is handled last.
LEMMA ForeseenAppend ==
    ASSUME EventTypes, NEW T \in Tables, Foreseen(T), NEW ev \in EventSet,
           ring' = Append(ring, ev), UNCHANGED <<fdPaths, pruned>>,
           ScoredWrite(ev) => Fits(T[ev.fd], ev.truth), Applied(T, ev) \in Tables
    PROVE  Foreseen(Applied(T, ev))'
<1>1. PICK W : Course(W) /\ W[Len(ring)] = T
    BY DEF Foreseen
<1>2. PICK n \in Nat : n = Len(ring)
    BY DEF EventTypes
<1>3. PICK N : N = Applied(T, ev)
    OBVIOUS
<1>4. PICK V : V = [i \in 0 .. n + 1 |-> IF i = n + 1 THEN N ELSE W[i]]
    BY Zenon
<1>5. /\ Len(ring') = n + 1 /\ ring'[n + 1] = ev
      /\ \A i \in 1 .. n : ring'[i] = ring[i]
    BY <1>2 DEF EventTypes
<1>6. /\ W \in [0 .. n -> Tables] /\ W[0] = fdPaths /\ W[n] = T
      /\ \A i \in 1 .. n : W[i] = Applied(W[i - 1], ring[i])
      /\ \A i \in 1 .. n : ScoredWrite(ring[i]) => Fits(W[i - 1][ring[i].fd], ring[i].truth)
    BY <1>1, <1>2, Zenon DEF Course
<1>7. V \in [0 .. n + 1 -> Tables] /\ V[0] = fdPaths /\ V[n + 1] = N
    BY <1>3, <1>4, <1>6
<1>8. \A i \in 1 .. n : V[i] = W[i] /\ V[i - 1] = W[i - 1]
    BY <1>4
<1>9. V[(n + 1) - 1] = T
    BY <1>4, <1>6
<1>10. \A i \in 1 .. n + 1 : V[i] = Applied(V[i - 1], ring'[i])
    <2> SUFFICES ASSUME NEW i \in 1 .. n + 1 PROVE V[i] = Applied(V[i - 1], ring'[i])
        BY Zenon
    <2>1. CASE i = n + 1
        BY Zenon, <1>3, <1>5, <1>7, <1>9, <2>1
    <2>2. CASE i # n + 1
        <3>1. i \in 1 .. n
            BY <2>2
        <3> QED
            BY <1>5, <1>6, <1>8, <3>1
    <2> QED
        BY <2>1, <2>2, Zenon
<1>11. \A i \in 1 .. n + 1 :
         ScoredWrite(ring'[i]) => Fits(V[i - 1][ring'[i].fd], ring'[i].truth)
    <2> SUFFICES ASSUME NEW i \in 1 .. n + 1, ScoredWrite(ring'[i])
                 PROVE  Fits(V[i - 1][ring'[i].fd], ring'[i].truth)
        BY Zenon
    <2>1. CASE i = n + 1
        BY Zenon, <1>5, <1>9, <2>1
    <2>2. CASE i # n + 1
        <3>1. i \in 1 .. n
            BY <2>2
        <3> QED
            BY <1>5, <1>6, <1>8, <3>1
    <2> QED
        BY <2>1, <2>2, Zenon
<1>12. \A p, c : Fits(p, c)' <=> Fits(p, c)
    BY DEF Fits
<1>13. Course(V)'
    BY <1>5, <1>7, <1>10, <1>11, <1>12, Zenon DEF Course, Fits, Applied, Ignored, ScoredWrite
<1> QED
    BY <1>3, <1>5, <1>7, <1>13 DEF Foreseen

\* What handle does to the table of descriptors.
LEMMA HandleTable ==
    ASSUME EventTypes, Handle
    PROVE  /\ ring # <<>> /\ ring' = Tail(ring) /\ fdPaths' = Applied(fdPaths, ring[1])
           /\ UNCHANGED <<pruned, fds, thread, drops, silent, swept>>
           /\ UNCHANGED <<opens, dups, writes>>
           /\ \/ judged' = NoJudgement
              \/ /\ judged'.event = ring[1] /\ ~Ignored(ring[1])
                 /\ ring[1].type = "write" => judged'.path = fdPaths'[ring[1].fd]
<1>0. PICK ev : ev = Head(ring)
    BY Zenon
<1>1. /\ ring # <<>> /\ ring' = Tail(ring) /\ ev = ring[1]
      /\ UNCHANGED <<fds, thread, drops, silent, swept, opens, dups, writes>>
    BY <1>0 DEF Handle, EventTypes, kernel, counts, pending
<1>2. CASE Ignored(ev)
    <2>1. judged' = NoJudgement /\ fdPaths' = fdPaths /\ pruned' = pruned
        BY <1>0, <1>2, Zenon DEF Handle, view
    <2> QED
        BY <1>1, <1>2, <2>1 DEF Applied
<1>3. CASE ~Ignored(ev)
    <2>1. fdPaths' = UpdateFD(ev) /\ pruned' = pruned
        BY <1>0, <1>3 DEF Handle
    <2>2. fdPaths' = Applied(fdPaths, ev)
        BY <1>3, <2>1 DEF UpdateFD, Duplicated, Applied
    <2>3. \/ judged' = NoJudgement
          \/ \E table, cached : Judge(ev, table, cached) /\ (ev.type = "write" => table = fdPaths')
        BY <1>0, <1>3 DEF Handle, CacheExecInfo
    <2>4. ASSUME NEW table, NEW cached, Judge(ev, table, cached), ev.type = "write" => table = fdPaths'
          PROVE  judged'.event = ev /\ (ev.type = "write" => judged'.path = fdPaths'[ev.fd])
        BY <2>4 DEF Judge
    <2> QED
        BY <1>1, <1>3, <2>1, <2>2, <2>3, <2>4
<1> QED
    BY <1>2, <1>3

\* The first event is handled: the rest leads to the same table, and a write was
\* scored under the right path.
LEMMA ForeseenHandle ==
    ASSUME EventTypes, NEW T \in Tables, Foreseen(T), Handle
    PROVE  Foreseen(T)' /\ AttributionExact'
<1>1. PICK W : Course(W) /\ W[Len(ring)] = T
    BY DEF Foreseen
<1>2. PICK n \in Nat : n = Len(ring)
    BY DEF EventTypes
<1>3. /\ ring # <<>> /\ ring' = Tail(ring) /\ fdPaths' = Applied(fdPaths, ring[1]) /\ pruned' = pruned
      /\ \/ judged' = NoJudgement
         \/ /\ judged'.event = ring[1] /\ ~Ignored(ring[1])
            /\ ring[1].type = "write" => judged'.path = fdPaths'[ring[1].fd]
    BY HandleTable
<1>4. PICK V : V = [i \in 0 .. n - 1 |-> W[i + 1]]
    BY Zenon
<1>5. /\ n >= 1 /\ Len(ring') = n - 1 /\ \A i \in 1 .. n - 1 : ring'[i] = ring[i + 1]
      /\ ring[1] \in EventSet
    BY <1>2, <1>3 DEF EventTypes
<1>6. /\ W \in [0 .. n -> Tables] /\ W[0] = fdPaths /\ W[n] = T
      /\ \A i \in 1 .. n : W[i] = Applied(W[i - 1], ring[i])
      /\ \A i \in 1 .. n : ScoredWrite(ring[i]) => Fits(W[i - 1][ring[i].fd], ring[i].truth)
    BY <1>1, <1>2, Zenon DEF Course
<1>7. V \in [0 .. n - 1 -> Tables] /\ V[n - 1] = T
    <2>1. W \in [0 .. n -> Tables] /\ W[n] = T
        BY <1>6, Zenon
    <2>2. n >= 1
        BY <1>5, Zenon
    <2> QED
        BY <1>4, <2>1, <2>2
<1>8. V[0] = fdPaths'
    <2>1. W[1] = Applied(W[1 - 1], ring[1]) /\ V[0] = W[1]
        BY <1>4, <1>5, <1>6
    <2> QED
        BY <1>3, <1>6, <2>1
<1>9. ASSUME NEW i \in 1 .. n - 1
      PROVE  /\ V[i] = Applied(V[i - 1], ring'[i])
             /\ ScoredWrite(ring'[i]) => Fits(V[i - 1][ring'[i].fd], ring'[i].truth)
    <2>1. /\ V[i] = W[i + 1] /\ V[i - 1] = W[(i + 1) - 1] /\ ring'[i] = ring[i + 1]
          /\ i + 1 \in 1 .. n
        BY <1>4, <1>5
    <2> QED
        BY <1>6, <2>1
<1>10. \A p, c : Fits(p, c)' <=> Fits(p, c)
    BY <1>3 DEF Fits
<1>11. Course(V)'
    BY <1>5, <1>7, <1>8, <1>9, <1>10, Zenon DEF Course, Fits, Applied, Ignored, ScoredWrite
<1>12. AttributionExact'
    <2>1. CASE judged' = NoJudgement
        BY <2>1, Zenon DEF AttributionExact, NoJudgement
    <2>2. CASE judged'.event = ring[1] /\ ~Ignored(ring[1]) /\ ring[1].type = "write"
        <3>1. ScoredWrite(ring[1])
            BY <1>5, <2>2 DEF Ignored, ScoredWrite, EventSet, Phases
        <3>2. fdPaths' = fdPaths
            BY <1>3, <2>2, Zenon DEF Applied
        <3>3. Fits(fdPaths[ring[1].fd], ring[1].truth)
            BY <1>5, <1>6, <3>1
        <3> QED
            BY <1>3, <2>2, <3>2, <3>3 DEF AttributionExact, Fits, NoJudgement
    <2>3. CASE judged'.event = ring[1] /\ ring[1].type # "write"
        BY <2>3 DEF AttributionExact
    <2> QED
        BY <1>3, <2>1, <2>2, <2>3
<1> QED
    BY <1>5, <1>7, <1>11, <1>12 DEF Foreseen

-----------------------------------------------------------------------------
(* The descriptors of the calls under way *)

\* A step of one thread, from the state of its call after the step.
LEMMA LockStep ==
    ASSUME IInv, EventTypes, LockInv, NEW t \in Threads, NEW r,
           thread' = [thread EXCEPT ![t] = r], Shape(r, fds'),
           \A f \in Holds(r) :
             fds'[f] # Closed /\ \A u \in Threads \ {t} : f \notin Holds(thread[u]),
           \A u \in Threads \ {t} : \A f \in Holds(thread[u]) : fds'[f] = fds[f]
    PROVE  LockInv'
<1>0. thread'[t] = r /\ \A u \in Threads \ {t} : thread'[u] = thread[u]
    BY DEF IInv, TypeInv
<1>1. ASSUME NEW u \in Threads \ {t}
      PROVE  /\ Shape(thread[u], fds')
             /\ \A f \in Holds(thread[u]) : fds'[f] # Closed /\ f \notin Holds(r)
    <2>1. Shape(thread[u], fds) /\ \A f \in Holds(thread[u]) : fds'[f] = fds[f] /\ fds[f] # Closed
        BY DEF LockInv
    <2>2. thread[u].call \in {"dup", "close", "write"} => thread[u].fd \in Fds
        BY Zenon DEF EventTypes
    <2>3. CASE thread[u].at = "done" /\ thread[u].new # None /\ thread[u].call \in {"open", "dup"}
        <3>1. Holds(thread[u]) = Fds \cap {thread[u].fd, thread[u].new}
            BY <2>3, Zenon DEF Holds
        <3>2. thread[u].new \in Holds(thread[u])
            BY <2>1, <2>3, <3>1, Zenon DEF Shape
        <3>3. thread[u].call = "dup" => thread[u].fd \in Holds(thread[u])
            BY Zenon, <2>2, <3>1
        <3> QED
            BY <2>1, <2>3, <3>2, <3>3 DEF Shape
    <2>4. CASE ~(thread[u].at = "done" /\ thread[u].new # None /\ thread[u].call \in {"open", "dup"})
        BY <2>1, <2>4, Zenon DEF Shape
    <2> QED
        BY Zenon, <2>1, <2>3, <2>4
<1>2. ASSUME NEW u \in Threads
      PROVE  /\ Shape(thread'[u], fds')
             /\ \A f \in Holds(thread'[u]) :
                  fds'[f] # Closed /\ \A v \in Threads \ {u} : f \notin Holds(thread'[v])
    <2>1. CASE u = t
        BY Zenon, <1>0, <2>1
    <2>2. CASE u # t
        <3>1. \A f \in Holds(thread[u]) : \A v \in Threads \ {u, t} : f \notin Holds(thread[v])
            BY DEF LockInv
        <3> QED
            BY Zenon, <1>0, <1>1, <2>2, <3>1
    <2> QED
        BY Zenon, <2>1, <2>2
<1> QED
    BY <1>2, Zenon DEF LockInv, Shape, Holds

\* A closed descriptor is in no call's way.
LEMMA ClosedIsFree ==
    ASSUME LockInv, NEW f \in Fds, fds[f] = Closed, NEW u \in Threads
    PROVE  f \notin Holds(thread[u])
    BY DEF LockInv

\* Entry hooks: what a call names is open, and no other call has it.
LEMMA LockEnter ==
    ASSUME IInv, EventTypes, LockInv, NEW t \in Threads, NEW call \in CallNames, NEW fd, NEW new,
           NEW path, Enter(t, call, fd, new, path),
           call = "open" => fd = None /\ new = None,
           call = "dup" => fd # new /\ new \in Fds \cup {None}
    PROVE  LockInv'
<1>1. PICK r : r = Entered(call, fd, new, path)
    BY Zenon
<1>2. /\ thread' = [thread EXCEPT ![t] = r] /\ fds' = fds
      /\ r.at = "in" /\ r.call = call /\ r.fd = fd /\ r.new = new
    BY <1>1, Zenon DEF Enter, Entered, kernel
<1>3. Shape(r, fds')
    BY <1>2, Zenon DEF Shape
<1>4. ASSUME NEW f \in Holds(r)
      PROVE  fds'[f] # Closed /\ \A u \in Threads \ {t} : f \notin Holds(thread[u])
    <2>1. f \in {fd, new} \cap Fds
        BY <1>2, Zenon DEF Holds
    <2>2. fds[f] # Closed /\ \A u \in Threads \ {t} : f \notin {thread[u].fd, thread[u].new}
        BY <2>1 DEF Enter, Settled
    <2> QED
        BY <1>2, <2>2 DEF Holds
<1> QED
    BY <1>2, <1>3, <1>4, LockStep, Zenon

\* A thread outside of calls has nothing.
LEMMA LockLeave ==
    ASSUME IInv, EventTypes, LockInv, NEW t \in Threads, NEW r \in {Out, Dead},
           thread' = [thread EXCEPT ![t] = r], fds' = fds
    PROVE  LockInv'
<1>1. r.at \in {"out", "dead"} /\ r.call = "none"
    BY DEF Out, Dead
<1>2. Shape(r, fds') /\ Holds(r) = {}
    BY <1>1 DEF Shape, Holds
<1> QED
    BY <1>2, LockStep, Zenon

\* The kernel carries a call out or fails it.
LEMMA LockKernel ==
    ASSUME IInv, EventTypes, LockInv, NEW t \in Threads, Fails(t) \/ Performs(t)
    PROVE  LockInv'
<1>0. PICK c : c = thread[t]
    OBVIOUS
<1>1. /\ c \in States /\ c.at = "in" /\ Shape(c, fds) /\ fds \in [Fds -> Contents]
      /\ \A f \in Holds(c) :
           fds[f] # Closed /\ \A u \in Threads \ {t} : f \notin Holds(thread[u])
      /\ c.call \in {"dup", "close", "write"} => c.fd \in Fds /\ c.fd \in Holds(c)
    BY <1>0, Zenon DEF IInv, TypeInv, EventTypes, LockInv, Fails, Performs, Holds
<1>2. None \notin Fds /\ Written \notin Fds /\ Written # None
    BY CaptureAssumption DEF None, Written
\* The result is no descriptor: nothing is held that was not held before.
<1>3. ASSUME NEW result \in {None, Written}, Done(t, result, fds),
             result = Written => c.call = "write"
      PROVE  LockInv'
    <2>1. PICK r : r = [c EXCEPT !.at = "done", !.new = result]
        OBVIOUS
    <2>2. /\ thread' = [thread EXCEPT ![t] = r] /\ fds' = fds
          /\ r.at = "done" /\ r.call = c.call /\ r.fd = c.fd /\ r.new = result
        BY <1>0, <1>1, <1>3, <2>1, Zenon DEF Done, IInv, TypeInv, States
    <2>3. Shape(r, fds')
        BY <1>1, <1>2, <1>3, <2>2 DEF Shape
    <2>4. Holds(r) \subseteq Holds(c)
        BY <1>1, <1>2, <1>3, <2>2, Zenon DEF Holds, Shape
    <2>5. /\ \A f \in Holds(r) :
               fds'[f] # Closed /\ \A u \in Threads \ {t} : f \notin Holds(thread[u])
          /\ \A u \in Threads \ {t} : \A f \in Holds(thread[u]) : fds'[f] = fds[f]
        BY Zenon, <1>1, <2>2, <2>4
    <2> QED
        BY <2>2, <2>3, <2>5, LockStep, Zenon
\* A descriptor is the result: it was free, or the call held it.
<1>4. ASSUME NEW f \in Fds, NEW content \in Contents, content # Closed, c.call \in {"open", "dup"},
             Done(t, f, [fds EXCEPT ![f] = content]), fds[f] = Closed \/ f \in Holds(c),
             c.call = "open" => content = c.path,
             c.call = "dup" => content = fds[c.fd] /\ f # c.fd
      PROVE  LockInv'
    <2>1. PICK r : r = [c EXCEPT !.at = "done", !.new = f]
        OBVIOUS
    <2>2. /\ thread' = [thread EXCEPT ![t] = r] /\ fds' = [fds EXCEPT ![f] = content]
          /\ r.at = "done" /\ r.call = c.call /\ r.fd = c.fd /\ r.new = f /\ r.path = c.path
        BY <1>0, <1>1, <1>4, <2>1, Zenon DEF Done, IInv, TypeInv, States
    <2>3. fds'[f] = content /\ \A g \in Fds \ {f} : fds'[g] = fds[g]
        BY <1>1, <2>2, Zenon
    <2>4. Shape(r, fds')
        BY <1>1, <1>4, <2>2, <2>3, Zenon DEF Shape
    <2>5. \A u \in Threads \ {t} : f \notin Holds(thread[u])
        BY Zenon, <1>1, <1>4, ClosedIsFree
    <2>6. Holds(r) \subseteq Holds(c) \cup {f}
        BY <1>1, <1>2, <1>4, <2>2, Zenon DEF Holds, Shape
    <2>7. \A g \in Holds(r) :
             fds'[g] # Closed /\ \A u \in Threads \ {t} : g \notin Holds(thread[u])
        <3>1. Holds(r) \subseteq Fds
            BY DEF Holds
        <3> QED
            BY Zenon, <1>1, <1>4, <2>3, <2>5, <2>6, <3>1
    <2>8. \A u \in Threads \ {t} : \A g \in Holds(thread[u]) : fds'[g] = fds[g]
        <3>1. \A u \in Threads : Holds(thread[u]) \subseteq Fds
            BY Zenon DEF Holds
        <3> QED
            BY Zenon, <2>3, <2>5, <3>1
    <2> QED
        BY <2>2, <2>4, <2>7, <2>8, LockStep, Zenon
<1>5. CASE Fails(t)
    BY <1>0, <1>2, <1>3, <1>5, Zenon DEF Fails
<1>6. CASE Performs(t)
    <2>1. \A f \in Lowest : f \in Fds /\ fds[f] = Closed
        BY Zenon DEF Lowest
    <2>2. CASE c.call = "open"
        <3>1. PICK f \in Lowest : Done(t, f, [fds EXCEPT ![f] = c.path])
            BY <1>0, <1>6, <2>2, Zenon DEF Performs
        <3>2. c.path \in Contents /\ c.path # Closed
            BY <1>1, PathsAssumption DEF States, Contents, MaybePaths
        <3> QED
            BY Zenon, <1>4, <2>1, <2>2, <3>1, <3>2
    <2>3. CASE c.call = "dup"
        <3>1. PICK f \in IF c.new = None THEN Lowest ELSE {c.new} :
                Done(t, f, [fds EXCEPT ![f] = fds[c.fd]])
            BY <1>0, <1>6, <2>3, Zenon DEF Performs
        <3>2. fds[c.fd] \in Contents /\ fds[c.fd] # Closed
            BY <1>1, <2>3
        <3>3. f \in Fds /\ f # c.fd /\ (fds[f] = Closed \/ f \in Holds(c))
            <4>1. CASE c.new = None
                BY <2>1, <3>1, <3>2, <4>1
            <4>2. CASE c.new # None
                BY <1>1, <2>3, <3>1, <4>2, Zenon DEF Shape, Holds
            <4> QED
                BY <4>1, <4>2
        <3> QED
            BY Zenon, <1>4, <2>3, <3>1, <3>2, <3>3
    <2>4. CASE c.call = "close"
        <3>1. Done(t, None, [fds EXCEPT ![c.fd] = Closed])
            BY <1>0, <1>6, <2>4 DEF Performs
        <3>2. PICK r : r = [c EXCEPT !.at = "done", !.new = None]
            OBVIOUS
        <3>3. /\ thread' = [thread EXCEPT ![t] = r] /\ fds' = [fds EXCEPT ![c.fd] = Closed]
              /\ r.at = "done" /\ r.call = "close"
            BY <1>0, <1>1, <2>4, <3>1, <3>2, Zenon DEF Done, IInv, TypeInv, States
        <3>4. Shape(r, fds') /\ Holds(r) = {}
            BY <3>3, Zenon DEF Shape, Holds
        <3>5. \A u \in Threads \ {t} : \A g \in Holds(thread[u]) : fds'[g] = fds[g]
            BY <1>1, <2>4, <3>3 DEF Holds
        <3> QED
            BY <3>3, <3>4, <3>5, LockStep, Zenon
    <2>5. CASE c.call = "write"
        <3>1. Done(t, Written, fds)
            BY <1>0, <1>6, <2>5 DEF Performs
        <3> QED
            BY Zenon, <1>3, <2>5, <3>1
    <2> QED
        BY <1>0, <1>6, <2>2, <2>3, <2>4, <2>5, Zenon DEF Performs
<1> QED
    BY <1>5, <1>6

\* The invariant of the calls under way.
LEMMA LockNext ==
    ASSUME IInv, EventTypes, LockInv, [Next]_vars
    PROVE  LockInv'
<1>1. ASSUME NEW t \in Threads, EnterExec(t) PROVE LockInv'
    <2>1. Enter(t, "exec", None, None, Untracked) /\ "exec" \in CallNames
        BY <1>1 DEF EnterExec, CallNames
    <2> QED
        BY <2>1, LockEnter
<1>2. ASSUME NEW t \in Threads, NEW p \in Paths, EnterOpen(t, p) PROVE LockInv'
    <2>1. Enter(t, "open", None, None, p) /\ "open" \in CallNames
        BY <1>2 DEF EnterOpen, CallNames
    <2> QED
        BY <2>1, LockEnter
<1>3. ASSUME NEW t \in Threads, NEW old \in Fds, NEW new \in Fds \cup {None}, old # new,
             EnterDup(t, old, new)
      PROVE  LockInv'
    <2>1. Enter(t, "dup", old, new, Untracked) /\ "dup" \in CallNames
        BY <1>3 DEF EnterDup, CallNames
    <2> QED
        BY <1>3, <2>1, LockEnter
<1>4. ASSUME NEW t \in Threads, NEW f \in Fds, EnterClose(t, f) \/ EnterWrite(t, f) PROVE LockInv'
    <2>1. PICK call \in {"close", "write"} : Enter(t, call, f, None, Untracked)
        BY <1>4 DEF EnterClose, EnterWrite
    <2>2. call \in CallNames /\ call # "open" /\ call # "dup"
        BY DEF CallNames
    <2> QED
        BY <2>1, <2>2, LockEnter
<1>5. ASSUME NEW t \in Threads, Exit(t) \/ ThreadExit(t) \/ Spawn(t) PROVE LockInv'
    <2>1. PICK r \in {Out, Dead} : thread' = [thread EXCEPT ![t] = r] /\ fds' = fds
        BY <1>5, Zenon DEF Exit, ThreadExit, Spawn, kernel
    <2> QED
        BY <2>1, LockLeave, Zenon
<1>6. ASSUME NEW t \in Threads, OpenUntracked(t) PROVE LockInv'
    <2>1. PICK f \in Fds : fds[f] = Closed /\ fds' = [fds EXCEPT ![f] = Untracked]
        BY <1>6, Zenon DEF OpenUntracked, Lowest
    <2>2. thread' = [thread EXCEPT ![t] = thread[t]]
        BY <1>6, Zenon DEF OpenUntracked, IInv, TypeInv
    <2>3. \A u \in Threads : \A g \in Holds(thread[u]) : fds'[g] = fds[g]
        <3>1. \A u \in Threads : Holds(thread[u]) \subseteq Fds /\ f \notin Holds(thread[u])
            BY <2>1, ClosedIsFree DEF Holds
        <3> QED
            BY <2>1, <3>1, Zenon DEF EventTypes
    <2>4. Shape(thread[t], fds')
        <3>1. Shape(thread[t], fds)
            BY Zenon DEF LockInv
        <3>2. thread[t].at # "done"
            BY <1>6 DEF OpenUntracked, Out
        <3> QED
            BY <3>1, <3>2, Zenon DEF Shape
    <2>5. \A g \in Holds(thread[t]) :
            fds'[g] # Closed /\ \A u \in Threads \ {t} : g \notin Holds(thread[u])
        BY <2>3 DEF LockInv
    <2> QED
        BY <2>2, <2>3, <2>4, <2>5, LockStep, Zenon
<1>7. ASSUME NEW t \in Threads, ExecSucceeds(t) PROVE LockInv'
    <2>1. \A u \in Threads : thread'[u] \in {Out, Dead}
        BY <1>7 DEF ExecSucceeds
    <2>2. ASSUME NEW r \in {Out, Dead} PROVE Shape(r, fds') /\ Holds(r) = {}
        <3>1. r.at \in {"out", "dead"} /\ r.call = "none"
            BY DEF Out, Dead
        <3> QED
            BY <3>1 DEF Shape, Holds
    <2>3. \A u \in Threads : Shape(thread'[u], fds') /\ Holds(thread'[u]) = {}
        BY Zenon, <2>1, <2>2
    <2>4. \A u \in Threads : Shape(thread[u], fds)' /\ Holds(thread[u])' = {}
        BY <2>3, Zenon DEF Shape, Holds
    <2> QED
        BY <2>4 DEF LockInv
<1>8. CASE Hooks
    <2>1. PICK t \in Threads :
            \/ \E p \in Paths : EnterOpen(t, p)
            \/ \E old \in Fds, new \in Fds \cup {None} : old # new /\ EnterDup(t, old, new)
            \/ \E f \in Fds : EnterClose(t, f) \/ EnterWrite(t, f)
            \/ EnterExec(t)
            \/ Fails(t) \/ Performs(t)
            \/ OpenUntracked(t)
            \/ Exit(t) \/ ThreadExit(t) \/ Spawn(t)
            \/ ExecSucceeds(t)
        BY <1>8, Zenon DEF Hooks
    <2> QED
        BY <1>1, <1>2, <1>3, <1>4, <1>5, <1>6, <1>7, <2>1, LockKernel
<1>9. CASE Handle \/ PruneIdle \/ UNCHANGED vars
    <2>1. UNCHANGED <<thread, fds>>
        BY <1>9, Zenon DEF Handle, PruneIdle, vars, capture, kernel
    <2>2. \A u \in Threads :
            /\ Shape(thread'[u], fds')
            /\ \A f \in Holds(thread'[u]) :
                 fds'[f] # Closed /\ \A v \in Threads \ {u} : f \notin Holds(thread'[v])
        BY <2>1, Zenon DEF LockInv
    <2> QED
        BY <2>2, Zenon DEF LockInv, Shape, Holds
<1> QED
    BY <1>8, <1>9 DEF Next

-----------------------------------------------------------------------------
(* The entries of the calls under way *)

\* One thread's step that keeps the other threads' entries.
LEMMA EntryStep ==
    ASSUME IInv, EntryInv, NEW t \in Threads, NEW r, thread' = [thread EXCEPT ![t] = r],
           drops' \in Nat, silent => silent',
           \A u \in Threads \ {t} : opens'[u] = opens[u] /\ dups'[u] = dups[u],
           ~silent' /\ r.call = "open" => opens'[t] # NoPending,
           ~silent' /\ r.call = "dup" => dups'[t] # NoPending
    PROVE  EntryInv'
<1>1. thread'[t] = r /\ \A u \in Threads \ {t} : thread'[u] = thread[u]
    BY Zenon DEF IInv, TypeInv
<1> QED
    BY <1>1, Zenon DEF EntryInv

\* The counter of lost events stays a number.
LEMMA EmitCounts ==
    ASSUME drops \in Nat, NEW ev, Emit(ev) \/ Silently PROVE drops' \in Nat
    BY DEF Emit, Silently

\* Entry hooks: without room for the entry the call is unreported.
LEMMA EntryEnter ==
    ASSUME IInv, EntryInv, NEW t \in Threads,
           \/ \E p \in Paths : EnterOpen(t, p)
           \/ \E old \in Fds, new \in Fds \cup {None} : EnterDup(t, old, new)
           \/ \E f \in Fds : EnterClose(t, f) \/ EnterWrite(t, f)
           \/ EnterExec(t)
    PROVE  EntryInv'
<1>0. opens \in [Threads -> Entries] /\ dups \in [Threads -> Entries] /\ drops \in Nat
    BY DEF IInv, TypeInv, EntryInv
<1>1. ASSUME NEW call, NEW fd, NEW new, NEW path, Enter(t, call, fd, new, path)
      PROVE  \E r : thread' = [thread EXCEPT ![t] = r] /\ r.call = call
    <2>1. thread' = [thread EXCEPT ![t] = Entered(call, fd, new, path)]
        BY <1>1, Zenon DEF Enter, Entered
    <2>2. Entered(call, fd, new, path).call = call
        BY DEF Entered
    <2> QED
        BY <2>1, <2>2, Zenon
<1>2. ASSUME NEW p \in Paths, EnterOpen(t, p) PROVE EntryInv'
    <2>1. PICK r : thread' = [thread EXCEPT ![t] = r] /\ r.call = "open"
        BY <1>1, <1>2, Zenon DEF EnterOpen
    <2>2. /\ dups' = dups /\ drops' = drops /\ silent' = (silent \/ ~Room(opens, t))
          /\ opens' = Remember(opens, t, [fd |-> None, path |-> p])
        BY <1>2 DEF EnterOpen, Silently
    <2>3. [fd |-> None, path |-> p] # NoPending
        <3>1. p # Untracked
            BY PathsAssumption
        <3> QED
            BY <3>1 DEF NoPending
    <2>4. \A u \in Threads \ {t} : opens'[u] = opens[u]
        BY <1>0, <2>2 DEF Remember
    <2>5. ~silent' => opens'[t] # NoPending
        BY <1>0, <2>2, <2>3, Zenon DEF Remember
    <2>6. silent => silent'
        BY <2>2, Zenon
    <2> QED
        BY <1>0, <2>1, <2>2, <2>4, <2>5, <2>6, EntryStep, Zenon
<1>3. ASSUME NEW old \in Fds, NEW new \in Fds \cup {None}, EnterDup(t, old, new) PROVE EntryInv'
    <2>1. PICK r : thread' = [thread EXCEPT ![t] = r] /\ r.call = "dup"
        BY <1>1, <1>3, Zenon DEF EnterDup
    <2>2. /\ opens' = opens /\ drops' = drops /\ silent' = (silent \/ ~Room(dups, t))
          /\ dups' = Remember(dups, t, [fd |-> old, path |-> Untracked])
        BY <1>3 DEF EnterDup, Silently
    <2>3. [fd |-> old, path |-> Untracked] # NoPending
        BY CaptureAssumption DEF NoPending, None
    <2>4. \A u \in Threads \ {t} : dups'[u] = dups[u]
        BY <1>0, <2>2 DEF Remember
    <2>5. ~silent' => dups'[t] # NoPending
        BY <1>0, <2>2, <2>3, Zenon DEF Remember
    <2>6. silent => silent'
        BY <2>2, Zenon
    <2> QED
        BY <1>0, <2>1, <2>2, <2>4, <2>5, <2>6, EntryStep, Zenon
<1>4. CASE (\E f \in Fds : EnterClose(t, f) \/ EnterWrite(t, f)) \/ EnterExec(t)
    <2>0. PICK call \in {"close", "write", "exec"} : \E fd : Enter(t, call, fd, None, Untracked)
        BY <1>4, Zenon DEF EnterClose, EnterWrite, EnterExec
    <2>1. PICK fd : Enter(t, call, fd, None, Untracked)
        BY <2>0, Zenon
    <2>2. PICK r : thread' = [thread EXCEPT ![t] = r] /\ r.call = call
        BY <1>1, <2>1
    <2>3. UNCHANGED <<opens, dups, silent>> /\ \E ev : Emit(ev)
        BY <1>4, Zenon DEF EnterClose, EnterWrite, EnterExec, pending, counts
    <2> QED
        BY <1>0, <2>2, <2>3, EntryStep, EmitCounts, Zenon
<1> QED
    BY <1>2, <1>3, <1>4

\* Every other step: an entry goes with its call, or the call is unreported.
LEMMA EntryNext ==
    ASSUME IInv, EntryInv, [Next]_vars
    PROVE  EntryInv'
<1>0. /\ thread \in [Threads -> States] /\ opens \in [Threads -> Entries]
      /\ dups \in [Threads -> Entries] /\ drops \in Nat
    BY DEF IInv, TypeInv, EntryInv
<1>v. Out.call = "none" /\ Dead.call = "none"
    BY Zenon, Values
<1>1. ASSUME NEW t \in Threads, Fails(t) \/ Performs(t) PROVE EntryInv'
    <2>1. PICK result, table : Done(t, result, table)
        BY <1>1, Zenon DEF Fails, Performs
    <2>2. PICK r : r = [thread[t] EXCEPT !.at = "done", !.new = result]
        OBVIOUS
    <2>3. thread' = [thread EXCEPT ![t] = r] /\ r.call = thread[t].call
        BY <1>0, <2>1, <2>2, Zenon DEF Done, States
    <2>4. UNCHANGED <<opens, dups, silent, drops>>
        BY <2>1 DEF Done, pending, counts
    <2> QED
        BY <1>0, <2>3, <2>4, EntryStep DEF EntryInv
<1>2. ASSUME NEW t \in Threads, Exit(t) PROVE EntryInv'
    <2>1. thread' = [thread EXCEPT ![t] = Out] /\ silent' = silent /\ \E ev : Emit(ev) \/ Silently
        BY <1>2 DEF Exit
    <2>2. \A u \in Threads \ {t} : opens'[u] = opens[u] /\ dups'[u] = dups[u]
        BY <1>0, <1>2, Zenon DEF Exit, Forget, pending
    <2> QED
        BY <1>0, <1>v, <2>1, <2>2, EntryStep, EmitCounts, Zenon
<1>3. ASSUME NEW t \in Threads, ThreadExit(t) PROVE EntryInv'
    <2>1. /\ thread' = [thread EXCEPT ![t] = Dead] /\ drops' = drops /\ (silent => silent')
          /\ \A u \in Threads \ {t} : opens'[u] = opens[u] /\ dups'[u] = dups[u]
        BY <1>0, <1>3, Zenon DEF ThreadExit, CleanUp, Silently
    <2> QED
        BY <1>0, <1>v, <2>1, EntryStep, Zenon
<1>4. ASSUME NEW t \in Threads, Spawn(t) PROVE EntryInv'
    <2>1. thread' = [thread EXCEPT ![t] = Out] /\ UNCHANGED <<drops, silent, opens, dups>>
        BY <1>4 DEF Spawn, Silently, pending, counts
    <2> QED
        BY <1>0, <1>v, <2>1, EntryStep, Zenon
<1>5. ASSUME NEW t \in Threads, ExecSucceeds(t) PROVE EntryInv'
    <2>1. \A u \in Threads : thread'[u].call = "none"
        BY <1>v, <1>5 DEF ExecSucceeds
    <2>2. drops' \in Nat
        BY <1>0, <1>5, EmitCounts DEF ExecSucceeds
    <2> QED
        BY <2>1, <2>2 DEF EntryInv
<1>6. ASSUME UNCHANGED <<thread, opens, dups, silent, drops>> PROVE EntryInv'
    BY <1>6, Zenon DEF EntryInv
<1>7. CASE Hooks
    <2>1. PICK t \in Threads :
            \/ \E p \in Paths : EnterOpen(t, p)
            \/ \E old \in Fds, new \in Fds \cup {None} : EnterDup(t, old, new)
            \/ \E f \in Fds : EnterClose(t, f) \/ EnterWrite(t, f)
            \/ EnterExec(t)
            \/ Fails(t) \/ Performs(t)
            \/ OpenUntracked(t)
            \/ Exit(t)
            \/ ThreadExit(t)
            \/ Spawn(t)
            \/ ExecSucceeds(t)
        BY <1>7, Zenon DEF Hooks
    <2>2. OpenUntracked(t) => UNCHANGED <<thread, opens, dups, silent, drops>>
        BY DEF OpenUntracked, pending, counts
    <2> QED
        BY <1>1, <1>2, <1>3, <1>4, <1>5, <1>6, <2>1, <2>2, EntryEnter
<1>8. CASE Handle \/ PruneIdle \/ UNCHANGED vars
    <2>1. UNCHANGED <<thread, opens, dups, silent, drops>>
        BY <1>8 DEF Handle, PruneIdle, vars, capture, pending, counts
    <2> QED
        BY Zenon, <1>6, <2>1
<1> QED
    BY <1>7, <1>8 DEF Next

-----------------------------------------------------------------------------
(* The agent's table and the kernel's *)

\* A step that adds no event to the ring buffer.
LEMMA ForeseenSame ==
    ASSUME NEW T, Foreseen(T), UNCHANGED <<ring, fdPaths, pruned>>
    PROVE  Foreseen(T)'
<1>1. PICK W : Course(W) /\ W[Len(ring)] = T
    BY DEF Foreseen
<1>2. Course(W)'
    BY <1>1 DEF Course, Fits, Applied, Ignored, ScoredWrite
<1> QED
    BY <1>1, <1>2 DEF Foreseen

\* A step of the hooks: it adds an event that leads on from T to a table that
\* agrees with the kernel's, or none and T still agrees.
Follows(T) ==
    \/ ring' = ring /\ Agrees(T)'
    \/ \E ev \in EventSet :
         /\ ring' = Append(ring, ev)
         /\ ScoredWrite(ev) => Fits(T[ev.fd], ev.truth)
         /\ ev.type = "dup" => ev.fd \in Fds
         /\ Agrees(Applied(T, ev))'

\* A step that changes the descriptors as its event foretells keeps the table.
LEMMA FilesStep ==
    ASSUME EventTypes, FilesInv, UNCHANGED <<fdPaths, pruned>>, Complete' => Complete,
           Complete' => \A T \in Tables : Agrees(T) => Follows(T)
    PROVE  FilesInv'
<1> SUFFICES ASSUME Complete' PROVE \E T \in Tables : Foreseen(T)' /\ Agrees(T)'
    BY DEF FilesInv
<1>1. PICK T \in Tables : Foreseen(T) /\ Agrees(T)
    BY DEF FilesInv
<1>2. CASE ring' = ring /\ Agrees(T)'
    BY Zenon, <1>1, <1>2, ForeseenSame
<1>3. ASSUME NEW ev \in EventSet, ring' = Append(ring, ev),
             ScoredWrite(ev) => Fits(T[ev.fd], ev.truth),
             ev.type = "dup" => ev.fd \in Fds, Agrees(Applied(T, ev))'
      PROVE  \E S \in Tables : Foreseen(S)' /\ Agrees(S)'
    <2>1. Applied(T, ev) \in Tables
        BY <1>3, AppliedIsTable
    <2>2. Foreseen(Applied(T, ev))'
        BY <1>1, <1>3, <2>1, ForeseenAppend, Zenon
    <2> QED
        BY Zenon, <1>3, <2>1, <2>2
<1> QED
    BY <1>1, <1>2, <1>3, Zenon DEF Follows

\* One thread's step, seen from the table S that the agent will have after it:
\* S is right for what the thread no longer has between effect and event.
LEMMA AgreesStep ==
    ASSUME IInv, NEW T, Agrees(T), NEW S, pruned' = pruned, NEW t \in Threads, NEW r,
           thread' = [thread EXCEPT ![t] = r],
           r.at = "in" /\ r.call = "close" => S[r.fd] = Untracked,
           \A u \in Threads \ {t} :
             thread[u].at = "in" /\ thread[u].call = "close" => S[thread[u].fd] = T[thread[u].fd],
           \A f \in Fds : ~Between(r, f) =>
             \/ ~Between(thread[t], f) /\ S[f] = T[f] /\ fds'[f] = fds[f]
             \/ Fits(S[f], fds'[f])
    PROVE  Agrees(S)'
<1>1. thread'[t] = r /\ \A u \in Threads \ {t} : thread'[u] = thread[u]
    BY Zenon DEF IInv, TypeInv
<1>2. ASSUME NEW f \in Fds, \A u \in Threads : ~Between(thread'[u], f)
      PROVE  Fits(S[f], fds'[f])
    <2>1. ~Between(r, f) /\ \A u \in Threads \ {t} : ~Between(thread[u], f)
        BY <1>1, <1>2, Zenon
    <2>2. CASE ~Between(thread[t], f) /\ S[f] = T[f] /\ fds'[f] = fds[f]
        <3>1. \A u \in Threads : ~Between(thread[u], f)
            BY <2>1, <2>2, Zenon
        <3> QED
            BY <2>2, <3>1, Zenon DEF Agrees
    <2> QED
        BY <2>1, <2>2, Zenon
<1>3. ASSUME NEW u \in Threads, thread'[u].at = "in", thread'[u].call = "close"
      PROVE  S[thread'[u].fd] = Untracked
    BY <1>1, <1>3, Zenon DEF Agrees
<1>4. \A p, c : Fits(p, c)' <=> Fits(p, c)
    BY Zenon DEF Fits
<1> QED
    BY <1>2, <1>3, <1>4, Zenon DEF Agrees, Between, Fits

\* There is such an event, and it has these parts.
Made(type, phase, fd, new, path) ==
    \E ev \in EventSet :
        /\ ev = Event(type, phase, fd, new, path)
        /\ ev.type = type /\ ev.phase = phase /\ ev.fd = fd /\ ev.new = new /\ ev.path = path
        /\ fd \in Fds => ev.truth = fds[fd]

\* The parts of an event.
LEMMA EventParts ==
    ASSUME EventTypes, NEW type \in CallNames, NEW phase \in Phases, NEW fd \in Int,
           NEW new \in Int, NEW path \in MaybePaths
    PROVE  Made(type, phase, fd, new, path)
<1>1. PICK ev : ev = Event(type, phase, fd, new, path)
    OBVIOUS
<1>2. ev \in EventSet
    BY Zenon, <1>1, EventIsTyped
<1>3. /\ ev.type = type /\ ev.phase = phase /\ ev.fd = fd /\ ev.new = new /\ ev.path = path
      /\ fd \in Fds => ev.truth = fds[fd]
    BY <1>1 DEF Event
<1> QED
    BY <1>1, <1>2, <1>3, Zenon DEF Made

\* While no event was lost, the one emitted reaches the ring buffer.
LEMMA EmitArrives ==
    ASSUME EntryInv, NEW ev, Emit(ev), Complete' PROVE ring' = Append(ring, ev)
    BY DEF Emit, EntryInv, Complete

\* A call that was entered has had no effect yet.
LEMMA AgreesEnter ==
    ASSUME IInv, NEW T, Agrees(T), pruned' = pruned, NEW t \in Threads,
           NEW call \in CallNames, NEW fd, NEW new, NEW path, Enter(t, call, fd, new, path),
           call # "close"
    PROVE  Agrees(T)'
<1>1. PICK r : r = Entered(call, fd, new, path)
    BY Zenon
<1>2. /\ thread' = [thread EXCEPT ![t] = r] /\ fds' = fds /\ thread[t] = Out
      /\ r.at = "in" /\ r.call # "close"
    BY <1>1, Zenon DEF Enter, Entered, kernel
<1>3. \A f \in Fds : ~Between(thread[t], f)
    BY <1>2 DEF Between, Out
<1> QED
    BY <1>2, <1>3, AgreesStep, Zenon

\* A close is reported before it takes effect.
LEMMA AgreesClose ==
    ASSUME IInv, NEW T \in Tables, Agrees(T), pruned' = pruned, NEW t \in Threads,
           NEW fd \in Fds, Enter(t, "close", fd, None, Untracked)
    PROVE  Agrees([T EXCEPT ![fd] = Untracked])'
<1>1. PICK r : r = Entered("close", fd, None, Untracked)
    BY Zenon
<1>2. /\ thread' = [thread EXCEPT ![t] = r] /\ fds' = fds /\ thread[t] = Out
      /\ r.at = "in" /\ r.call = "close" /\ r.fd = fd
    BY <1>1 DEF Enter, Entered, kernel
<1>3. PICK S : S = [T EXCEPT ![fd] = Untracked]
    BY Zenon
<1>4. S[fd] = Untracked /\ \A f \in Fds \ {fd} : S[f] = T[f]
    BY <1>3, Zenon DEF Tables
<1>5. \A u \in Threads \ {t} :
        thread[u].at = "in" /\ thread[u].call = "close" => S[thread[u].fd] = T[thread[u].fd]
    <2>1. \A u \in Threads \ {t} : fd # thread[u].fd
        BY DEF Enter, Settled
    <2> QED
        BY <1>3, <2>1 DEF Tables
<1>6. \A f \in Fds : ~Between(r, f) =>
        \/ ~Between(thread[t], f) /\ S[f] = T[f] /\ fds'[f] = fds[f]
        \/ Fits(S[f], fds'[f])
    <2>1. Between(r, fd)
        BY <1>2, Zenon DEF Between
    <2>2. \A f \in Fds : ~Between(thread[t], f)
        BY <1>2 DEF Between, Out
    <2> QED
        BY <1>2, <1>4, <2>1, <2>2, Zenon
<1>7. r.at = "in" /\ r.call = "close" => S[r.fd] = Untracked
    BY <1>2, <1>4
<1>8. thread' = [thread EXCEPT ![t] = r]
    BY <1>2
<1>9. Agrees(S)'
    BY <1>5, <1>6, <1>7, <1>8, AgreesStep, Zenon
<1> QED
    BY <1>3, <1>9

\* Entry hooks: a write finds the table right, a close takes its entry out.
LEMMA FollowsEnter ==
    ASSUME IInv, EventTypes, EntryInv, NEW t \in Threads, pruned' = pruned, Complete',
           NEW T \in Tables, Agrees(T),
           \/ \E p \in Paths : EnterOpen(t, p)
           \/ \E old \in Fds, new \in Fds \cup {None} : EnterDup(t, old, new)
           \/ \E f \in Fds : EnterClose(t, f)
           \/ \E f \in Fds : EnterWrite(t, f)
           \/ EnterExec(t)
    PROVE  Follows(T)
<1>0. /\ CallNames = {"none", "open", "dup", "close", "write", "exec"} /\ "attempt" \in Phases
      /\ None \in Int /\ Untracked \in MaybePaths /\ Fds \subseteq Int /\ calls + 1 \in Int
    BY CaptureAssumption, Values DEF CallNames, Phases, IInv, TypeInv
<1>1. CASE \/ \E p \in Paths : EnterOpen(t, p)
           \/ \E old \in Fds, new \in Fds \cup {None} : EnterDup(t, old, new)
    <2>0. PICK call \in {"open", "dup"} : \E fd, new, path : Enter(t, call, fd, new, path)
        BY <1>1, Zenon DEF EnterOpen, EnterDup
    <2>1. PICK fd, new, path : Enter(t, call, fd, new, path)
        BY <2>0, Zenon
    <2>2. ring' = ring
        BY <1>1, Zenon DEF EnterOpen, EnterDup, Silently
    <2> QED
        BY <1>0, <2>1, <2>2, AgreesEnter DEF Follows
<1>2. ASSUME NEW f \in Fds, EnterClose(t, f) PROVE Follows(T)
    <2>1. PICK ev \in EventSet :
            /\ ev = Event("close", "attempt", f, None, Untracked)
            /\ ev.type = "close" /\ ev.phase = "attempt" /\ ev.fd = f
        <3>1. /\ "close" \in CallNames /\ "attempt" \in Phases /\ f \in Int
              /\ None \in Int /\ Untracked \in MaybePaths
            BY <1>0
        <3>2. Made("close", "attempt", f, None, Untracked)
            BY <3>1, EventParts, Zenon
        <3> QED
            BY <3>2, Zenon DEF Made
    <2>2. ring' = Append(ring, ev)
        BY <1>2, <2>1, EmitArrives DEF EnterClose
    <2>3. Applied(T, ev) = [T EXCEPT ![f] = Untracked] /\ ~ScoredWrite(ev)
        BY <2>1, Zenon DEF Applied, Ignored, ScoredWrite
    <2>4. Enter(t, "close", f, None, Untracked)
        BY <1>2 DEF EnterClose
    <2>5. Agrees(Applied(T, ev))'
        BY <2>3, <2>4, AgreesClose, Zenon
    <2> QED
        BY <2>1, <2>2, <2>3, <2>5 DEF Follows
<1>3. ASSUME NEW f \in Fds, EnterWrite(t, f) PROVE Follows(T)
    <2>1. PICK ev \in EventSet :
            /\ ev = Event("write", "attempt", f, None, Untracked)
            /\ ev.type = "write" /\ ev.phase = "attempt" /\ ev.fd = f /\ ev.truth = fds[f]
        <3>1. /\ "write" \in CallNames /\ "attempt" \in Phases /\ f \in Int
              /\ None \in Int /\ Untracked \in MaybePaths
            BY <1>0
        <3>2. Made("write", "attempt", f, None, Untracked)
            BY <3>1, EventParts, Zenon
        <3> QED
            BY <3>2, Zenon DEF Made
    <2>2. ring' = Append(ring, ev)
        BY <1>3, <2>1, EmitArrives, Zenon DEF EnterWrite
    <2>3. Applied(T, ev) = T
        BY <2>1, Zenon DEF Applied, Ignored
    <2>4. Enter(t, "write", f, None, Untracked)
        BY <1>3, Zenon DEF EnterWrite
    <2>5. \A u \in Threads : ~Between(thread[u], f)
        BY <2>4 DEF Enter, Settled, Between, Out
    <2>6. Fits(T[f], fds[f])
        BY <2>5, Zenon DEF Agrees
    <2>7. Agrees(T)'
        BY <1>0, <2>4, AgreesEnter
    <2> QED
        BY <2>1, <2>2, <2>3, <2>6, <2>7, Zenon DEF Follows
<1>4. ASSUME EnterExec(t) PROVE Follows(T)
    <2>1. PICK ev \in EventSet :
            /\ ev = Event("exec", "attempt", None, calls + 1, Untracked) /\ ev.type = "exec"
        <3>1. /\ "exec" \in CallNames /\ "attempt" \in Phases /\ None \in Int
              /\ calls + 1 \in Int /\ Untracked \in MaybePaths
            BY <1>0
        <3>2. Made("exec", "attempt", None, calls + 1, Untracked)
            BY <3>1, EventParts, Zenon
        <3> QED
            BY <3>2, Zenon DEF Made
    <2>2. ring' = Append(ring, ev)
        BY <1>4, <2>1, EmitArrives DEF EnterExec
    <2>3. Applied(T, ev) = T /\ ~ScoredWrite(ev)
        BY <2>1 DEF Applied, ScoredWrite
    <2>4. Enter(t, "exec", None, None, Untracked)
        BY <1>4 DEF EnterExec
    <2>5. Agrees(T)'
        BY <1>0, <2>4, AgreesEnter
    <2> QED
        BY <2>1, <2>2, <2>3, <2>5, Zenon DEF Follows
<1> QED
    BY <1>1, <1>2, <1>3, <1>4

\* The kernel's part of a call: only what the call is now about to report
\* changes, and a close that was reported is carried out.
LEMMA FollowsKernel ==
    ASSUME IInv, EventTypes, LockInv, NEW t \in Threads, pruned' = pruned,
           NEW T \in Tables, Agrees(T), Fails(t) \/ Performs(t)
    PROVE  Follows(T)
<1>0. PICK c : c = thread[t]
    OBVIOUS
<1>1. /\ c \in States /\ c.at = "in" /\ fds \in [Fds -> Contents]
      /\ c.call \in {"dup", "close", "write"} => c.fd \in Fds
    BY <1>0, Zenon DEF IInv, TypeInv, EventTypes, Fails, Performs
<1>2. \A f \in Fds : Between(c, f) => c.call = "close" /\ c.fd = f
    BY <1>1, Zenon DEF Between
<1>3. ASSUME NEW result, NEW table, Done(t, result, table),
             \A f \in Fds : \/ c.call # "close" /\ table[f] = fds[f]
                            \/ c.call \in {"open", "dup"} /\ f = result
                            \/ c.call = "close" /\ f # c.fd /\ table[f] = fds[f]
                            \/ c.call = "close" /\ f = c.fd /\ table[f] = Closed
      PROVE  Follows(T)
    <2>1. PICK r : r = [c EXCEPT !.at = "done", !.new = result]
        OBVIOUS
    <2>2. /\ thread' = [thread EXCEPT ![t] = r] /\ fds' = table /\ ring' = ring
          /\ r.at = "done" /\ r.call = c.call /\ r.new = result
        BY <1>0, <1>1, <1>3, <2>1, Zenon DEF Done, IInv, TypeInv, States
    <2>3. ASSUME NEW f \in Fds, ~Between(r, f)
          PROVE  \/ ~Between(thread[t], f) /\ fds'[f] = fds[f]
                 \/ Fits(T[f], fds'[f])
        <3>1. CASE c.call = "close" /\ f = c.fd /\ table[f] = Closed
            <4>1. T[f] = Untracked
                BY <1>0, <1>1, <3>1, Zenon DEF Agrees
            <4> QED
                BY <2>2, <3>1, <4>1, Zenon DEF Fits
        <3>2. ~(c.call \in {"open", "dup"} /\ f = result)
            BY <2>2, <2>3, Zenon DEF Between
        <3> QED
            BY <1>0, <1>2, <1>3, <2>2, <3>1, <3>2, Zenon
    <2>4. Agrees(T)'
        BY <2>2, <2>3, AgreesStep, Zenon
    <2> QED
        BY <2>2, <2>4, Zenon DEF Follows
<1>4. CASE Fails(t)
    BY <1>0, <1>3, <1>4, Zenon DEF Fails
<1>5. CASE Performs(t)
    <2>1. CASE c.call = "open"
        <3>1. PICK f \in Lowest : Done(t, f, [fds EXCEPT ![f] = c.path])
            BY <1>0, <1>5, <2>1, Zenon DEF Performs
        <3>2. \A g \in Fds : g # f => [fds EXCEPT ![f] = c.path][g] = fds[g]
            BY <1>1
        <3> QED
            BY <1>3, <2>1, <3>1, <3>2, Zenon
    <2>2. CASE c.call = "dup"
        <3>1. PICK f : Done(t, f, [fds EXCEPT ![f] = fds[c.fd]])
            BY <1>0, <1>5, <2>2, Zenon DEF Performs
        <3>2. \A g \in Fds : g # f => [fds EXCEPT ![f] = fds[c.fd]][g] = fds[g]
            BY <1>1
        <3> QED
            BY <1>3, <2>2, <3>1, <3>2, Zenon
    <2>3. CASE c.call = "close"
        <3>1. Done(t, None, [fds EXCEPT ![c.fd] = Closed])
            BY <1>0, <1>5, <2>3, Zenon DEF Performs
        <3>2. PICK table : table = [fds EXCEPT ![c.fd] = Closed]
            BY Zenon
        <3>3. \A g \in Fds : (g # c.fd => table[g] = fds[g]) /\ (g = c.fd => table[g] = Closed)
            BY <1>1, <3>2
        <3>4. \A f \in Fds : \/ c.call # "close" /\ table[f] = fds[f]
                             \/ c.call \in {"open", "dup"} /\ f = None
                             \/ c.call = "close" /\ f # c.fd /\ table[f] = fds[f]
                             \/ c.call = "close" /\ f = c.fd /\ table[f] = Closed
            BY <2>3, <3>3, Zenon
        <3>5. Done(t, None, table)
            BY <3>1, <3>2
        <3> QED
            BY <1>3, <3>4, <3>5, ZenonT(30)
    <2>4. CASE c.call = "write"
        <3>1. Done(t, Written, fds)
            BY <1>0, <1>5, <2>4, Zenon DEF Performs
        <3> QED
            BY Zenon, <1>3, <2>4, <3>1
    <2> QED
        BY <1>0, <1>5, <2>1, <2>2, <2>3, <2>4, Zenon DEF Performs
<1> QED
    BY <1>4, <1>5

\* A descriptor from a call without hooks: the agent had no entry for it.
LEMMA FollowsUntracked ==
    ASSUME IInv, EventTypes, LockInv, NEW t \in Threads, pruned' = pruned,
           NEW T \in Tables, Agrees(T), OpenUntracked(t)
    PROVE  Follows(T)
<1>1. PICK f \in Fds : fds[f] = Closed /\ fds' = [fds EXCEPT ![f] = Untracked]
    BY Zenon DEF OpenUntracked, Lowest
<1>2. ring' = ring /\ thread' = [thread EXCEPT ![t] = thread[t]] /\ thread[t] = Out
    BY DEF OpenUntracked, IInv, TypeInv
<1>3. fds'[f] = Untracked /\ \A g \in Fds \ {f} : fds'[g] = fds[g]
    BY <1>1 DEF EventTypes
<1>4. \A u \in Threads : ~Between(thread[u], f)
    <2> SUFFICES ASSUME NEW u \in Threads, Between(thread[u], f) PROVE FALSE
        BY Zenon
    <2>1. f \in Holds(thread[u])
        BY DEF Between, Holds
    <2> QED
        BY <1>1, <2>1, ClosedIsFree
<1>5. Fits(T[f], Closed)
    BY <1>1, <1>4, Zenon DEF Agrees
<1>6. T[f] = Untracked
    <2>1. T[f] \in MaybePaths
        BY Zenon DEF Tables
    <2> QED
        BY <1>5, <2>1, PathsAssumption DEF Fits, MaybePaths
<1>7. \A g \in Fds : \/ ~Between(thread[t], g) /\ fds'[g] = fds[g]
                     \/ Fits(T[g], fds'[g])
    BY <1>2, <1>3, <1>6 DEF Between, Out, Fits
<1>8. thread[t].at # "in"
    BY <1>2 DEF Out
<1>9. Agrees(T)'
    BY <1>2, <1>7, <1>8, AgreesStep, Zenon
<1> QED
    BY <1>2, <1>9 DEF Follows

\* A thread leaves its call; what it had between effect and event is in S now.
LEMMA AgreesLeave ==
    ASSUME IInv, NEW T, Agrees(T), NEW S, pruned' = pruned, NEW t \in Threads, NEW r \in {Out, Dead},
           thread' = [thread EXCEPT ![t] = r], fds' = fds,
           \A u \in Threads \ {t} :
             thread[u].at = "in" /\ thread[u].call = "close" => S[thread[u].fd] = T[thread[u].fd],
           \A f \in Fds : \/ ~Between(thread[t], f) /\ S[f] = T[f]
                          \/ Fits(S[f], fds[f])
    PROVE  Agrees(S)'
<1>1. r.at # "in"
    BY DEF Out, Dead
<1>2. \A f \in Fds : ~Between(r, f) => \/ ~Between(thread[t], f) /\ S[f] = T[f] /\ fds'[f] = fds[f]
                                       \/ Fits(S[f], fds'[f])
    BY Zenon
<1> QED
    BY <1>1, <1>2, AgreesStep, Zenon

\* The event of an open or a dup says of the new descriptor what the kernel has
\* for it; no close is under way on it.
LEMMA FollowsReport ==
    ASSUME IInv, EventTypes, EntryInv, LockInv, NEW t \in Threads, pruned' = pruned, Complete',
           NEW T \in Tables, Agrees(T), Exit(t), thread[t].call \in {"open", "dup"},
           thread[t].new # None
    PROVE  Follows(T)
<1>0. PICK c : c = thread[t]
    OBVIOUS
<1>1. /\ c \in States /\ c.at = "done" /\ Shape(c, fds) /\ Matches(t) /\ c.call \in {"open", "dup"}
      /\ c.new # None /\ c.new \in Fds /\ c.new \in Holds(c)
      /\ \A f \in Holds(c) : \A u \in Threads \ {t} : f \notin Holds(thread[u])
      /\ c.call = "dup" => c.fd \in Fds /\ c.fd \in Holds(c)
    BY <1>0, Zenon DEF IInv, TypeInv, EventTypes, LockInv, Exit, Holds, Shape
<1>2. /\ thread' = [thread EXCEPT ![t] = Out] /\ fds' = fds /\ silent' = silent
    BY Zenon DEF Exit, kernel
<1>3. /\ c.call = "open" => opens[t] # NoPending /\ opens[t].path = c.path
      /\ c.call = "dup" => dups[t] # NoPending /\ dups[t].fd = c.fd
    BY <1>0, <1>1, <1>2, Zenon DEF EntryInv, Complete, Matches
<1>4. Phase(t) = "success" /\ "success" \in Phases
    BY <1>0, <1>1, Zenon DEF Phase, Phases
<1>5. /\ None \in Int /\ Untracked \in MaybePaths /\ Fds \subseteq Int
      /\ "open" \in CallNames /\ "dup" \in CallNames /\ c.path \in MaybePaths
    <2>1. c.path \in MaybePaths
        BY <1>1, Zenon DEF States
    <2>2. "open" \in CallNames /\ "dup" \in CallNames
        BY Zenon DEF CallNames
    <2>3. Fds \subseteq Int
        BY CaptureAssumption
    <2> QED
        BY <2>1, <2>2, <2>3, Values, Zenon
<1>6. ASSUME NEW content, Fits(content, fds[c.new])
      PROVE  Agrees([T EXCEPT ![c.new] = content])'
    <2>1. PICK S : S = [T EXCEPT ![c.new] = content]
        BY Zenon
    <2>2. S[c.new] = content /\ \A f \in Fds \ {c.new} : S[f] = T[f]
        BY <1>1, <2>1, Zenon DEF Tables
    <2>3. ASSUME NEW u \in Threads \ {t}, thread[u].at = "in", thread[u].call = "close"
          PROVE  S[thread[u].fd] = T[thread[u].fd]
        <3>1. thread[u].fd \in Fds /\ thread[u].fd \in Holds(thread[u])
            BY <2>3, Zenon DEF EventTypes, Holds
        <3> QED
            BY <1>1, <2>2, <3>1, Zenon
    <2>4. \A f \in Fds : \/ ~Between(thread[t], f) /\ S[f] = T[f]
                         \/ Fits(S[f], fds[f])
        BY <1>0, <1>1, <1>6, <2>2, Zenon DEF Between
    <2>5. Agrees(S)'
        BY <1>2, <2>3, <2>4, AgreesLeave, Zenon
    <2> QED
        BY <2>1, <2>5
<1>7. CASE c.call = "open"
    <2>1. PICK ev \in EventSet :
            /\ ev = Event("open", "success", None, c.new, c.path)
            /\ ev.type = "open" /\ ev.phase = "success" /\ ev.new = c.new /\ ev.path = c.path
        <3>1. c.new \in Int
            BY <1>1, <1>5, Zenon
        <3>2. Made("open", "success", None, c.new, c.path)
            BY <1>4, <1>5, <3>1, EventParts, Zenon
        <3> QED
            BY <3>2, Zenon DEF Made
    <2>2. Emit(ev)
        BY <1>0, <1>3, <1>4, <1>7, <2>1, Zenon DEF Exit
    <2>3. ring' = Append(ring, ev)
        BY <2>2, EmitArrives, Zenon
    <2>4. Applied(T, ev) = [T EXCEPT ![c.new] = c.path] /\ ~ScoredWrite(ev)
        BY <2>1, Zenon DEF Applied, Ignored, ScoredWrite
    <2>5. Fits(c.path, fds[c.new])
        BY <1>1, <1>7, Zenon DEF Shape, Fits
    <2> QED
        BY <1>6, <2>1, <2>3, <2>4, <2>5, Zenon DEF Follows
<1>8. CASE c.call = "dup"
    <2>1. PICK ev \in EventSet :
            /\ ev = Event("dup", "success", c.fd, c.new, Untracked)
            /\ ev.type = "dup" /\ ev.phase = "success" /\ ev.fd = c.fd /\ ev.new = c.new
        <3>1. c.new \in Int /\ c.fd \in Int
            BY <1>1, <1>5, <1>8, Zenon
        <3>2. Made("dup", "success", c.fd, c.new, Untracked)
            BY <1>4, <1>5, <3>1, EventParts, Zenon
        <3> QED
            BY <3>2, Zenon DEF Made
    <2>2. Emit(ev)
        BY <1>0, <1>1, <1>3, <1>8, <2>1, Zenon DEF Exit
    <2>3. ring' = Append(ring, ev)
        BY <2>2, EmitArrives, Zenon
    <2>4. Applied(T, ev) = [T EXCEPT ![c.new] = T[c.fd]] /\ ~ScoredWrite(ev)
        BY <2>1, Zenon DEF Applied, Ignored, ScoredWrite
    <2>5. \A u \in Threads : ~Between(thread[u], c.fd)
        <3> SUFFICES ASSUME NEW u \in Threads, Between(thread[u], c.fd) PROVE FALSE
            BY Zenon
        <3>1. CASE u = t
            BY <1>0, <1>1, <1>8, <3>1, Zenon DEF Between, Shape
        <3>2. CASE u # t
            <4>1. c.fd \in Holds(thread[u])
                BY <1>1, <1>8, Zenon DEF Between, Holds
            <4> QED
                BY <1>1, <1>8, <3>2, <4>1, Zenon
        <3> QED
            BY <3>1, <3>2, Zenon
    <2>6. Fits(T[c.fd], fds[c.new])
        BY <1>1, <1>8, <2>5, Zenon DEF Agrees, Shape
    <2>7. ev.fd \in Fds
        BY <1>1, <1>8, <2>1, Zenon
    <2> QED
        BY <1>6, <2>1, <2>3, <2>4, <2>6, <2>7 DEF Follows
<1> QED
    BY <1>1, <1>7, <1>8, Zenon

\* An exit hook of a call that had no effect on a descriptor, or no more: what
\* it reports does not change the table.
LEMMA FollowsQuietExit ==
    ASSUME IInv, EventTypes, EntryInv, NEW t \in Threads, pruned' = pruned, Complete',
           NEW T \in Tables, Agrees(T), Exit(t),
           thread[t].call \in {"open", "dup"} => thread[t].new = None
    PROVE  Follows(T)
<1>1. thread' = [thread EXCEPT ![t] = Out] /\ fds' = fds /\ thread[t].at = "done"
    BY Zenon DEF Exit, kernel
<1>2. None \notin Fds
    BY CaptureAssumption DEF None
<1>3. \A f \in Fds : ~Between(thread[t], f)
    BY <1>1, <1>2, Zenon DEF Between
<1>4. Agrees(T)'
    BY <1>1, <1>3, AgreesLeave, Zenon
<1>5. /\ thread[t].new \in Int /\ opens[t].path \in MaybePaths /\ writes[t].fd \in Int
      /\ Phase(t) \in {"success", "failure"} /\ Phase(t) \in Phases
      /\ None \in Int /\ Untracked \in MaybePaths /\ "open" \in CallNames /\ "write" \in CallNames
    BY Values DEF IInv, TypeInv, States, Entries, Phase, Phases, CallNames
<1>6. CASE Silently
    BY <1>4, <1>6, Zenon DEF Silently, Follows
<1>7. CASE /\ thread[t].call = "open"
           /\ Emit(Event("open", Phase(t), None, thread[t].new, opens[t].path))
    <2>1. PICK ev \in EventSet :
            /\ ev = Event("open", Phase(t), None, thread[t].new, opens[t].path)
            /\ ev.type = "open" /\ ev.phase = Phase(t)
        <3>1. Made("open", Phase(t), None, thread[t].new, opens[t].path)
            BY <1>5, EventParts, Zenon
        <3> QED
            BY <3>1, Zenon DEF Made
    <2>2. Ignored(ev) /\ ~ScoredWrite(ev)
        BY <1>7, <2>1, Zenon DEF Phase, Ignored, ScoredWrite
    <2>3. Applied(T, ev) = T
        BY <2>2 DEF Applied
    <2>4. ring' = Append(ring, ev)
        BY <1>7, <2>1, EmitArrives, Zenon
    <2> QED
        BY <1>4, <2>1, <2>2, <2>3, <2>4, Zenon DEF Follows
<1>8. CASE Emit(Event("write", Phase(t), writes[t].fd, None, Untracked))
    <2>1. PICK ev \in EventSet :
            /\ ev = Event("write", Phase(t), writes[t].fd, None, Untracked)
            /\ ev.type = "write" /\ ev.phase = Phase(t)
        <3>1. Made("write", Phase(t), writes[t].fd, None, Untracked)
            BY <1>5, EventParts, Zenon
        <3> QED
            BY <3>1, Zenon DEF Made
    <2>2. Ignored(ev) /\ ~ScoredWrite(ev)
        BY <1>5, <2>1, Zenon DEF Ignored, ScoredWrite
    <2>3. Applied(T, ev) = T
        BY <2>2 DEF Applied
    <2>4. ring' = Append(ring, ev)
        BY <1>8, <2>1, EmitArrives, Zenon
    <2> QED
        BY <1>4, <2>1, <2>2, <2>3, <2>4, Zenon DEF Follows
<1> QED
    BY <1>6, <1>7, <1>8, Zenon DEF Exit

\* The end and the start of a thread: a call that is cut off between its effect
\* and its event goes unreported.
LEMMA FollowsLife ==
    ASSUME IInv, EventTypes, EntryInv, NEW t \in Threads, pruned' = pruned, Complete', Complete,
           NEW T \in Tables, Agrees(T), ThreadExit(t) \/ Spawn(t)
    PROVE  Follows(T)
<1>1. PICK r \in {Out, Dead} : thread' = [thread EXCEPT ![t] = r] /\ fds' = fds /\ ring' = ring
    BY Zenon DEF ThreadExit, Spawn, kernel, Silently
<1>2. CASE ThreadExit(t)
    <2>1. opens[t] = NoPending /\ dups[t] = NoPending
        BY <1>2, Zenon DEF ThreadExit, CleanUp, Complete
    <2>2. thread[t].call \notin {"open", "dup"}
        BY <2>1, Zenon DEF EntryInv, Complete
    <2>3. \A f \in Fds : ~Between(thread[t], f)
        BY <1>2, <2>2, Zenon DEF ThreadExit, Between
    <2> QED
        BY <1>1, <2>3, AgreesLeave, Zenon DEF Follows
<1>3. CASE Spawn(t)
    <2>1. \A f \in Fds : ~Between(thread[t], f)
        BY <1>3 DEF Spawn, Between, Out, Dead
    <2> QED
        BY <1>1, <2>1, AgreesLeave, Zenon DEF Follows
<1> QED
    BY <1>2, <1>3

\* An exec that succeeds ends the other threads, and with close-on-exec
\* descriptors the history says so.
LEMMA FollowsExec ==
    ASSUME IInv, EventTypes, EntryInv, NEW t \in Threads, pruned' = pruned, Complete', Complete,
           NEW T \in Tables, Agrees(T), ExecSucceeds(t)
    PROVE  Follows(T)
<1>1. fds' = fds /\ \A u \in Threads : thread'[u] \in {Out, Dead}
    BY DEF ExecSucceeds, Complete
<1>2. \A u \in Threads : thread[u].call \notin {"open", "dup"}
    <2>1. \A u \in Threads \ {t} : opens[u] = NoPending /\ dups[u] = NoPending
        BY Zenon DEF ExecSucceeds, CleanUp, Complete
    <2>2. thread[t].call = "exec"
        BY DEF ExecSucceeds
    <2> QED
        BY <2>1, <2>2, Zenon DEF EntryInv, Complete
<1>3. \A u \in Threads : ~(thread[u].at = "in" /\ thread[u].call = "close")
    BY DEF ExecSucceeds
<1>4. \A f \in Fds : \A u \in Threads : ~Between(thread[u], f)
    BY <1>2, <1>3, Zenon DEF Between
<1>5. \A f \in Fds : Fits(T[f], fds[f])
    BY <1>4, Zenon DEF Agrees
<1>6. \A u \in Threads : thread'[u].at # "in"
    BY <1>1 DEF Out, Dead
<1>7. Agrees(T)'
    BY <1>1, <1>5, <1>6, Zenon DEF Agrees, Fits
<1>8. \/ \E g \in EventSet : g.type = "exec" /\ ring' = Append(ring, g)
      \/ ring' = ring
    <2>1. ExecBegins(t) \/ ExecEnds(t)
        BY ExecSteps
    <2> QED
        BY <2>1, Zenon DEF ExecBegins, ExecEnds
<1>9. ASSUME NEW g \in EventSet, g.type = "exec" PROVE Applied(T, g) = T /\ ~ScoredWrite(g)
    BY <1>9, Zenon DEF Applied, ScoredWrite
<1> QED
    BY <1>7, <1>8, <1>9, Zenon DEF Follows

\* What went unreported stays unreported.
LEMMA CompleteBefore ==
    ASSUME EntryInv, Hooks, Complete'
    PROVE  Complete
<1>1. PICK t \in Threads :
        \/ \E p \in Paths : EnterOpen(t, p)
        \/ \E old \in Fds, new \in Fds \cup {None} : EnterDup(t, old, new)
        \/ \E f \in Fds : EnterClose(t, f)
        \/ \E f \in Fds : EnterWrite(t, f)
        \/ EnterExec(t)
        \/ Fails(t) \/ Performs(t)
        \/ OpenUntracked(t)
        \/ Exit(t)
        \/ ThreadExit(t)
        \/ Spawn(t)
        \/ ExecSucceeds(t)
    BY Zenon DEF Hooks
<1>2. ASSUME NEW ev, Emit(ev) \/ Silently PROVE drops = 0
    BY <1>2 DEF Emit, Silently, EntryInv, Complete
<1>3. CASE \/ \E p \in Paths : EnterOpen(t, p)
           \/ \E old \in Fds, new \in Fds \cup {None} : EnterDup(t, old, new)
    <2>1. Silently /\ swept' = swept
        BY <1>3, Zenon DEF EnterOpen, EnterDup, Enter, kernel
    <2>2. ~silent' => ~silent
        BY <1>3, Zenon DEF EnterOpen, EnterDup
    <2> QED
        BY <1>2, <2>1, <2>2 DEF Complete
<1>4. CASE (\E f \in Fds : EnterClose(t, f)) \/ EnterExec(t)
    <2>1. (\E ev : Emit(ev)) /\ swept' = swept /\ silent' = silent
        BY <1>4, Zenon DEF EnterClose, EnterExec, Enter, kernel, counts
    <2> QED
        BY <1>2, <2>1 DEF Complete
<1>5. CASE \E f \in Fds : EnterWrite(t, f)
    <2>1. (\E ev : Emit(ev)) /\ swept' = swept
        BY <1>5, Zenon DEF EnterWrite, Enter, kernel
    <2>2. silent' = silent
        BY <1>5 DEF EnterWrite
    <2> QED
        BY <1>2, <2>1, <2>2 DEF Complete
<1>6. CASE Fails(t) \/ Performs(t)
    <2>1. PICK result, table : Done(t, result, table)
        BY <1>6, Zenon DEF Fails, Performs
    <2> QED
        BY <2>1 DEF Done, counts, Complete
<1>7. CASE OpenUntracked(t)
    BY <1>7 DEF OpenUntracked, counts, Complete
<1>8. CASE Exit(t)
    BY <1>2, <1>8, Zenon DEF Exit, kernel, Complete
<1>9. CASE ThreadExit(t) \/ Spawn(t)
    <2>1. Silently /\ swept' = swept
        BY <1>9, Zenon DEF ThreadExit, Spawn, kernel
    <2>2. ~silent' => ~silent
        BY <1>9, Zenon DEF ThreadExit, Spawn, CleanUp, counts
    <2> QED
        BY <1>2, <2>1, <2>2 DEF Complete
<1>10. CASE ExecSucceeds(t)
    <2>1. (\E ev : Emit(ev)) /\ (~swept' => ~swept)
        BY <1>10 DEF ExecSucceeds
    <2>2. ~silent' => ~silent
        BY <1>10, Zenon DEF ExecSucceeds, CleanUp
    <2> QED
        BY <1>2, <2>1, <2>2 DEF Complete
<1> QED
    BY <1>1, <1>3, <1>4, <1>5, <1>6, <1>7, <1>8, <1>9, <1>10

\* Every step keeps the agent's table in line with the kernel's.
LEMMA FilesNext ==
    ASSUME IInv, EventTypes, LockInv, EntryInv, FilesInv, AttributionExact, [Next]_vars
    PROVE  FilesInv' /\ AttributionExact'
<1>1. CASE Hooks /\ UNCHANGED view /\ judged' = NoJudgement
    <2>1. UNCHANGED <<fdPaths, pruned>> /\ AttributionExact'
        BY <1>1, Zenon DEF view, AttributionExact, NoJudgement
    <2>2. Complete' => Complete
        BY Zenon, <1>1, CompleteBefore
    <2>3. ASSUME Complete', NEW T \in Tables, Agrees(T) PROVE Follows(T)
        <3>1. PICK t \in Threads :
                \/ \E p \in Paths : EnterOpen(t, p)
                \/ \E old \in Fds, new \in Fds \cup {None} : EnterDup(t, old, new)
                \/ \E f \in Fds : EnterClose(t, f)
                \/ \E f \in Fds : EnterWrite(t, f)
                \/ EnterExec(t)
                \/ Fails(t) \/ Performs(t)
                \/ OpenUntracked(t)
                \/ Exit(t)
                \/ ThreadExit(t) \/ Spawn(t)
                \/ ExecSucceeds(t)
            BY <1>1, Zenon DEF Hooks
        <3>2. pruned' = pruned /\ Complete
            BY <2>1, <2>2, <2>3
        <3>3. CASE \/ \E p \in Paths : EnterOpen(t, p)
                   \/ \E old \in Fds, new \in Fds \cup {None} : EnterDup(t, old, new)
                   \/ \E f \in Fds : EnterClose(t, f)
                   \/ \E f \in Fds : EnterWrite(t, f)
                   \/ EnterExec(t)
            BY <2>3, <3>2, <3>3, FollowsEnter, Zenon
        <3>4. CASE Fails(t) \/ Performs(t)
            BY <2>3, <3>2, <3>4, FollowsKernel
        <3>5. CASE OpenUntracked(t)
            BY <2>3, <3>2, <3>5, FollowsUntracked
        <3>6. CASE Exit(t)
            BY <2>3, <3>2, <3>6, FollowsReport, FollowsQuietExit, Zenon
        <3>7. CASE ThreadExit(t) \/ Spawn(t)
            BY <2>3, <3>2, <3>7, FollowsLife
        <3>8. CASE ExecSucceeds(t)
            BY <2>3, <3>2, <3>8, FollowsExec
        <3> QED
            BY <3>1, <3>3, <3>4, <3>5, <3>6, <3>7, <3>8
    <2> QED
        BY <2>1, <2>2, <2>3, FilesStep, Zenon
<1>2. CASE Handle
    <2>1. UNCHANGED <<pruned, fds, thread, drops, silent, swept>>
        BY <1>2, HandleTable, Zenon
    <2>2. CASE Complete
        <3>1. PICK T \in Tables : Foreseen(T) /\ Agrees(T)
            BY <2>2 DEF FilesInv
        <3>2. Foreseen(T)' /\ AttributionExact'
            BY <1>2, <3>1, ForeseenHandle
        <3>3. Agrees(T)'
            BY <2>1, <3>1, Zenon DEF Agrees, Fits, Between
        <3> QED
            BY <3>1, <3>2, <3>3 DEF FilesInv
    <2>3. CASE ~Complete
        BY <2>1, <2>3, Zenon DEF FilesInv, Complete, AttributionExact
    <2> QED
        BY <2>2, <2>3
<1>3. CASE PruneIdle
    <2>1. /\ ring = <<>> /\ ring' = ring /\ judged' = NoJudgement
          /\ UNCHANGED <<thread, fds, drops, silent, swept>>
        BY <1>3 DEF PruneIdle, capture, kernel, counts
    <2>2. PICK S \in SUBSET Fds :
            /\ fdPaths' = [f \in Fds |-> IF f \in S THEN Untracked ELSE fdPaths[f]]
            /\ pruned' = (pruned \/ S # {})
        BY <1>3 DEF PruneIdle
    <2>3. AttributionExact'
        BY <2>1, Zenon DEF AttributionExact, NoJudgement
    <2>4. CASE Complete
        <3>1. PICK T \in Tables : Foreseen(T) /\ Agrees(T)
            BY <2>4 DEF FilesInv
        <3>2. T = fdPaths
            BY <2>1, <3>1, Zenon DEF Foreseen, Course
        <3>3. fdPaths' \in Tables
            BY <2>2, <3>1, <3>2, Values DEF Tables
        <3>4. PICK V : V = [i \in 0 .. 0 |-> fdPaths']
            BY Zenon
        <3>5. Course(V)' /\ V[Len(ring')] = fdPaths'
            <4>1. ring' = <<>> /\ Len(ring') = 0
                BY <2>1
            <4>2. V \in [0 .. 0 -> Tables] /\ V[0] = fdPaths'
                BY <3>3, <3>4
            <4> QED
                BY <4>1, <4>2 DEF Course
        <3>6. PICK N \in Tables : N = fdPaths'
            BY <3>3
        <3>7. Foreseen(N)'
            BY <3>5, <3>6 DEF Foreseen
        <3>8. \A f \in Fds : \A c : Fits(T[f], c) => Fits(N[f], c)'
            BY <2>2, <3>2, <3>6, Zenon DEF Fits
        <3>9. \A u \in Threads : thread[u].at # "in"
            BY <1>3 DEF PruneIdle, Out, Dead
        <3>10. Agrees(N)'
            BY <2>1, <3>1, <3>8, <3>9, Zenon DEF Agrees, Between
        <3> QED
            BY <2>3, <3>7, <3>10 DEF FilesInv
    <2>5. CASE ~Complete
        BY <2>1, <2>3, <2>5 DEF FilesInv, Complete
    <2> QED
        BY Zenon, <2>4, <2>5
<1>4. CASE UNCHANGED vars
    <2>1. /\ UNCHANGED <<ring, fdPaths, pruned, judged>>
          /\ UNCHANGED <<thread, fds, drops, silent, swept>>
        BY <1>4 DEF vars, capture, kernel, counts, view
    <2>2. AttributionExact'
        BY <2>1, Zenon DEF AttributionExact
    <2>3. \A T : (Foreseen(T) => Foreseen(T)') /\ (Agrees(T) => Agrees(T)')
        BY <2>1, ForeseenSame, Zenon DEF Agrees, Fits, Between
    <2>4. FilesInv'
        BY <2>1, <2>3 DEF FilesInv, Complete
    <2> QED
        BY Zenon, <2>2, <2>4
<1> QED
    BY <1>1, <1>2, <1>3, <1>4 DEF Next

\* At first the agent's table is empty and all descriptors are closed.
LEMMA FilesInit == ViewInit => LockInv /\ EntryInv /\ FilesInv /\ AttributionExact
<1> SUFFICES ASSUME ViewInit PROVE LockInv /\ EntryInv /\ FilesInv /\ AttributionExact
    OBVIOUS
<1>1. /\ ring = <<>> /\ fds = [f \in Fds |-> Closed] /\ thread = [t \in Threads |-> Out]
      /\ fdPaths = [f \in Fds |-> Untracked] /\ judged = NoJudgement /\ drops = 0
    BY DEF ViewInit, Init
<1>2. LockInv
    BY <1>1, Zenon DEF LockInv, Shape, Holds, Out
<1>3. EntryInv
    BY <1>1, Values, Zenon DEF EntryInv
<1>4. PICK V : V = [i \in 0 .. 0 |-> fdPaths]
    BY Zenon
<1>5. fdPaths \in Tables
    BY <1>1, Values DEF Tables
<1>6. Foreseen(fdPaths)
    <2>1. Course(V) /\ V[Len(ring)] = fdPaths
        BY <1>1, <1>4, <1>5 DEF Course
    <2> QED
        BY <2>1 DEF Foreseen
<1>7. Agrees(fdPaths)
    BY <1>1, Zenon DEF Agrees, Fits, Out
<1>8. AttributionExact
    BY <1>1 DEF AttributionExact, NoJudgement
<1> QED
    BY <1>2, <1>3, <1>5, <1>6, <1>7, <1>8 DEF FilesInv

\* A write is scored under the path its descriptor was open on when the write
\* was entered, for any number of threads that open, close, duplicate and write
\* meanwhile and however late the agent handles the events, unless an event was
\* lost, an open or a dup went unreported or an exec closed descriptors.
THEOREM AttributionIsExact == Spec => []AttributionExact
<1>1. ViewInit => IInv /\ EventTypes /\ LockInv /\ EntryInv /\ FilesInv /\ AttributionExact
    BY InitInv, EventTypesInit, FilesInit
<1>2. /\ IInv /\ EventTypes /\ LockInv /\ EntryInv /\ FilesInv /\ AttributionExact /\ [Next]_vars
      => (IInv /\ EventTypes /\ LockInv /\ EntryInv /\ FilesInv /\ AttributionExact)'
    BY NextInv, EventTypesNext, LockNext, EntryNext, FilesNext
<1> QED
    BY <1>1, <1>2, PTL DEF Spec
===============================================================================
